----------------------------- MODULE LinksProofs -----------------------------
(***************************************************************************)
(* Four parts that talk to somebody else, each proved by itself, for all   *)
(* values of its constants.                                                *)
(*                                                                         *)
(* Planner: the constraint tree loses no solution, and plans in which the  *)
(* engine counts no conflict keep the vehicles apart.  The argument is     *)
(* that of conflict-based search.  A solution cannot run into both sides   *)
(* of a split, so it obeys the constraints of one child; and that child    *)
(* exists, because the solution itself, cut off at the first arrival the   *)
(* low level accepts, is a path that it may find.                          *)
(*                                                                         *)
(* SapSession: a ZEWM call is refused for good only after two hits.  What  *)
(* it holds may be stale in two ways, its bearer and its session; every    *)
(* refusal uses one of them up, and a hit brings at most one back.         *)
(*                                                                         *)
(* Notify: a second click is worth one run.  From the moment a callback    *)
(* gets past its fingerprint, the token lives no longer than the           *)
(* fingerprint, so whoever gets past it next finds the token dead.         *)
(*                                                                         *)
(* RobotWire: a robot is picked on its own report alone, and the page says *)
(* what the report says.  Reports and connection messages are written into *)
(* one field, but no connection message is a state for which the worker    *)
(* picks, and no handler writes a report's state without the report.       *)
(***************************************************************************)
EXTENDS MCLinks, WellFoundedInduction, FiniteSetTheorems, TLAPS

-----------------------------------------------------------------------------
(* Numbers.                                                                *)

\* A set of naturals has a least member.
LEMMA Least ==
  ASSUME NEW S \in SUBSET Nat, S # {}
  PROVE  \E m \in S : \A n \in S : m <= n
<1>1. PICK m \in S : \A n \in S : ~(<<n, m>> \in OpToRel(<, Nat))
  BY NatLessThanWellFounded, WFMin
<1>2. \A n \in S : ~(n < m)
  BY <1>1 DEF OpToRel
<1> QED BY <1>2

\* A bounded set of integers has a greatest member, which Max finds.
LEMMA Greatest ==
  ASSUME NEW k \in Nat, NEW S \in SUBSET (-1..k), S # {}
  PROVE  Max(S) \in S /\ \A n \in S : n <= Max(S)
<1> DEFINE T == {k - n : n \in S}
<1>1. T \in SUBSET Nat
  OBVIOUS
<1>2. T # {}
  <2>1. PICK n \in S : TRUE
    OBVIOUS
  <2>2. k - n \in T
    OBVIOUS
  <2> QED BY <2>2
<1>3. PICK m \in T : \A n \in T : m <= n
  BY <1>1, <1>2, Least
<1>4. PICK x \in S : m = k - x
  OBVIOUS
<1>5. \A n \in S : n <= x
  <2> SUFFICES ASSUME NEW n \in S PROVE n <= x
    OBVIOUS
  <2>1. m <= k - n
    BY <1>3
  <2> QED BY <2>1, <1>4
<1>6. \A n \in S : x >= n
  BY <1>5
<1>7. Max(S) \in S /\ \A n \in S : Max(S) >= n
  BY <1>6 DEF Max
<1> QED BY <1>7

\* What PlannerAssumption says, one constant at a time.
LEMMA Constants ==
  /\ IsFiniteSet(Agent) /\ Horizon \in Nat /\ MaxNodes \in Nat /\ Percent \in Nat /\ Percent >= 100
  /\ \A l \in Lanes : l.from \in Node /\ l.to \in Node /\ l.time \in Nat /\ l.time >= 1
  /\ \A l \in Lanes : l.time > 1 => l.id \in Between
  /\ Between \cap Node = {}
  /\ \A a \in Agent : StartOf(a) \in Node /\ GoalOf(a) \in Node
BY PlannerAssumption DEF Between

-----------------------------------------------------------------------------
(* Paths.                                                                  *)

Arrives(a, at, t) ==
  /\ \A s \in t .. Horizon : at[s] = GoalOf(a)
  /\ t = 0 \/ at[t - 1] # GoalOf(a)

\* A walk that ends at the goal arrives at one second, and Arrival is that second.
LEMMA ArrivalIs ==
  ASSUME NEW a \in Agent, NEW lanes, NEW at \in Walks(a, lanes)
  PROVE  /\ Arrival(a, at) \in Time /\ Arrives(a, at, Arrival(a, at))
         /\ \A t \in Time : Arrives(a, at, t) => t = Arrival(a, at)
<1> DEFINE S == {t \in Time : \A s \in t .. Horizon : at[s] = GoalOf(a)}
<1>1. Horizon \in S
  BY Constants DEF Walks, Time
<1>2. S \in SUBSET Nat
  BY DEF Time
<1>3. PICK t \in S : \A s \in S : t <= s
  BY <1>1, <1>2, Least
<1>4. t # 0 => at[t - 1] # GoalOf(a)
  <2> SUFFICES ASSUME t # 0, at[t - 1] = GoalOf(a) PROVE FALSE
    OBVIOUS
  <2>1. t - 1 \in Time
    BY Constants DEF Time
  <2>2. \A s \in t - 1 .. Horizon : s = t - 1 \/ s \in t .. Horizon
    BY Constants DEF Time
  <2>3. t - 1 \in S
    BY <2>1, <2>2
  <2> QED BY <2>3, <1>3 DEF Time
<1>5. t \in Time /\ Arrives(a, at, t)
  BY <1>4 DEF Arrives
<1>6. Arrival(a, at) \in Time /\ Arrives(a, at, Arrival(a, at))
  BY <1>5 DEF Arrival, Arrives
<1>7. ASSUME NEW x \in Time, NEW y \in Time, Arrives(a, at, x), Arrives(a, at, y), x < y
      PROVE  FALSE
  <2>1. y - 1 \in x .. Horizon /\ y # 0
    BY <1>7, Constants DEF Time
  <2> QED BY <2>1, <1>7 DEF Arrives
<1>8. \A x \in Time : Arrives(a, at, x) => x = Arrival(a, at)
  BY <1>6, <1>7, Constants DEF Time
<1> QED BY <1>6, <1>8

\* The parts of a path.
LEMMA PathIs ==
  ASSUME NEW a \in Agent, NEW p \in Paths[a]
  PROVE  /\ p.at \in Walks(a, Usable(a)) /\ p.at \in [Time -> Node \cup Between]
         /\ p.seen = Time /\ p.done \in Time /\ Arrives(a, p.at, p.done)
         /\ Moves[a][p] = Edges(p)
<1>1. PICK at \in Walks(a, Usable(a)) : p = [at |-> at, done |-> Arrival(a, at), seen |-> Time]
  BY DEF Paths
<1>2. Moves[a][p] = Edges(p)
  BY DEF Moves
<1>3. at \in [Time -> Node \cup Between]
  BY DEF Walks
<1> QED BY <1>1, <1>2, <1>3, ArrivalIs

\* A walk is a path.
LEMMA WalkIsPath ==
  ASSUME NEW a \in Agent, NEW at \in Walks(a, Usable(a))
  PROVE  [at |-> at, done |-> Arrival(a, at), seen |-> Time] \in Paths[a]
BY DEF Paths

\* What a vehicle drives between two nodes is one lane, in the time the lane takes.
LEMMA EdgeIsLane ==
  ASSUME NEW a \in Agent, NEW p \in Paths[a], NEW e \in Edges(p)
  PROVE  /\ e.depart \in Time /\ e.arrive \in Time /\ e.depart < e.arrive
         /\ \E l \in Lanes : l.from = e.from /\ l.to = e.to /\ e.arrive = e.depart + l.time
<1>1. p.at \in Walks(a, Usable(a)) /\ p.at \in [Time -> Node \cup Between]
  BY PathIs
<1>2. PICK x \in Time, y \in Time :
        /\ e = [from |-> p.at[x], to |-> p.at[y], depart |-> x, arrive |-> y]
        /\ x < y /\ p.at[x] \in Node /\ p.at[y] \in Node /\ p.at[x] # p.at[y]
        /\ \A r \in x + 1 .. y - 1 : p.at[r] \in Between
  BY DEF Edges
<1>3. x \in 0 .. Horizon - 1 /\ x \in Nat /\ y \in Nat
  BY <1>2, Constants DEF Time
<1>4. Leaves(p.at, x, Usable(a))
  BY <1>1, <1>2, <1>3 DEF Walks
<1>5. p.at[x + 1] # p.at[x]
  <2>1. CASE x + 1 = y
    BY <1>2, <2>1
  <2>2. CASE x + 1 # y
    <3>1. x + 1 \in x + 1 .. y - 1
      BY <2>2, <1>2, <1>3
    <3> QED BY <3>1, <1>2, Constants
  <2> QED BY <2>1, <2>2
<1>6. PICK l \in Usable(a) :
        /\ l.from = p.at[x]
        /\ \A s \in 1 .. l.time - 1 : x + s \in Time => p.at[x + s] = l.id
        /\ x + l.time \in Time /\ p.at[x + l.time] = l.to
  BY <1>4, <1>5 DEF Leaves
<1>7. l \in Lanes /\ l.time \in Nat /\ l.time >= 1 /\ l.to \in Node
  BY Constants DEF Usable
<1>8. ~(y < x + l.time)
  <2> SUFFICES ASSUME y < x + l.time PROVE FALSE
    OBVIOUS
  <2>1. y - x \in 1 .. l.time - 1 /\ x + (y - x) = y
    BY <1>2, <1>3, <1>7
  <2>2. p.at[y] = l.id
    BY <2>1, <1>6
  <2>3. l.id \in Between
    BY <2>1, <1>7, Constants
  <2> QED BY <2>2, <2>3, <1>2, Constants
<1>9. ~(y > x + l.time)
  <2> SUFFICES ASSUME y > x + l.time PROVE FALSE
    OBVIOUS
  <2>1. x + l.time \in x + 1 .. y - 1
    BY <1>3, <1>7
  <2> QED BY <2>1, <1>2, <1>6, <1>7, Constants
<1>10. y = x + l.time
  BY <1>3, <1>7, <1>8, <1>9
<1> QED BY <1>2, <1>6, <1>7, <1>10

-----------------------------------------------------------------------------
(* The low level: what obeys the constraints is found, or something is.    *)

\* The walk that stays at the goal from second k on.
Cut(a, p, k) == [t \in Time |-> IF t <= k THEN p.at[t] ELSE GoalOf(a)]

\* A path cut off where it comes to its goal is a path that drives nothing else.
LEMMA CutIsPath ==
  ASSUME NEW a \in Agent, NEW p \in Paths[a], NEW k \in Time, p.at[k] = GoalOf(a),
         k = 0 \/ p.at[k - 1] # GoalOf(a)
  PROVE  LET q == [at |-> Cut(a, p, k), done |-> k, seen |-> Time]
         IN  q \in Paths[a] /\ Edges(q) \subseteq Edges(p)
<1> DEFINE at == Cut(a, p, k)
           q == [at |-> at, done |-> k, seen |-> Time]
<1>1. p.at \in Walks(a, Usable(a)) /\ p.at \in [Time -> Node \cup Between]
  BY PathIs
<1>2. GoalOf(a) \in Node /\ GoalOf(a) \notin Between
  BY Constants
<1>3. \A t \in Time : at[t] = IF t <= k THEN p.at[t] ELSE GoalOf(a)
  BY DEF Cut
<1>4. at \in [Time -> Node \cup Between]
  BY <1>1, <1>2 DEF Cut
<1>5. at[k] = GoalOf(a) /\ \A t \in Time : t >= k => at[t] = GoalOf(a)
  BY <1>3 DEF Time
<1>6. at[0] = StartOf(a) /\ at[Horizon] = GoalOf(a)
  BY <1>1, <1>3, <1>5, Constants DEF Walks, Time
<1>7. ASSUME NEW t \in 0 .. Horizon - 1, at[t] \in Node
      PROVE  Leaves(at, t, Usable(a))
  <2>1. t \in Time /\ t + 1 \in Time /\ k \in Nat /\ t \in Nat
    BY Constants DEF Time
  <2>2. CASE t >= k
    <3>1. at[t] = GoalOf(a) /\ at[t + 1] = GoalOf(a)
      BY <2>1, <2>2, <1>5
    <3> QED BY <3>1 DEF Leaves
  <2>3. CASE t < k
    <3>1. at[t] = p.at[t] /\ at[t + 1] = p.at[t + 1]
      BY <2>1, <2>3, <1>3
    <3>2. Leaves(p.at, t, Usable(a))
      BY <3>1, <1>1, <1>7 DEF Walks
    <3>3. CASE p.at[t + 1] = p.at[t]
      BY <3>1, <3>3 DEF Leaves
    <3>4. ASSUME NEW l \in Usable(a), l.from = p.at[t],
                 \A s \in 1 .. l.time - 1 : t + s \in Time => p.at[t + s] = l.id,
                 t + l.time \in Time, p.at[t + l.time] = l.to
          PROVE  Leaves(at, t, Usable(a))
      <4>1. l \in Lanes /\ l.time \in Nat /\ l.time >= 1
        BY Constants DEF Usable
      <4>2. ~(k < t + l.time)
        <5> SUFFICES ASSUME k < t + l.time PROVE FALSE
          OBVIOUS
        <5>1. k - t \in 1 .. l.time - 1 /\ t + (k - t) = k
          BY <2>1, <2>3, <4>1
        <5>2. p.at[k] = l.id
          BY <5>1, <3>4
        <5>3. l.id \in Between
          BY <5>1, <4>1, Constants
        <5> QED BY <5>2, <5>3, <1>2
      <4>3. at[t + l.time] = l.to
        BY <4>1, <4>2, <3>4, <2>1, <1>3
      <4>4. ASSUME NEW s \in 1 .. l.time - 1, t + s \in Time PROVE at[t + s] = l.id
        BY <4>4, <4>1, <4>2, <3>4, <2>1, <1>3
      <4> QED BY <3>1, <3>4, <4>3, <4>4 DEF Leaves
    <3> QED BY <3>2, <3>3, <3>4 DEF Leaves
  <2> QED BY <2>1, <2>2, <2>3
<1>8. ASSUME NEW t \in 0 .. Horizon - 1, at[t] \notin Node
      PROVE  t > 0 /\ \E l \in Usable(a) : l.id = at[t] /\ at[t + 1] \in {l.id, l.to}
  <2>1. t \in Time /\ t + 1 \in Time /\ k \in Nat /\ t \in Nat
    BY Constants DEF Time
  <2>2. t < k
    BY <2>1, <1>5, <1>8, <1>2
  <2>3. at[t] = p.at[t] /\ at[t + 1] = p.at[t + 1]
    BY <2>1, <2>2, <1>3
  <2> QED BY <2>3, <1>1, <1>8 DEF Walks
<1>9. at \in Walks(a, Usable(a))
  <2> HIDE DEF at
  <2> QED BY <1>4, <1>6, <1>7, <1>8 DEF Walks
<1>10. Arrives(a, at, k)
  <2>1. k # 0 => k - 1 \in Time /\ k - 1 <= k
    BY Constants DEF Time
  <2>2. k # 0 => at[k - 1] # GoalOf(a)
    BY <2>1, <1>3
  <2>3. \A s \in k .. Horizon : s \in Time /\ s >= k
    BY DEF Time
  <2> HIDE DEF at
  <2> QED BY <2>2, <2>3, <1>5 DEF Arrives
<1>11. q \in Paths[a]
  <2>1. Arrival(a, at) = k
    BY <1>9, <1>10, ArrivalIs
  <2> HIDE DEF at
  <2> QED BY <2>1, <1>9, WalkIsPath
<1>12. ASSUME NEW x \in Time, NEW y \in Time, x < y, at[x] \in Node, at[y] \in Node,
              at[x] # at[y], \A r \in x + 1 .. y - 1 : at[r] \in Between
       PROVE  y <= k
  <2> SUFFICES ASSUME k < y PROVE FALSE
    BY DEF Time
  <2>1. x \in Nat /\ y \in Nat /\ k \in Nat
    BY DEF Time
  <2>2. CASE x >= k
    BY <2>1, <2>2, <1>5, <1>12
  <2>3. CASE x < k
    <3>1. k \in x + 1 .. y - 1
      BY <2>1, <2>3
    <3> QED BY <3>1, <1>12, <1>5, <1>2
  <2> QED BY <2>1, <2>2, <2>3
<1>13. Edges(q) \subseteq Edges(p)
  <2> SUFFICES ASSUME NEW e \in Edges(q) PROVE e \in Edges(p)
    OBVIOUS
  <2>1. PICK x \in Time, y \in Time :
          /\ e = [from |-> at[x], to |-> at[y], depart |-> x, arrive |-> y]
          /\ x < y /\ at[x] \in Node /\ at[y] \in Node /\ at[x] # at[y]
          /\ \A r \in x + 1 .. y - 1 : at[r] \in Between
    <3> HIDE DEF at
    <3> QED BY DEF Edges
  <2>2. y <= k /\ x <= k
    <3> HIDE DEF at
    <3> QED BY <2>1, <1>12 DEF Time
  <2>3. at[x] = p.at[x] /\ at[y] = p.at[y]
    BY <2>2, <1>3
  <2>4. \A r \in x + 1 .. y - 1 : r \in Time /\ r <= k
    BY <2>2, Constants DEF Time
  <2>5. \A r \in x + 1 .. y - 1 : p.at[r] \in Between
    <3> HIDE DEF at
    <3> QED BY <2>1, <2>4, <1>3
  <2> HIDE DEF at
  <2> DEFINE Stretches == {z \in Time \X Time :
          /\ z[1] < z[2] /\ p.at[z[1]] \in Node /\ p.at[z[2]] \in Node /\ p.at[z[1]] # p.at[z[2]]
          /\ \A r \in z[1] + 1 .. z[2] - 1 : p.at[r] \in Between}
             Drive(z) == [from |-> p.at[z[1]], to |-> p.at[z[2]], depart |-> z[1], arrive |-> z[2]]
  <2>6. <<x, y>> \in Stretches
    BY <2>1, <2>3, <2>5
  <2>7. e = Drive(<<x, y>>)
    BY <2>1, <2>3
  <2>8. Edges(p) = {Drive(z) : z \in Stretches}
    BY Zenon DEF Edges
  <2> HIDE DEF Stretches, Drive
  <2> QED BY <2>6, <2>7, <2>8
<1> QED BY <1>11, <1>13

\* The constraints of an open node are at seconds of the window.
Timed(cons) == \A c \in cons.vertex : c.time \in Time

\* The last second at which the goal is forbidden.
LEMMA HeldFromIs ==
  ASSUME NEW a \in Agent, NEW cons, Timed(cons)
  PROVE  /\ HeldFrom(a, cons) \in -1 .. Horizon
         /\ HeldFrom(a, cons) # -1 =>
              \E c \in cons.vertex :
                c.agent = a /\ c.node = GoalOf(a) /\ c.time = HeldFrom(a, cons)
         /\ \A c \in cons.vertex :
              c.agent = a /\ c.node = GoalOf(a) => c.time <= HeldFrom(a, cons)
<1> DEFINE S == {-1} \cup {c.time : c \in {d \in cons.vertex : d.agent = a /\ d.node = GoalOf(a)}}
<1>1. S \in SUBSET (-1 .. Horizon) /\ S # {}
  BY Constants DEF Timed, Time
<1>2. HeldFrom(a, cons) = Max(S)
  BY DEF HeldFrom
<1>3. Max(S) \in S /\ \A n \in S : n <= Max(S)
  <2> HIDE DEF S
  <2> QED BY <1>1, Constants, Greatest
<1> QED BY <1>1, <1>2, <1>3

\* If any path obeys the constraints, _replan_one finds one.
LEMMA ObedientIsFound ==
  ASSUME NEW a \in Agent, NEW p \in Paths[a], NEW cons, Timed(cons), Obeys(a, p, cons)
  PROVE  Found(a, cons) # {}
<1> DEFINE h == HeldFrom(a, cons)
           S == {t \in Time : t > h /\ p.at[t] = GoalOf(a)}
<1>1. /\ p.at \in [Time -> Node \cup Between] /\ p.done \in Time /\ Arrives(a, p.at, p.done)
      /\ Moves[a][p] = Edges(p)
  BY PathIs
<1>2. \A t \in Time : t >= p.done => p.at[t] = GoalOf(a)
  BY <1>1 DEF Arrives, Time
<1>3. h \in -1 .. Horizon
  BY HeldFromIs
<1>4. h # -1 => h \in Time /\ p.at[h] # GoalOf(a)
  <2> SUFFICES ASSUME h # -1 PROVE h \in Time /\ p.at[h] # GoalOf(a)
    OBVIOUS
  <2>1. PICK c \in cons.vertex : c.agent = a /\ c.node = GoalOf(a) /\ c.time = h
    BY HeldFromIs
  <2> QED BY <2>1 DEF Timed, Obeys
<1>5. p.done \in S
  <2>1. p.at[p.done] = GoalOf(a)
    BY <1>1, <1>2 DEF Time
  <2>2. p.done > h
    BY <1>1, <1>2, <1>3, <1>4, Constants DEF Time
  <2> QED BY <2>1, <2>2, <1>1
<1>6. PICK k \in S : \A t \in S : k <= t
  <2>1. S \in SUBSET Nat
    BY DEF Time
  <2> QED BY <2>1, <1>5, Least
<1>7. k = 0 \/ p.at[k - 1] # GoalOf(a)
  <2> SUFFICES ASSUME k # 0, p.at[k - 1] = GoalOf(a) PROVE FALSE
    OBVIOUS
  <2>1. k - 1 \in Time /\ k \in Nat
    BY Constants DEF Time
  <2>2. k - 1 # h
    BY <2>1, <1>4, Constants DEF Time
  <2>3. k - 1 > h
    BY <2>1, <2>2, <1>3, Constants
  <2> QED BY <2>1, <2>3, <1>6
<1> DEFINE q == [at |-> Cut(a, p, k), done |-> k, seen |-> Time]
<1>8. q \in Paths[a] /\ Edges(q) \subseteq Edges(p) /\ Moves[a][q] = Edges(q)
  <2>1. q \in Paths[a] /\ Edges(q) \subseteq Edges(p)
    BY <1>7, CutIsPath
  <2> QED BY <2>1, PathIs
<1>9. q \in Admitted(a, cons)
  <2>1. ASSUME NEW c \in cons.vertex, c.agent = a, c.time <= k PROVE q.at[c.time] # c.node
    BY <2>1 DEF Obeys, Timed, Cut
  <2>2. ASSUME NEW e \in Moves[a][q]
        PROVE  [agent |-> a, from |-> e.from, to |-> e.to, depart |-> e.depart] \notin cons.edge
    BY <2>2, <1>8, <1>1 DEF Obeys
  <2>3. ASSUME NEW t \in 0 .. k - 1, q.at[t] = GoalOf(a) PROVE t <= h
    <3>1. t \in Time /\ t < k /\ t <= k
      BY Constants DEF Time
    <3>2. p.at[t] = GoalOf(a)
      BY <3>1, <2>3 DEF Cut
    <3> QED BY <3>1, <3>2, <1>3, <1>6, Constants DEF Time
  <2> HIDE DEF q
  <2>4. q.done = k
    BY DEF q
  <2> QED BY <2>1, <2>2, <2>3, <2>4, <1>8 DEF Admitted
<1> DEFINE D == {x.done : x \in Admitted(a, cons)}
<1>10. D \in SUBSET Nat /\ D # {}
  <2>1. \A x \in Admitted(a, cons) : x.done \in Nat
    BY PathIs DEF Admitted, Time
  <2> QED BY <2>1, <1>9
<1>11. PICK d \in D : \A e \in D : d <= e
  BY <1>10, Least
<1>12. PICK x \in Admitted(a, cons) : x.done = d
  OBVIOUS
<1>13. ASSUME NEW y \in Admitted(a, cons) PROVE 100 * x.done <= Percent * y.done
  <2>1. y.done \in Nat /\ x.done \in Nat /\ x.done <= y.done
    BY <1>10, <1>11, <1>12
  <2>2. PICK m \in Nat : m = Percent - 100
    BY Constants
  <2>3. Percent * y.done = 100 * y.done + m * y.done
    BY <2>1, <2>2, Constants
  <2>4. m * y.done \in Nat
    BY <2>1
  <2> QED BY <2>1, <2>3, <2>4
<1> QED BY <1>12, <1>13 DEF Found

-----------------------------------------------------------------------------
(* The high level: a split leaves every solution a child.                  *)

\* Between two nodes all lanes of a direction take the same time.  A constraint on an
\* edge forbids them all, so with a slow and a fast one beside each other a solution
\* may use the one while both sides of the split were about the other.
OneLaneEachWay ==
  \A l \in Lanes, m \in Lanes : l.from = m.from /\ l.to = m.to => l.time = m.time

\* A path keeps to a single constraint, of a second or of an edge.
KeepsTo(p, c) ==
  IF "node" \in DOMAIN c THEN c.time \in Time /\ p.at[c.time] # c.node
  ELSE \A e \in Edges(p) :
         [agent |-> c.agent, from |-> e.from, to |-> e.to, depart |-> e.depart] # c

PlansOf(g, plans) == DOMAIN plans = g /\ \A a \in g : plans[a] \in Paths[a]

Side(a, e) == [agent |-> a, from |-> e.from, to |-> e.to, depart |-> e.depart]
Spot(a, node, time) == [agent |-> a, node |-> node, time |-> time]

SplitOf(plans, split, a, b) ==
  \/ \E node \in Node, time \in Time : split = {Spot(a, node, time), Spot(b, node, time)}
  \/ \E e \in Edges(plans[a]), f \in Edges(plans[b]) :
       Swap(e, f) /\ split = {Side(a, e), Side(b, f)}

\* _split: the two vehicles of a conflict, each kept from its part of it.
LEMMA SplitIs ==
  ASSUME NEW g \in SUBSET Agent, NEW plans, PlansOf(g, plans), NEW split \in Splits(plans)
  PROVE  \E a \in g, b \in g : a # b /\ SplitOf(plans, split, a, b)
<1>1. CASE VertexConflicts(plans) # {}
  <2>1. PICK c \in VertexConflicts(plans) :
          split = {[agent |-> a, node |-> c.node, time |-> c.time] : a \in c.who}
    BY <1>1 DEF Splits
  <2>2. PICK d \in Pairs(plans) :
          c \in {[who |-> {d[1], d[2]}, node |-> o[1], time |-> o[2]] :
                  o \in Occupied(plans[d[1]]) \cap Occupied(plans[d[2]])}
    BY DEF VertexConflicts
  <2>3. d[1] \in g /\ d[2] \in g /\ d[1] # d[2]
    BY DEF Pairs, PlansOf
  <2>4. plans[d[1]].seen = Time
    BY <2>3, PathIs DEF PlansOf
  <2>5. c.node \in Node /\ c.time \in Time /\ c.who = {d[1], d[2]}
    BY <2>2, <2>4 DEF Occupied
  <2>6. split = {Spot(d[1], c.node, c.time), Spot(d[2], c.node, c.time)}
    BY <2>1, <2>5 DEF Spot
  <2> QED BY <2>3, <2>5, <2>6 DEF SplitOf
<1>2. CASE VertexConflicts(plans) = {}
  <2>1. PICK both \in EdgeConflicts(plans) :
          split = {[agent |-> x[1], from |-> x[2].from, to |-> x[2].to, depart |-> x[2].depart] :
                     x \in both}
    BY <1>2 DEF Splits
  <2>2. PICK d \in Pairs(plans) :
          both \in {{<<d[1], x[1]>>, <<d[2], x[2]>>} :
            x \in {y \in Edges(plans[d[1]]) \X Edges(plans[d[2]]) : Swap(y[1], y[2])}}
    BY DEF EdgeConflicts
  <2>3. d[1] \in g /\ d[2] \in g /\ d[1] # d[2]
    BY DEF Pairs, PlansOf
  <2>4. PICK e \in Edges(plans[d[1]]), f \in Edges(plans[d[2]]) :
          Swap(e, f) /\ both = {<<d[1], e>>, <<d[2], f>>}
    BY <2>2
  <2>5. split = {Side(d[1], e), Side(d[2], f)}
    BY <2>1, <2>4 DEF Side
  <2> QED BY <2>3, <2>4, <2>5 DEF SplitOf
<1> QED BY <1>1, <1>2

\* The constraints of a split are for vehicles of the group, in the window.
LEMMA SplitConstrains ==
  ASSUME NEW g \in SUBSET Agent, NEW plans, PlansOf(g, plans), NEW split \in Splits(plans),
         NEW c \in split
  PROVE  c.agent \in g /\ ("node" \in DOMAIN c => c.time \in Time)
<1>1. PICK a \in g, b \in g : SplitOf(plans, split, a, b)
  BY SplitIs
<1> QED BY <1>1 DEF SplitOf, Spot, Side

\* Two lanes between the same nodes take a vehicle the same time.
LEMMA SameLane ==
  ASSUME OneLaneEachWay, NEW a \in Agent, NEW p \in Paths[a], NEW q \in Paths[a],
         NEW e \in Edges(p), NEW d \in Edges(q), Side(a, d) = Side(a, e)
  PROVE  d.from = e.from /\ d.to = e.to /\ d.depart = e.depart /\ d.arrive = e.arrive
<1>1. d.from = e.from /\ d.to = e.to /\ d.depart = e.depart
  BY DEF Side
<1>2. PICK l \in Lanes : l.from = e.from /\ l.to = e.to /\ e.arrive = e.depart + l.time
  BY EdgeIsLane
<1>3. PICK n \in Lanes : n.from = d.from /\ n.to = d.to /\ d.arrive = d.depart + n.time
  BY EdgeIsLane
<1> QED BY <1>1, <1>2, <1>3 DEF OneLaneEachWay

\* Of two vehicles that are apart, one keeps to its side of any split.
LEMMA SplitSparesOne ==
  ASSUME OneLaneEachWay, NEW g \in SUBSET Agent, NEW plans, PlansOf(g, plans),
         NEW split \in Splits(plans), NEW s \in Solutions[g]
  PROVE  \E c \in split : KeepsTo(s[c.agent], c)
<1>1. PICK a \in g, b \in g : a # b /\ SplitOf(plans, split, a, b)
  BY SplitIs
<1>2. s[a] \in Paths[a] /\ s[b] \in Paths[b] /\ Apart(s[a], s[b])
  <2>1. /\ \A x \in g : s[x] \in Paths[x]
        /\ \A x, y \in g : x # y => Apart(s[x], s[y])
    BY DEF Solutions
  <2> QED BY <2>1, <1>1
<1>3. ASSUME NEW node \in Node, NEW time \in Time,
             split = {Spot(a, node, time), Spot(b, node, time)}
      PROVE  \E c \in split : KeepsTo(s[c.agent], c)
  <2>1. PICK x \in {a, b} : s[x].at[time] # node
    BY <1>2 DEF Apart
  <2>2. /\ Spot(x, node, time) \in split /\ Spot(x, node, time).agent = x
        /\ Spot(x, node, time).node = node /\ Spot(x, node, time).time = time
        /\ "node" \in DOMAIN Spot(x, node, time)
    BY <1>3 DEF Spot
  <2> QED BY <2>1, <2>2 DEF KeepsTo
<1>4. ASSUME NEW e \in Edges(plans[a]), NEW f \in Edges(plans[b]), Swap(e, f),
             split = {Side(a, e), Side(b, f)}
      PROVE  \E c \in split : KeepsTo(s[c.agent], c)
  <2>1. /\ "node" \notin DOMAIN Side(a, e) /\ Side(a, e).agent = a
        /\ "node" \notin DOMAIN Side(b, f) /\ Side(b, f).agent = b
    BY DEF Side
  <2>2. ASSUME NEW d \in Edges(s[a]), Side(a, d) = Side(a, e),
               NEW h \in Edges(s[b]), Side(b, h) = Side(b, f)
        PROVE  FALSE
    <3>1. plans[a] \in Paths[a] /\ plans[b] \in Paths[b]
      BY DEF PlansOf
    <3>2. d.from = e.from /\ d.to = e.to /\ d.depart = e.depart /\ d.arrive = e.arrive
      BY <3>1, <1>2, <2>2, SameLane
    <3>3. h.from = f.from /\ h.to = f.to /\ h.depart = f.depart /\ h.arrive = f.arrive
      BY <3>1, <1>2, <2>2, SameLane
    <3>4. Swap(d, h)
      BY <1>4, <3>2, <3>3 DEF Swap
    <3> QED BY <3>4, <1>2 DEF Apart
  <2>3. KeepsTo(s[a], Side(a, e)) \/ KeepsTo(s[b], Side(b, f))
    <3>1. KeepsTo(s[a], Side(a, e)) <=> \A d \in Edges(s[a]) : Side(a, d) # Side(a, e)
      BY <2>1 DEF KeepsTo, Side
    <3>2. KeepsTo(s[b], Side(b, f)) <=> \A h \in Edges(s[b]) : Side(b, h) # Side(b, f)
      BY <2>1 DEF KeepsTo, Side
    <3> QED BY <3>1, <3>2, <2>2
  <2> QED BY <2>1, <2>3, <1>4
<1> QED BY <1>1, <1>3, <1>4 DEF SplitOf

\* What obeys a node's constraints and keeps to the new one obeys the child's.
LEMMA ChildIsObeyed ==
  ASSUME NEW a \in Agent, NEW p \in Paths[a], NEW cons, Obeys(a, p, cons),
         NEW c, c.agent = a => KeepsTo(p, c)
  PROVE  Obeys(a, p, With(cons, c))
<1>1. Moves[a][p] = Edges(p)
  BY PathIs
<1>2. CASE "node" \in DOMAIN c
  <2>1. With(cons, c).vertex \subseteq cons.vertex \cup {c} /\ With(cons, c).edge = cons.edge
    BY <1>2 DEF With
  <2> QED BY <2>1, <1>2 DEF Obeys, KeepsTo
<1>3. CASE "node" \notin DOMAIN c
  <2>1. With(cons, c).edge \subseteq cons.edge \cup {c} /\ With(cons, c).vertex = cons.vertex
    BY <1>3 DEF With
  <2>2. ASSUME NEW e \in Edges(p)
        PROVE  [agent |-> a, from |-> e.from, to |-> e.to, depart |-> e.depart] # c
    <3>1. [agent |-> a, from |-> e.from, to |-> e.to, depart |-> e.depart].agent = a
      OBVIOUS
    <3> QED BY <3>1, <1>3 DEF KeepsTo
  <2> QED BY <2>1, <2>2, <1>1 DEF Obeys
<1> QED BY <1>2, <1>3

-----------------------------------------------------------------------------
(* Conflicts that are counted.                                             *)

\* The values of a function on a finite set are finitely many.
LEMMA ValuesAreFinite ==
  ASSUME NEW S, IsFiniteSet(S), NEW f, f = [x \in S |-> f[x]]
  PROVE  IsFiniteSet({f[x] : x \in S})
<1> DEFINE T == {f[x] : x \in S}
<1>1. f \in Surjection(S, T)
  <2>1. f \in [S -> T]
    OBVIOUS
  <2>2. \A t \in T : \E x \in S : f[x] = t
    OBVIOUS
  <2> HIDE DEF T
  <2> QED BY <2>1, <2>2 DEF Surjection
<1> HIDE DEF T
<1>2. IsFiniteSet(T)
  BY <1>1, FS_Surjection
<1> QED BY <1>2 DEF T

\* A path occupies and drives finitely much.
LEMMA PathsAreFinite ==
  ASSUME NEW a \in Agent, NEW p \in Paths[a]
  PROVE  IsFiniteSet(Occupied(p)) /\ IsFiniteSet(Edges(p))
<1>1. IsFiniteSet(Time)
  <2>1. 0 \in Int /\ Horizon \in Int
    BY Constants
  <2>2. IsFiniteSet(0 .. Horizon)
    BY <2>1, FS_Interval
  <2> QED BY <2>2 DEF Time
<1>2. IsFiniteSet(Time \X Time)
  BY <1>1, FS_Product
<1> DEFINE S == {t \in p.seen : p.at[t] \in Node}
           D == {y \in Time \X Time :
                  /\ y[1] < y[2] /\ p.at[y[1]] \in Node /\ p.at[y[2]] \in Node /\ p.at[y[1]] # p.at[y[2]]
                  /\ \A r \in y[1] + 1 .. y[2] - 1 : p.at[r] \in Between}
<1>3. IsFiniteSet(S)
  <2>1. S \subseteq Time
    BY PathIs
  <2> QED BY <1>1, <2>1, FS_Subset
<1>4. IsFiniteSet(D)
  <2>1. D \subseteq Time \X Time
    OBVIOUS
  <2> QED BY <1>2, <2>1, FS_Subset
<1>5. IsFiniteSet(Occupied(p))
  <2> DEFINE f == [t \in S |-> <<p.at[t], t>>]
  <2> HIDE DEF S
  <2>1. IsFiniteSet({f[t] : t \in S})
    BY <1>3, ValuesAreFinite
  <2>2. Occupied(p) = {f[t] : t \in S}
    BY DEF Occupied, S
  <2> QED BY <2>1, <2>2
<1>6. IsFiniteSet(Edges(p))
  <2> DEFINE f == [x \in D |-> [from |-> p.at[x[1]], to |-> p.at[x[2]], depart |-> x[1], arrive |-> x[2]]]
  <2> HIDE DEF D
  <2>1. IsFiniteSet({f[x] : x \in D})
    BY <1>4, ValuesAreFinite
  <2>2. {f[x] : x \in D} =
          {[from |-> p.at[x[1]], to |-> p.at[x[2]], depart |-> x[1], arrive |-> x[2]] : x \in D}
    OBVIOUS
  <2>3. Edges(p) = {f[x] : x \in D}
    BY <2>2 DEF Edges, D
  <2> QED BY <2>1, <2>3
<1> QED BY <1>5, <1>6

\* Two paths in which the engine counts no conflict are apart (_detect_conflicts).
LEMMA UncountedIsApart ==
  ASSUME NEW a \in Agent, NEW b \in Agent, a # b, NEW p \in Paths[a], NEW q \in Paths[b],
         NEW plans, DOMAIN plans = {a, b}, plans[a] = p, plans[b] = q, Conflicts(plans) = 0
  PROVE  Apart(p, q)
<1> DEFINE V == VertexConflicts(plans)
           E == EdgeConflicts(plans)
           Cross(d) == Occupied(plans[d[1]]) \cap Occupied(plans[d[2]])
           Spots(d) == {[who |-> {d[1], d[2]}, node |-> o[1], time |-> o[2]] : o \in Cross(d)}
           Meet(d) == {y \in Edges(plans[d[1]]) \X Edges(plans[d[2]]) : Swap(y[1], y[2])}
           Swaps(d) == {{<<d[1], x[1]>>, <<d[2], x[2]>>} : x \in Meet(d)}
<1>1. Pairs(plans) = {<<a, b>>, <<b, a>>}
  BY DEF Pairs
<1>2. \A x \in {a, b} : IsFiniteSet(Occupied(plans[x])) /\ IsFiniteSet(Edges(plans[x]))
  BY PathsAreFinite
<1>3. ASSUME NEW d \in {<<a, b>>, <<b, a>>} PROVE IsFiniteSet(Spots(d)) /\ IsFiniteSet(Swaps(d))
  <2>1. d[1] \in {a, b} /\ d[2] \in {a, b}
    OBVIOUS
  <2>2. IsFiniteSet(Cross(d))
    BY <2>1, <1>2, FS_Intersection
  <2>3. IsFiniteSet(Meet(d))
    <3>1. IsFiniteSet(Edges(plans[d[1]]) \X Edges(plans[d[2]]))
      BY <2>1, <1>2, FS_Product
    <3> QED BY <3>1, FS_Subset
  <2>4. IsFiniteSet(Spots(d))
    <3>1. PICK C : C = Cross(d)
      OBVIOUS
    <3>2. PICK w : w = {d[1], d[2]}
      OBVIOUS
    <3>3. PICK f : f = [o \in C |-> [who |-> w, node |-> o[1], time |-> o[2]]]
      OBVIOUS
    <3>4. IsFiniteSet({f[o] : o \in C})
      BY <2>2, <3>1, <3>3, ValuesAreFinite
    <3>5. \A o \in C : f[o] = [who |-> w, node |-> o[1], time |-> o[2]]
      BY <3>3
    <3> HIDE DEF V, E, Cross, Spots, Meet, Swaps
    <3>6. {f[o] : o \in C} = {[who |-> w, node |-> o[1], time |-> o[2]] : o \in C}
      <4>1. \A o \in C : f[o] \in {[who |-> w, node |-> x[1], time |-> x[2]] : x \in C}
        BY <3>5
      <4>2. \A o \in C : [who |-> w, node |-> o[1], time |-> o[2]] \in {f[x] : x \in C}
        BY <3>5
      <4> QED BY <4>1, <4>2
    <3> QED BY <3>1, <3>2, <3>4, <3>6 DEF Spots
  <2>5. IsFiniteSet(Swaps(d))
    <3> DEFINE Meeting(x) == {<<d[1], x[1]>>, <<d[2], x[2]>>}
    <3>1. PICK M : M = Meet(d)
      OBVIOUS
    <3>2. Swaps(d) = {Meeting(x) : x \in Meet(d)}
      OBVIOUS
    <3> HIDE DEF V, E, Cross, Spots, Meet, Swaps, Meeting
    <3>3. PICK h : h = [x \in M |-> Meeting(x)]
      OBVIOUS
    <3>4. IsFiniteSet({h[x] : x \in M})
      BY <2>3, <3>1, <3>3, ValuesAreFinite
    <3>5. \A x \in M : h[x] = Meeting(x)
      BY <3>3
    <3>6. Swaps(d) = {h[x] : x \in M}
      <4>1. \A s \in Swaps(d) : \E x \in M : s = h[x]
        BY <3>1, <3>2, <3>5
      <4>2. \A x \in M : h[x] \in Swaps(d)
        BY <3>1, <3>2, <3>5
      <4> QED BY <4>1, <4>2
    <3> QED BY <3>4, <3>6
  <2> QED BY <2>4, <2>5
<1>4. V = Spots(<<a, b>>) \cup Spots(<<b, a>>) /\ E = Swaps(<<a, b>>) \cup Swaps(<<b, a>>)
  <2>1. V = UNION {Spots(d) : d \in {<<a, b>>, <<b, a>>}}
    BY <1>1 DEF VertexConflicts
  <2>2. E = UNION {Swaps(d) : d \in {<<a, b>>, <<b, a>>}}
    BY <1>1 DEF EdgeConflicts
  <2> HIDE DEF V, E, Spots, Swaps
  <2> QED BY <2>1, <2>2
<1>5. IsFiniteSet(V) /\ IsFiniteSet(E)
  <2> HIDE DEF V, E, Spots, Swaps
  <2> QED BY <1>3, <1>4, FS_Union
<1>6. V = {} /\ E = {}
  <2>1. Cardinality(V) \in Nat /\ Cardinality(E) \in Nat
    BY <1>5, FS_CardinalityType
  <2>2. Cardinality(V) = 0 /\ Cardinality(E) = 0
    BY <2>1 DEF Conflicts
  <2> HIDE DEF V, E
  <2> QED BY <2>2, <1>5, FS_EmptySet
<1>7. ASSUME NEW t \in Time, p.at[t] \in Node PROVE p.at[t] # q.at[t]
  <2> SUFFICES ASSUME p.at[t] = q.at[t] PROVE FALSE
    OBVIOUS
  <2>1. <<p.at[t], t>> \in Occupied(p) /\ <<p.at[t], t>> \in Occupied(q)
    BY <1>7, PathIs DEF Occupied
  <2>2. <<p.at[t], t>> \in Cross(<<a, b>>)
    BY <2>1
  <2>3. Spots(<<a, b>>) # {}
    <3> DEFINE C == Cross(<<a, b>>)
    <3>1. C # {}
      BY <2>2
    <3> QED BY <3>1
  <2> HIDE DEF V, E, Spots, Swaps
  <2> QED BY <2>3, <1>4, <1>6
<1>8. ASSUME NEW e \in Edges(p), NEW f \in Edges(q), Swap(e, f) PROVE FALSE
  <2>1. <<e, f>> \in Meet(<<a, b>>)
    BY <1>8
  <2>2. Swaps(<<a, b>>) # {}
    <3>1. {<<a, <<e, f>>[1]>>, <<b, <<e, f>>[2]>>} \in Swaps(<<a, b>>)
      BY <2>1
    <3> QED BY <3>1
  <2> HIDE DEF V, E, Spots, Swaps
  <2> QED BY <2>2, <1>4, <1>6
<1> QED BY <1>7, <1>8 DEF Apart

-----------------------------------------------------------------------------
(* The inductive invariant.                                                *)

NodeOK(n) == PlansOf(group, n.plans) /\ Timed(n.cons)

PlannerInv ==
  /\ group \subseteq Agent /\ waiting \subseteq Agent
  /\ stage \in {"group", "search", "done", "updated"}
  /\ stage # "updated" =>
       DOMAIN answer \subseteq Agent /\ \A a \in DOMAIN answer : answer[a] \in Paths[a]
  /\ stage = "search" => NodeOK(root) /\ \A n \in tree : NodeOK(n)

\* _macro_groups: a group is of vehicles, whatever the corridors are.
LEMMA GroupIsOfAgents ==
  ASSUME NEW a \in Agent
  PROVE  GroupOf(a) \in SUBSET Agent
<1> DEFINE closed == {g \in SUBSET Agent :
                        a \in g /\ \A x \in g, y \in Agent : Meets(x, y) => y \in g}
           least == {x \in Agent : \A h \in closed : x \in h}
<1>1. least \in closed
  OBVIOUS
<1>2. \A h \in closed : least \subseteq h
  OBVIOUS
<1>3. GroupOf(a) = CHOOSE g \in closed : \A h \in closed : g \subseteq h
  BY DEF GroupOf
<1>4. GroupOf(a) \in closed
  <2> HIDE DEF closed, least
  <2> QED BY <1>1, <1>2, <1>3
<1> QED BY <1>4

\* A plan the low level finds is a path.
LEMMA FoundIsPath ==
  ASSUME NEW a \in Agent, NEW cons
  PROVE  Found(a, cons) \subseteq Paths[a]
BY DEF Found, Admitted

\* _replan_one: a child has plans for the same vehicles and one constraint more.
LEMMA ChildIsNode ==
  ASSUME PlannerInv, NEW n, NodeOK(n), NEW split \in Splits(n.plans), NEW c \in split,
         NEW child \in Children(n, c)
  PROVE  NodeOK(child) /\ child.cons = With(n.cons, c)
<1>1. PICK p \in Found(c.agent, With(n.cons, c)) :
        child = NodeWith(With(n.cons, c), [n.plans EXCEPT ![c.agent] = p])
  BY DEF Children
<1>2. child.cons = With(n.cons, c) /\ child.plans = [n.plans EXCEPT ![c.agent] = p]
  BY <1>1 DEF NodeWith
<1>3. c.agent \in group /\ ("node" \in DOMAIN c => c.time \in Time)
  BY SplitConstrains DEF NodeOK, PlannerInv
<1>4. p \in Paths[c.agent]
  BY <1>3, FoundIsPath DEF PlannerInv
<1>5. PlansOf(group, child.plans)
  <2>1. DOMAIN child.plans = group
    BY <1>2 DEF NodeOK, PlansOf
  <2>2. \A a \in group : child.plans[a] = IF a = c.agent THEN p ELSE n.plans[a]
    BY <1>2 DEF NodeOK, PlansOf
  <2> QED BY <2>1, <2>2, <1>4 DEF NodeOK, PlansOf
<1>6. Timed(child.cons)
  <2>1. child.cons.vertex \subseteq n.cons.vertex \cup (IF "node" \in DOMAIN c THEN {c} ELSE {})
    BY <1>2 DEF With
  <2> QED BY <2>1, <1>3 DEF NodeOK, Timed
<1> QED BY <1>2, <1>5, <1>6 DEF NodeOK

\* A group whose search ends adds its plans to the answer.
LEMMA ReturnKeeps ==
  ASSUME PlannerInv, stage = "search", NEW n, NodeOK(n), Return(n)
  PROVE  PlannerInv'
<1>1. /\ answer' = [a \in (DOMAIN answer) \cup group |-> IF a \in group THEN n.plans[a] ELSE answer[a]]
      /\ stage' = "group" /\ UNCHANGED <<waiting, group>>
  BY DEF Return
<1>2. \A a \in (DOMAIN answer) \cup group : answer'[a] \in Paths[a]
  BY <1>1 DEF PlannerInv, NodeOK, PlansOf
<1>3. DOMAIN answer' = (DOMAIN answer) \cup group
  BY <1>1
<1> QED BY <1>1, <1>2, <1>3 DEF PlannerInv

\* The invariant at the start and after every step of the layer and the engine.
LEMMA PlannerStarts == PlannerInit => PlannerInv
<1> SUFFICES ASSUME PlannerInit PROVE PlannerInv
  OBVIOUS
<1>1. answer = <<>> /\ stage = "group" /\ group = {} /\ waiting = Agent
  BY DEF PlannerInit
<1>2. DOMAIN answer = {}
  BY <1>1
<1> QED BY <1>1, <1>2 DEF PlannerInv

\* Every action of the planner keeps the invariant.
LEMMA PlannerKept == PlannerInv /\ [PlannerNext]_pvars => PlannerInv'
<1> SUFFICES ASSUME PlannerInv, [PlannerNext]_pvars PROVE PlannerInv'
  OBVIOUS
<1>1. CASE PlanAll
  <2>1. PICK a \in waiting :
          /\ group' = GroupOf(a) /\ waiting' = waiting \ GroupOf(a)
          /\ \/ UNCHANGED <<tree, root, bar, iters, stage>>
             \/ \E plans \in [GroupOf(a) -> UNION {Paths[b] : b \in GroupOf(a)}] :
                  /\ \A b \in GroupOf(a) : plans[b] \in Found(b, NoCons)
                  /\ root' = NodeWith(NoCons, plans) /\ tree' = {root'} /\ stage' = "search"
    BY <1>1 DEF PlanAll
  <2>2. group' \subseteq Agent /\ waiting' \subseteq Agent
    BY <2>1, GroupIsOfAgents DEF PlannerInv
  <2>3. stage = "group" /\ answer' = answer
    BY <1>1 DEF PlanAll
  <2>4. ASSUME NEW plans \in [group' -> UNION {Paths[b] : b \in group'}],
               \A b \in group' : plans[b] \in Found(b, NoCons),
               root' = NodeWith(NoCons, plans), tree' = {root'}
        PROVE  NodeOK(root)' /\ \A n \in tree' : NodeOK(n)'
    <3>1. root'.plans = plans /\ root'.cons = NoCons
      BY <2>4 DEF NodeWith
    <3>2. \A b \in group' : plans[b] \in Paths[b]
      BY <2>2, <2>4, FoundIsPath
    <3>3. PlansOf(group', root'.plans)
      BY <3>1, <3>2 DEF PlansOf
    <3>4. Timed(root'.cons)
      BY <3>1 DEF Timed, NoCons
    <3> QED BY <3>3, <3>4, <2>4 DEF NodeOK
  <2> QED BY <2>1, <2>2, <2>3, <2>4 DEF PlannerInv
<1>2. CASE Expand
  <2>1. PICK n \in Picked :
          \/ Return(n)
          \/ /\ \E split \in Splits(n.plans) :
                  \E born \in [{c \in split : Found(c.agent, With(n.cons, c)) # {}} ->
                             UNION {Children(n, c) :
                                      c \in {d \in split : Found(d.agent, With(n.cons, d)) # {}}}] :
                    /\ \A c \in DOMAIN born : born[c] \in Children(n, c)
                    /\ tree' = (tree \ {n}) \cup {born[c] : c \in DOMAIN born}
             /\ UNCHANGED <<waiting, group, root, answer, stage>>
    BY <1>2 DEF Expand
  <2>2. n \in tree /\ stage = "search" /\ NodeOK(n)
    BY <1>2 DEF Expand, Picked, Focal, PlannerInv
  <2>3. ASSUME NEW split \in Splits(n.plans), NEW born, DOMAIN born \subseteq split,
               \A c \in DOMAIN born : born[c] \in Children(n, c),
               tree' = (tree \ {n}) \cup {born[c] : c \in DOMAIN born},
               UNCHANGED <<waiting, group, root, answer, stage>>
        PROVE  PlannerInv'
    <3>1. \A c \in DOMAIN born : NodeOK(born[c])
      BY <2>2, <2>3, ChildIsNode
    <3>2. \A m \in tree' : NodeOK(m)
      BY <2>2, <2>3, <3>1 DEF PlannerInv
    <3>3. \A m : NodeOK(m)' <=> NodeOK(m)
      BY <2>3 DEF NodeOK
    <3> QED BY <2>2, <2>3, <3>2, <3>3 DEF PlannerInv, NodeOK
  <2> QED BY <2>1, <2>2, <2>3, ReturnKeeps
<1>3. CASE GiveUp
  <2>1. stage = "search" /\ (Return(root) \/ \E n \in tree : Return(n))
    BY <1>3 DEF GiveUp
  <2> QED BY <2>1, ReturnKeeps DEF PlannerInv
<1>4. CASE Planned
  BY <1>4 DEF Planned, PlannerInv
<1>5. CASE Update
  BY <1>5 DEF Update, PlannerInv
<1>6. CASE UNCHANGED pvars
  BY <1>6 DEF pvars, PlannerInv, NodeOK
<1> QED BY <1>1, <1>2, <1>3, <1>4, <1>5, <1>6 DEF PlannerNext

-----------------------------------------------------------------------------
(* No step of the search loses a solution.                                 *)

Obeyed(s, n) == \A a \in group : Obeys(a, s[a], n.cons)

\* An iteration that splits the node a solution obeys gives it a child it obeys.
LEMMA SplitKeepsSolution ==
  ASSUME OneLaneEachWay, PlannerInv, NEW n, NodeOK(n), NEW split \in Splits(n.plans),
         NEW s \in Solutions[group], Obeyed(s, n)
  PROVE  \E c \in split : /\ Found(c.agent, With(n.cons, c)) # {}
                         /\ \A child \in Children(n, c) : Obeyed(s, child)
<1>1. group \in SUBSET Agent /\ PlansOf(group, n.plans) /\ Timed(n.cons)
  BY DEF PlannerInv, NodeOK
<1>2. PICK c \in split : KeepsTo(s[c.agent], c)
  BY <1>1, SplitSparesOne
<1>3. c.agent \in group /\ ("node" \in DOMAIN c => c.time \in Time)
  BY <1>1, SplitConstrains
<1>4. \A a \in group : s[a] \in Paths[a]
  BY <1>1 DEF Solutions
<1>5. \A a \in group : Obeys(a, s[a], With(n.cons, c))
  BY <1>1, <1>2, <1>4, ChildIsObeyed DEF Obeyed
<1>6. Timed(With(n.cons, c))
  <2>1. With(n.cons, c).vertex \subseteq n.cons.vertex \cup (IF "node" \in DOMAIN c THEN {c} ELSE {})
    BY DEF With
  <2> QED BY <2>1, <1>1, <1>3 DEF Timed
<1>7. Found(c.agent, With(n.cons, c)) # {}
  BY <1>1, <1>3, <1>4, <1>5, <1>6, ObedientIsFound
<1>8. \A child \in Children(n, c) : Obeyed(s, child)
  BY <1>5, ChildIsNode DEF Obeyed
<1> QED BY <1>7, <1>8

\* A split keeps a node that the solution obeys, and no other step drops one.
LEMMA SurvivalKept ==
  ASSUME OneLaneEachWay
  PROVE  PlannerInv /\ SolutionsSurvive /\ [PlannerNext]_pvars => SolutionsSurvive'
<1> SUFFICES ASSUME PlannerInv, SolutionsSurvive, [PlannerNext]_pvars, stage' = "search",
                    NEW s \in Solutions[group']
             PROVE  \E n \in tree' : \A a \in group' : Obeys(a, s[a], n.cons)
  BY DEF SolutionsSurvive
<1>1. CASE PlanAll
  <2>1. stage = "group"
    BY <1>1 DEF PlanAll
  <2>2. PICK plans : root' = NodeWith(NoCons, plans) /\ tree' = {root'}
    BY <1>1, <2>1 DEF PlanAll
  <2>3. root'.cons = NoCons
    BY <2>2 DEF NodeWith
  <2>4. \A a \in group' : Obeys(a, s[a], NoCons)
    BY DEF Obeys, NoCons
  <2> QED BY <2>2, <2>3, <2>4
<1>2. CASE Expand
  <2>1. \A n \in Picked : ~Return(n)
    BY DEF Return
  <2>2. PICK n \in Picked : \E split \in Splits(n.plans) :
          \E born \in [{c \in split : Found(c.agent, With(n.cons, c)) # {}} ->
                     UNION {Children(n, c) :
                              c \in {d \in split : Found(d.agent, With(n.cons, d)) # {}}}] :
            /\ \A c \in DOMAIN born : born[c] \in Children(n, c)
            /\ tree' = (tree \ {n}) \cup {born[c] : c \in DOMAIN born}
    BY <1>2, <2>1 DEF Expand
  <2>3. PICK split \in Splits(n.plans) : \E born :
          /\ DOMAIN born = {c \in split : Found(c.agent, With(n.cons, c)) # {}}
          /\ \A c \in DOMAIN born : born[c] \in Children(n, c)
          /\ tree' = (tree \ {n}) \cup {born[c] : c \in DOMAIN born}
    BY <2>2
  <2>4. PICK born :
          /\ DOMAIN born = {c \in split : Found(c.agent, With(n.cons, c)) # {}}
          /\ \A c \in DOMAIN born : born[c] \in Children(n, c)
          /\ tree' = (tree \ {n}) \cup {born[c] : c \in DOMAIN born}
    BY <2>3
  <2>5. stage = "search" /\ group' = group /\ n \in tree /\ NodeOK(n)
    BY <1>2, <2>1 DEF Expand, Picked, Focal, PlannerInv
  <2>6. PICK m \in tree : Obeyed(s, m)
    BY <2>5 DEF SolutionsSurvive, Obeyed
  <2>7. CASE m # n
    BY <2>4, <2>5, <2>6, <2>7 DEF Obeyed
  <2>8. CASE m = n
    <3>1. PICK c \in split : /\ Found(c.agent, With(n.cons, c)) # {}
                           /\ \A child \in Children(n, c) : Obeyed(s, child)
      BY <2>5, <2>6, <2>8, SplitKeepsSolution
    <3>2. born[c] \in tree' /\ Obeyed(s, born[c])
      BY <2>4, <3>1
    <3> QED BY <3>2, <2>5 DEF Obeyed
  <2> QED BY <2>7, <2>8
<1>3. CASE GiveUp
  BY <1>3 DEF GiveUp, Return
<1>4. CASE Planned
  BY <1>4 DEF Planned
<1>5. CASE Update
  BY <1>5 DEF Update
<1>6. CASE UNCHANGED pvars
  BY <1>6 DEF pvars, SolutionsSurvive
<1> QED BY <1>1, <1>2, <1>3, <1>4, <1>5, <1>6 DEF PlannerNext

\* The invariant holds throughout.
LEMMA PlannerHolds == PlannerSpec => []PlannerInv
<1>1. PlannerInv /\ [PlannerNext]_pvars => PlannerInv'
  BY PlannerKept
<1> QED BY <1>1, PlannerStarts, PTL DEF PlannerSpec

-----------------------------------------------------------------------------
(* The types: what the search counts are numbers.                          *)

\* There is a tree only while the engine searches, and its nodes have costs.
Priced == (stage # "search" => tree = {}) /\ \A n \in tree : n.cost \in Nat

\* The vehicles of a node arrive after finitely many seconds altogether.
LEMMA CostIsNumber ==
  ASSUME NEW plans, DOMAIN plans \subseteq Agent
  PROVE  CostOf(plans) \in Nat
<1>1. IsFiniteSet(DOMAIN plans) /\ IsFiniteSet(Time)
  <2>1. 0 \in Int /\ Horizon \in Int
    BY Constants
  <2> QED BY <2>1, Constants, FS_Subset, FS_Interval DEF Time
<1>2. IsFiniteSet((DOMAIN plans) \X Time)
  BY <1>1, FS_Product
<1> DEFINE driven == {x \in (DOMAIN plans) \X Time : x[2] < plans[x[1]].done}
<1>3. driven \subseteq (DOMAIN plans) \X Time
  OBVIOUS
<1>4. Cardinality(driven) \in Nat
  <2> HIDE DEF driven
  <2>1. IsFiniteSet(driven)
    BY <1>2, <1>3, FS_Subset
  <2> QED BY <2>1, FS_CardinalityType
<1> QED BY <1>4 DEF CostOf

\* cost_min grows to the cost of the cheapest node.
LEMMA BarIsNumber ==
  ASSUME bar \in Nat, tree # {}, \A n \in tree : n.cost \in Nat
  PROVE  NewBar \in Nat
<1> DEFINE costs == {n.cost : n \in tree}
<1>1. costs \in SUBSET Nat /\ costs # {}
  OBVIOUS
<1>2. Cheapest \in Nat
  <2>1. Cheapest = CHOOSE x \in costs : \A y \in costs : x =< y
    BY DEF Cheapest, Min
  <2> HIDE DEF costs
  <2>2. \E x \in costs : \A y \in costs : x =< y
    BY <1>1, Least
  <2> QED BY <1>1, <2>1, <2>2
<1>3. NewBar = CHOOSE x \in {bar, Cheapest} : \A y \in {bar, Cheapest} : x >= y
  BY DEF NewBar, Max
<1>4. \E x \in {bar, Cheapest} : \A y \in {bar, Cheapest} : x >= y
  BY <1>2
<1> QED BY <1>2, <1>3, <1>4

\* A group whose search ends leaves nothing of it.
LEMMA ReturnTypes ==
  ASSUME PlannerInv', PlannerTypeOK, NEW n, Return(n)
  PROVE  PlannerTypeOK' /\ Priced'
<1>1. /\ stage' = "group" /\ tree' = {} /\ bar' = 0 /\ iters' = 0 /\ corridor' = corridor
      /\ UNCHANGED <<waiting, group>>
  BY DEF Return
<1>2. DOMAIN answer' \subseteq Agent
  BY <1>1 DEF PlannerInv
<1> QED BY <1>1, <1>2, Constants DEF PlannerTypeOK, Priced

\* Every action keeps the types.
LEMMA PlannerTypesKept ==
  PlannerInv /\ PlannerTypeOK /\ Priced /\ [PlannerNext]_pvars => PlannerTypeOK' /\ Priced'
<1> SUFFICES ASSUME PlannerInv, PlannerTypeOK, Priced, [PlannerNext]_pvars
             PROVE  PlannerTypeOK' /\ Priced'
  OBVIOUS
<1>0. PlannerInv'
  BY PlannerKept
<1>1. CASE PlanAll
  <2>1. corridor' = corridor /\ answer' = answer /\ stage = "group" /\ tree = {}
    BY <1>1 DEF PlanAll, Priced
  <2>2. group' \subseteq Agent /\ waiting' \subseteq Agent
    BY <1>0 DEF PlannerInv
  <2>3. CASE UNCHANGED <<tree, root, bar, iters, stage>>
    BY <2>1, <2>2, <2>3 DEF PlannerTypeOK, Priced
  <2>4. ASSUME NEW plans, DOMAIN plans = group', root' = NodeWith(NoCons, plans),
               tree' = {root'}, bar' = root'.cost, iters' = 0, stage' = "search"
        PROVE  PlannerTypeOK' /\ Priced'
    <3>1. root'.plans = plans /\ root'.cost = CostOf(plans)
      BY <2>4 DEF NodeWith
    <3>2. CostOf(plans) \in Nat
      BY <2>2, <2>4, CostIsNumber
    <3> QED BY <2>1, <2>2, <2>4, <3>1, <3>2, Constants DEF PlannerTypeOK, Priced
  <2> QED BY <1>1, <2>3, <2>4 DEF PlanAll
<1>2. CASE Expand
  <2>1. PICK n \in Picked :
          \/ Return(n)
          \/ /\ \E split \in Splits(n.plans) :
                  \E born \in [{c \in split : Found(c.agent, With(n.cons, c)) # {}} ->
                             UNION {Children(n, c) :
                                      c \in {d \in split : Found(d.agent, With(n.cons, d)) # {}}}] :
                    /\ \A c \in DOMAIN born : born[c] \in Children(n, c)
                    /\ tree' = (tree \ {n}) \cup {born[c] : c \in DOMAIN born}
             /\ bar' = NewBar /\ iters' = iters + 1
             /\ UNCHANGED <<corridor, waiting, group, root, answer, stage>>
    BY <1>2 DEF Expand
  <2>2. n \in tree /\ stage = "search" /\ iters < MaxNodes /\ tree # {}
    BY <1>2 DEF Expand, Picked, Focal
  <2>3. NewBar \in Nat
    BY <2>2, BarIsNumber DEF PlannerTypeOK, Priced
  <2>4. ASSUME NEW split, NEW born,
               \A c \in DOMAIN born : born[c] \in Children(n, c),
               tree' = (tree \ {n}) \cup {born[c] : c \in DOMAIN born},
               bar' = NewBar, iters' = iters + 1,
               UNCHANGED <<corridor, waiting, group, root, answer, stage>>
        PROVE  PlannerTypeOK' /\ Priced'
    <3>1. ASSUME NEW c \in DOMAIN born
          PROVE  DOMAIN born[c].plans = group /\ born[c].cost \in Nat
      <4>1. PICK p : born[c] = NodeWith(With(n.cons, c), [n.plans EXCEPT ![c.agent] = p])
        BY <2>4 DEF Children
      <4>2. DOMAIN [n.plans EXCEPT ![c.agent] = p] = group
        BY <2>2 DEF PlannerTypeOK
      <4>3. CostOf([n.plans EXCEPT ![c.agent] = p]) \in Nat
        BY <4>2, CostIsNumber DEF PlannerInv
      <4> QED BY <4>1, <4>2, <4>3 DEF NodeWith
    <3>2. \A m \in tree' : DOMAIN m.plans = group /\ m.cost \in Nat
      BY <2>4, <3>1 DEF PlannerTypeOK, Priced
    <3>3. iters' \in 0..MaxNodes
      BY <2>2, <2>4, Constants DEF PlannerTypeOK
    <3> QED BY <2>2, <2>3, <2>4, <3>2, <3>3 DEF PlannerTypeOK, Priced
  <2> QED BY <1>0, <2>1, <2>4, ReturnTypes
<1>3. CASE GiveUp
  <2>1. Return(root) \/ \E n \in tree : Return(n)
    BY <1>3 DEF GiveUp
  <2> QED BY <1>0, <2>1, ReturnTypes
<1>4. CASE Planned
  BY <1>4 DEF Planned, PlannerTypeOK, Priced
<1>5. CASE Update
  <2>1. stage' = "updated" /\ UNCHANGED <<corridor, waiting, group, tree, bar, iters>>
    BY <1>5 DEF Update
  <2>2. DOMAIN answer' \subseteq Agent
    BY <1>5 DEF Update, PlannerTypeOK
  <2>3. tree = {}
    BY <1>5 DEF Update, Priced
  <2> QED BY <2>1, <2>2, <2>3 DEF PlannerTypeOK, Priced
<1>6. CASE UNCHANGED pvars
  BY <1>6 DEF pvars, PlannerTypeOK, Priced
<1> QED BY <1>1, <1>2, <1>3, <1>4, <1>5, <1>6 DEF PlannerNext

\* A corridor is of nodes of the map.
LEMMA CorridorsAreNodes ==
  ASSUME NEW c \in Corridors
  PROVE  c \in [Agent -> SUBSET Node]
<1>1. ASSUME NEW a \in Agent PROVE c[a] \subseteq Node
  <2>1. c[a] \in Shortest[a]
    BY DEF Corridors
  <2>2. \A s \in Shortest[a] : s \subseteq Node
    BY Constants DEF Shortest
  <2> QED BY <2>1, <2>2
<1>2. c = [a \in Agent |-> c[a]]
  BY DEF Corridors
<1> QED BY <1>1, <1>2

-----------------------------------------------------------------------------
(* The results.                                                            *)

\* The planner's variables have their types.
THEOREM PlannerTypes == PlannerSpec => []PlannerTypeOK
<1>1. PlannerInit => PlannerTypeOK /\ Priced
  <2> SUFFICES ASSUME PlannerInit PROVE PlannerTypeOK /\ Priced
    OBVIOUS
  <2>1. DOMAIN answer \subseteq Agent
    <3>1. answer = <<>>
      BY DEF PlannerInit
    <3> QED BY <3>1
  <2>2. corridor \in [Agent -> SUBSET Node]
    BY CorridorsAreNodes DEF PlannerInit
  <2> QED BY <2>1, <2>2, Constants DEF PlannerInit, PlannerTypeOK, Priced
<1> QED BY <1>1, PlannerHolds, PlannerTypesKept, PTL DEF PlannerSpec

\* The plans that solve returns for a group, when _detect_conflicts counts nothing
\* between two of them, keep the two vehicles apart in every second.
THEOREM UncountedStayApart == PlannerSpec => []NoConflictIsApart
<1>1. PlannerInv => NoConflictIsApart
  <2> SUFFICES ASSUME PlannerInv, stage \in {"group", "done"},
                      NEW a \in DOMAIN answer, NEW b \in DOMAIN answer, a # b,
                      Conflicts([x \in {a, b} |-> answer[x]]) = 0
               PROVE  Apart(answer[a], answer[b])
    BY DEF NoConflictIsApart
  <2>1. a \in Agent /\ b \in Agent /\ answer[a] \in Paths[a] /\ answer[b] \in Paths[b]
    BY DEF PlannerInv
  <2>2. PICK plans : plans = [x \in {a, b} |-> answer[x]]
    OBVIOUS
  <2>3. DOMAIN plans = {a, b} /\ plans[a] = answer[a] /\ plans[b] = answer[b]
    BY <2>2
  <2>4. Conflicts(plans) = 0
    BY <2>2
  <2> QED BY <2>1, <2>3, <2>4, UncountedIsApart
<1> QED BY <1>1, PlannerHolds, PTL

\* Where the lanes between two nodes take the same time, splitting a conflict and
\* dropping children without a path (solve, _split, _replan_one) lose no solution.
THEOREM NoSolutionIsLost ==
  ASSUME OneLaneEachWay
  PROVE  PlannerSpec => []SolutionsSurvive
<1>1. PlannerInit => SolutionsSurvive
  BY DEF PlannerInit, SolutionsSurvive
<1>2. PlannerInv /\ SolutionsSurvive /\ [PlannerNext]_pvars => SolutionsSurvive'
  BY SurvivalKept
<1> QED BY <1>1, <1>2, PlannerHolds, PTL DEF PlannerSpec

\* Both together, as the run checks them.
THEOREM SearchIsSound ==
  ASSUME OneLaneEachWay
  PROVE  PlannerSpec => []PlansAreSound
BY NoSolutionIsLost, UncountedStayApart, PTL DEF PlansAreSound

-----------------------------------------------------------------------------
(* SapSession.                                                             *)

\* What an HTTP call asks for is done by the request that ends it; an RFC call has
\* had as many attempts before as it counts.
Tried(c) ==
  /\ c \in Http => /\ executed[c] = 0 \/ (executed[c] = 1 /\ call[c].pc \in {"done", "failed"})
                   /\ call[c].tries <= HttpRetries
  /\ c \in Wm => /\ call[c].pc \in {"idle", "send", "done", "failed"}
                 /\ call[c].pc = "send" => executed[c] <= call[c].tries /\ call[c].tries < RfcTries
  /\ c \notin threads => call[c].pc = "idle"

Attempts == \A c \in Callers : Tried(c)

\* The bearers end together; the two CSRF keys are written together, and deleted one
\* after the other.
Together ==
  /\ bearer = "stale" => frozen # "good" /\ \A c \in Callers : call[c].bearer # "good"
  /\ \A k \in Keys : csrf[k].token = 0 \/ csrf[k].cookies \in {0, csrf[k].token}

\* SAP would refuse the token in Redis.
DeadCsrf == csrf["zewm"].token \notin alive \cup {0}

\* The refusals that a ZEWM call still has to expect of what it holds and will read:
\* one of its bearer, one of its session.
OfBearer(c) ==
  IF \/ call[c].pc \in {"token", "cookies", "backoff", "half"} /\ bearer = "stale"
     \/ call[c].pc = "send" /\ call[c].bearer # "good"
  THEN 1 ELSE 0

OfSession(c) ==
  IF \/ call[c].pc \in {"token", "expired", "half"} /\ DeadCsrf
     \/ /\ call[c].pc = "cookies"
        /\ \/ DeadCsrf
           \/ /\ call[c].token # 0
              /\ call[c].token \notin alive \/ csrf["zewm"].cookies \notin {0, call[c].token}
     \/ /\ call[c].pc = "send"
        /\ DeadCsrf \/ call[c].token # call[c].cookies \/ call[c].token \notin alive
  THEN 1 ELSE 0

\* Two refusals may be owed to what was stale when the call began, all others to a hit.
Spared(c) ==
  /\ hits[c] < 2 /\ call[c].pc \notin {"idle", "done", "failed", "refused", "barred"} =>
       call[c].tries + OfBearer(c) + OfSession(c) <= 2 + hits[c]
  /\ call[c].pc = "refused" => hits[c] >= 2

Budget == \A c \in Zewm \cap threads : Spared(c)

\* A ZEWM call that SAP has answered reads a stale bearer only if it ended since.
Overtaken(c) ==
  call[c].tries > 0 /\ \/ call[c].pc = "barred"
                       \/ /\ call[c].pc \in {"token", "cookies", "fetch", "backoff", "half"}
                          /\ bearer = "stale"
    => hits[c] >= 1

Ended == \A c \in Zewm \cap threads : Overtaken(c)

SessionInv == TypeOK /\ Attempts /\ Together /\ Budget /\ Ended

\* The numbers of RetryAssumption, and whose thread is whose.
LEMMA RetryConstants ==
  /\ HttpRetries \in Nat /\ HttpRetries >= 1 /\ RfcTries \in Nat /\ RfcTries >= 1
  /\ MaxSessions \in Nat /\ MaxFaults \in Nat
  /\ \A g \in Groups : g \subseteq Callers
  /\ \A c \in Zewm : c \notin Ewm /\ c \notin Wm /\ c \in Callers /\ c \in Http
  /\ \A c \in Ewm : c \notin Zewm /\ c \notin Wm /\ c \in Callers /\ c \in Http
  /\ \A c \in Wm : c \notin Zewm /\ c \notin Ewm /\ c \in Callers /\ c \notin Http
<1>1. \A x \in {HttpRetries, RfcTries, MaxSessions, MaxFaults} : x \in Nat /\ x >= 1
  BY RetryAssumption
<1>2. \A g \in Groups : g \subseteq Callers
  BY RetryAssumption DEF Callers, Http
<1> QED BY <1>1, <1>2, RetryAssumption DEF Callers, Http

\* The sessions are fresh and no call runs.
LEMMA SessionStarts == Init => SessionInv
<1> SUFFICES ASSUME Init PROVE SessionInv
  OBVIOUS
<1>1. Idle \in Calls
  BY RetryConstants DEF Idle, Calls, Sessions, Bearer
<1>2. TypeOK
  BY <1>1, RetryConstants DEF Init, TypeOK, Bearer, Sessions, Keys
<1>3. \A c \in Callers : call[c].pc = "idle" /\ call[c].bearer = "none"
                         /\ call[c].tries = 0 /\ executed[c] = 0
  BY DEF Init, Idle
<1>4. Attempts
  BY <1>3, RetryConstants DEF Attempts, Tried
<1>5. Together
  BY <1>3, RetryConstants DEF Init, Together
<1>6. Budget
  BY <1>3, RetryConstants DEF Budget, Spared
<1>7. Ended
  BY <1>3, RetryConstants DEF Ended, Overtaken
<1> QED BY <1>2, <1>4, <1>5, <1>6, <1>7 DEF SessionInv

\* A hit counts up to two, and only goes up.
LEMMA HitCounts ==
  ASSUME TypeOK, NEW who
  PROVE  /\ Hit(who) \in [Callers -> 0..2]
         /\ \A c \in Callers : Hit(who)[c] >= hits[c]
         /\ \A c \in who \cap threads \cap Callers : hits[c] < 2 => Hit(who)[c] = hits[c] + 1
         /\ \A c \in Callers : c \notin who => Hit(who)[c] = hits[c]
BY RetryConstants DEF TypeOK, Hit

\* Where a call may stand.
Points == {"idle", "token", "cookies", "fetch", "send", "expired", "backoff", "half",
           "done", "failed", "refused", "barred"}

\* A call that is replaced by a call is a call.
LEMMA CallIs ==
  ASSUME TypeOK, NEW c \in Callers, NEW k \in Calls, call' = [call EXCEPT ![c] = k]
  PROVE  call' \in [Callers -> Calls]
BY DEF TypeOK

\* A call that goes on is a call.
LEMMA GoStays ==
  ASSUME TypeOK, NEW c \in Callers, NEW pc \in Points, Go(c, pc)
  PROVE  call' \in [Callers -> Calls]
<1>1. call[c] \in Calls
  BY DEF TypeOK
<1>2. [call[c] EXCEPT !.pc = pc] \in Calls
  BY <1>1 DEF Calls, Points
<1>3. call' = [call EXCEPT ![c] = [call[c] EXCEPT !.pc = pc]]
  BY DEF Go
<1> QED BY <1>2, <1>3, CallIs

\* A call that is tried again is a call, as long as its tries are in their bound.
LEMMA RetryStays ==
  ASSUME TypeOK, NEW c \in Callers, NEW pc \in Points, Retry(c, pc),
         call[c].tries + 1 \in 0..HttpRetries + RfcTries
  PROVE  call' \in [Callers -> Calls]
<1>1. call[c] \in Calls
  BY DEF TypeOK
<1>2. [call[c] EXCEPT !.tries = call[c].tries + 1, !.pc = pc] \in Calls
  BY <1>1 DEF Calls, Points
<1>3. call' = [call EXCEPT ![c] = [call[c] EXCEPT !.tries = call[c].tries + 1, !.pc = pc]]
  BY DEF Retry, TypeOK
<1> QED BY <1>2, <1>3, CallIs

\* A step of a thread keeps the types.
LEMMA CallerTypes ==
  ASSUME TypeOK, Attempts, NEW c \in threads, CallerStep(c), threads' = threads
  PROVE  TypeOK'
<1> DEFINE CsrfType == [Keys -> [token : Sessions, cookies : Sessions]]
<1> USE DEF Sessions, Bearer, Keys
<1>0. call[c] \in Calls /\ c \in Callers /\ ValidToken \in Bearer
  BY RetryConstants DEF TypeOK, ValidToken
<1>1. CASE Begin(c)
  <2>1. [Idle EXCEPT !.pc = IF c \in Wm THEN "send" ELSE "token"] \in Calls
    BY RetryConstants DEF Idle, Calls
  <2>2. call' \in [Callers -> Calls]
    BY <2>1, <1>0, <1>1 DEF Begin, TypeOK
  <2>3. executed' \in [Callers -> 0..RfcTries] /\ hits' \in [Callers -> 0..2]
    BY <1>0, <1>1, RetryConstants DEF Begin, TypeOK
  <2>4. frozen' \in Bearer /\ bearer' \in Bearer
    BY <1>0, <1>1 DEF Begin, TypeOK
  <2> QED BY <1>1, <2>2, <2>3, <2>4 DEF Begin, TypeOK
<1>k. csrf[KeyOf(c)].token \in Sessions /\ csrf[KeyOf(c)].cookies \in Sessions
  BY DEF TypeOK, KeyOf
<1>p. /\ "fetch" \in Points /\ "failed" \in Points /\ "done" \in Points
      /\ "refused" \in Points /\ "token" \in Points /\ "half" \in Points
      /\ "barred" \in Points
  BY DEF Points
<1>t. call[c].tries \in 0..HttpRetries + RfcTries
  BY <1>0 DEF Calls
<1>2. CASE ReadToken(c)
  <2>1. [call[c] EXCEPT !.token = csrf[KeyOf(c)].token, !.pc = "cookies"] \in Calls
    BY <1>0, <1>k DEF Calls
  <2>2. call' \in [Callers -> Calls]
    <3>1. call' = [call EXCEPT ![c] = [call[c] EXCEPT !.token = csrf[KeyOf(c)].token, !.pc = "cookies"]]
      BY <1>2 DEF ReadToken
    <3> QED BY <1>0, <2>1, <3>1, CallIs
  <2> QED BY <1>2, <2>2 DEF ReadToken, TypeOK
<1>3. CASE ReadCookies(c)
  <2>1. CASE Go(c, "fetch") /\ bearer' = bearer
    <3>1. call' \in [Callers -> Calls]
      BY <1>0, <2>1, <1>p, GoStays
    <3> QED BY <1>3, <2>1, <3>1 DEF ReadCookies, TypeOK
  <2>2. CASE /\ call' = [call EXCEPT ![c].cookies = csrf[KeyOf(c)].cookies,
                            ![c].bearer = ValidToken, ![c].pc = "send"]
             /\ bearer' = ValidToken
    <3>1. [call[c] EXCEPT !.cookies = csrf[KeyOf(c)].cookies, !.bearer = ValidToken,
                          !.pc = "send"] \in Calls
      BY <1>0, <1>k DEF Calls
    <3>2. call' \in [Callers -> Calls]
      <4>1. call' = [call EXCEPT ![c] = [call[c] EXCEPT !.cookies = csrf[KeyOf(c)].cookies,
                                                        !.bearer = ValidToken, !.pc = "send"]]
        BY <2>2
      <4> QED BY <1>0, <3>1, <4>1, CallIs
    <3> QED BY <1>0, <1>3, <2>2, <3>2 DEF ReadCookies, TypeOK
  <2> QED BY <1>3, <2>1, <2>2 DEF ReadCookies
<1>4. CASE Fetch(c)
  <2>1. CASE (Go(c, "failed") \/ Go(c, "barred")) /\ UNCHANGED <<bearer, csrf, alive, hits>>
    <3>1. call' \in [Callers -> Calls]
      BY <1>0, <2>1, <1>p, GoStays
    <3> QED BY <1>4, <2>1, <3>1 DEF Fetch, TypeOK
  <2>2. CASE Fetched(c)
    <3>1. NewSession \in Sessions
      BY <2>2 DEF Fetched, NewSession, Unused
    <3>2. BearerAfterFetch(c) \in Bearer
      BY <1>0 DEF BearerAfterFetch, Calls
    <3>3. call' \in [Callers -> Calls]
      BY <1>0, <2>2, <3>1, <3>2 DEF Fetched, TypeOK, Calls
    <3>4. csrf' \in CsrfType
      BY <1>0, <2>2, <3>1 DEF Fetched, TypeOK
    <3>5. alive' \subseteq Sessions /\ bearer' \in Bearer
      BY <2>2, <3>1 DEF Fetched, TypeOK
    <3>6. hits' \in [Callers -> 0..2]
      BY <2>2, HitCounts DEF Fetched
    <3> QED BY <1>4, <3>3, <3>4, <3>5, <3>6 DEF Fetch, TypeOK
  <2> QED BY <1>4, <2>1, <2>2 DEF Fetch
<1>5. CASE EwmRefused(c)
  <2>1. ASSUME call[c].tries = 0, Retry(c, "fetch") PROVE call' \in [Callers -> Calls]
    <3>1. call[c].tries + 1 \in 0..HttpRetries + RfcTries
      BY <2>1, RetryConstants
    <3> QED BY <1>0, <2>1, <3>1, <1>p, RetryStays
  <2>2. ASSUME Go(c, "failed") PROVE call' \in [Callers -> Calls]
    BY <1>0, <2>2, <1>p, GoStays
  <2>3. call' \in [Callers -> Calls]
    BY <1>5, <2>1, <2>2 DEF EwmRefused
  <2> QED BY <1>5, <2>3 DEF EwmRefused, TypeOK
<1>6. ASSUME NEW lost \in BOOLEAN, Accepted(c, lost) PROVE TypeOK'
  <2>1. Go(c, "failed") \/ Go(c, "done")
    BY <1>6 DEF Accepted, AfterLoss
  <2>2. call' \in [Callers -> Calls]
    BY <1>0, <2>1, <1>p, GoStays
  <2>3. executed[c] = 0
    BY <1>0, <1>6 DEF Accepted, Attempts, Tried, At
  <2>4. executed' \in [Callers -> 0..RfcTries]
    BY <1>0, <1>6, <2>3, RetryConstants DEF Accepted, TypeOK
  <2>5. faults' \in 0..MaxFaults
    BY <1>6, RetryConstants DEF Accepted, Fault, TypeOK
  <2> QED BY <1>6, <2>2, <2>4, <2>5 DEF Accepted, TypeOK
<1>7. ASSUME NEW status \in {401, 403, 429}, ZewmRefused(c, status) PROVE TypeOK'
  <2>1. hits' \in [Callers -> 0..2]
    BY <1>7, HitCounts DEF ZewmRefused, TypeOK
  <2>2. call' \in [Callers -> Calls]
    <3>1. CASE Go(c, "refused")
      BY <1>0, <3>1, <1>p, GoStays
    <3>2. ASSUME MayRetry(c), NEW pc \in Points, Retry(c, pc) PROVE call' \in [Callers -> Calls]
      <4>1. call[c].tries + 1 \in 0..HttpRetries + RfcTries
        BY <1>t, <3>2, RetryConstants DEF MayRetry
      <4> QED BY <1>0, <3>2, <4>1, RetryStays
    <3>3. Go(c, "refused") \/ (MayRetry(c) /\ \E pc \in Points : Retry(c, pc))
      BY <1>7 DEF ZewmRefused, Points
    <3> QED BY <3>1, <3>2, <3>3
  <2>3. UNCHANGED <<bearer, frozen, csrf, alive, executed>> /\ faults' \in 0..MaxFaults
    BY <1>7, RetryConstants DEF ZewmRefused, TypeOK, Fault
  <2> QED BY <2>1, <2>2, <2>3 DEF TypeOK
<1>8. ASSUME NEW done \in BOOLEAN, NEW ok \in BOOLEAN, Rfc(c, done, ok) PROVE TypeOK'
  <2>1. /\ call[c].pc = "send" /\ executed[c] <= call[c].tries /\ call[c].tries < RfcTries
        /\ executed[c] \in 0..RfcTries
    BY <1>0, <1>8 DEF Rfc, Attempts, Tried, At, TypeOK
  <2>2. ASSUME Go(c, "done") PROVE call' \in [Callers -> Calls]
    BY <1>0, <2>2, <1>p, GoStays
  <2>3. ASSUME NEW pc \in Points, Retry(c, pc) PROVE call' \in [Callers -> Calls]
    <3>1. call[c].tries + 1 \in 0..HttpRetries + RfcTries
      BY <1>t, <2>1, RetryConstants
    <3> QED BY <1>0, <2>3, <3>1, RetryStays
  <2>4. call' \in [Callers -> Calls]
    <3>1. Go(c, "done") \/ \E pc \in Points : Retry(c, pc)
      BY <1>8 DEF Rfc, Points
    <3> QED BY <2>2, <2>3, <3>1
  <2>5. executed' \in [Callers -> 0..RfcTries]
    <3>1. executed[c] + 1 \in 0..RfcTries
      BY <2>1, RetryConstants, <1>t
    <3>2. executed' = [executed EXCEPT ![c] = executed[c] + 1] \/ executed' = executed
      BY <1>0, <1>8 DEF Rfc, TypeOK
    <3> QED BY <3>1, <3>2 DEF TypeOK
  <2> QED BY <1>8, <2>4, <2>5 DEF Rfc, TypeOK
<1>9. CASE DropBearer(c) \/ DropCsrf(c)
  <2>1. call' \in [Callers -> Calls]
    <3>1. Go(c, "token") \/ Go(c, "half")
      BY <1>9 DEF DropBearer, DropCsrf
    <3> QED BY <1>0, <3>1, <1>p, GoStays
  <2>2. csrf' \in CsrfType
    BY <1>9, RetryConstants DEF DropBearer, DropCsrf, TypeOK
  <2> QED BY <1>9, <2>1, <2>2 DEF DropBearer, DropCsrf, TypeOK
<1> QED BY <1>1, <1>2, <1>3, <1>4, <1>5, <1>6, <1>7, <1>8, <1>9 DEF CallerStep

\* A step keeps the types.
LEMMA SessionTypes == TypeOK /\ Attempts /\ [Next]_vars => TypeOK'
<1> SUFFICES ASSUME TypeOK, Attempts, [Next]_vars PROVE TypeOK'
  OBVIOUS
<1> USE DEF Sessions, Bearer, Keys
<1>1. CASE \E c \in threads : CallerStep(c) /\ threads' = threads
  BY <1>1, CallerTypes
<1>2. CASE BearerEnds /\ threads' = threads
  <2>1. hits' \in [Callers -> 0..2] /\ faults' \in 0..MaxFaults
    BY <1>2, HitCounts, RetryConstants DEF BearerEnds, Fault, TypeOK
  <2>2. call' \in [Callers -> Calls]
    <3>1. \A b \in Bearer : Rot(b) \in Bearer
      BY DEF Rot
    <3>2. \A k \in Calls : [k EXCEPT !.bearer = Rot(k.bearer)] \in Calls
      BY <3>1 DEF Calls
    <3>3. call' = [c \in Callers |-> [call[c] EXCEPT !.bearer = Rot(call[c].bearer)]]
      BY <1>2 DEF BearerEnds
    <3>4. call \in [Callers -> Calls]
      BY DEF TypeOK
    <3> QED BY <3>2, <3>3, <3>4
  <2> QED BY <1>2, <2>1, <2>2 DEF BearerEnds, TypeOK, Rot
<1>3. ASSUME NEW s \in Sessions, SessionEnds(s), threads' = threads PROVE TypeOK'
  <2>1. hits' \in [Callers -> 0..2] /\ faults' \in 0..MaxFaults
    BY <1>3, HitCounts, RetryConstants DEF SessionEnds, Fault, TypeOK
  <2> QED BY <1>3, <2>1 DEF SessionEnds, TypeOK
<1>4. CASE BearerLapses /\ threads' = threads
  BY <1>4, RetryConstants DEF BearerLapses, TypeOK, Fault
<1>5. ASSUME NEW k \in Keys, CsrfLapses(k), threads' = threads PROVE TypeOK'
  BY <1>5, RetryConstants DEF CsrfLapses, TypeOK, Fault
<1>6. CASE ListTasks /\ threads' = threads
  BY <1>6 DEF ListTasks, TypeOK, ValidToken
<1>7. CASE UNCHANGED vars
  BY <1>7 DEF vars, TypeOK
<1> QED BY <1>1, <1>2, <1>3, <1>4, <1>5, <1>6, <1>7 DEF Next

\* A thread touches no other's record.
LEMMA OwnRecord ==
  ASSUME TypeOK, NEW c \in threads, CallerStep(c)
  PROVE  \A d \in Callers \ {c} : call'[d] = call[d] /\ executed'[d] = executed[d]
<1>0. call \in [Callers -> Calls] /\ executed \in [Callers -> 0..RfcTries]
  BY DEF TypeOK
<1>1. CASE Begin(c) \/ ReadToken(c) \/ ReadCookies(c) \/ Fetch(c) \/ EwmRefused(c)
  <2>1. CASE Begin(c) \/ ReadToken(c)
    BY <1>0, <2>1 DEF Begin, ReadToken
  <2>2. CASE ReadCookies(c)
    BY <1>0, <2>2 DEF ReadCookies, Go
  <2>3. CASE Fetch(c)
    BY <1>0, <2>3 DEF Fetch, Fetched, Go
  <2>4. CASE EwmRefused(c)
    BY <1>0, <2>4 DEF EwmRefused, Go, Retry
  <2> QED BY <1>1, <2>1, <2>2, <2>3, <2>4
<1>2. CASE \E lost \in BOOLEAN : Accepted(c, lost)
  BY <1>0, <1>2 DEF Accepted, Go
<1>3. CASE \E status \in {401, 403, 429} : ZewmRefused(c, status)
  BY <1>0, <1>3 DEF ZewmRefused, Go, Retry
<1>4. CASE \E done, ok \in BOOLEAN : Rfc(c, done, ok)
  BY <1>0, <1>4 DEF Rfc, Go, Retry
<1>5. CASE DropBearer(c) \/ DropCsrf(c)
  BY <1>0, <1>5 DEF DropBearer, DropCsrf, Go
<1> QED BY <1>1, <1>2, <1>3, <1>4, <1>5 DEF CallerStep

\* No request follows one that was carried out, and no attempt of an RFC call counts
\* less than it did.
LEMMA AttemptsKept == TypeOK /\ Attempts /\ [Next]_vars => Attempts'
<1> SUFFICES ASSUME TypeOK, Attempts, [Next]_vars PROVE Attempts'
  OBVIOUS
<1>0. /\ threads' = threads /\ threads \subseteq Callers /\ call \in [Callers -> Calls]
      /\ executed \in [Callers -> 0..RfcTries] /\ \A d \in Callers : Tried(d)
  BY RetryConstants DEF Next, vars, TypeOK, Attempts
<1>1. ASSUME NEW d \in Callers, call'[d].pc = call[d].pc, call'[d].tries = call[d].tries,
             executed'[d] = executed[d]
      PROVE  Tried(d)'
  BY <1>0, <1>1 DEF Tried
<1>2. ASSUME NEW c \in threads, CallerStep(c) PROVE Attempts'
  <2>0. c \in Callers /\ call[c] \in Calls /\ Tried(c) /\ executed[c] \in 0..RfcTries
    BY <1>0
  <2>1. \A d \in Callers \ {c} : Tried(d)'
    BY <1>1, <1>2, OwnRecord
  <2>2. ASSUME Begin(c) PROVE Tried(c)'
    BY <1>0, <2>0, <2>2, RetryConstants DEF Begin, Tried, Idle
  <2>3. ASSUME ReadToken(c) \/ ReadCookies(c) \/ Fetch(c) PROVE Tried(c)'
    <3>1. executed' = executed /\ threads' = threads
      BY <1>0, <2>3 DEF ReadToken, ReadCookies, Fetch
    <3>2. call[c].pc \in {"token", "cookies", "fetch"}
      BY <2>3 DEF ReadToken, ReadCookies, Fetch, At
    <3>3. /\ call'[c].tries = call[c].tries
          /\ call'[c].pc \in {"cookies", "fetch", "send", "failed", "barred"}
      <4>1. CASE ReadToken(c)
        BY <1>0, <2>0, <4>1 DEF ReadToken, Calls
      <4>2. CASE ReadCookies(c)
        BY <1>0, <2>0, <4>2 DEF ReadCookies, Go, Calls
      <4>3. CASE Fetch(c)
        BY <1>0, <2>0, <4>3 DEF Fetch, Fetched, Go, Calls
      <4> QED BY <2>3, <4>1, <4>2, <4>3
    <3>4. c \in threads /\ c \notin Wm
      BY <1>2, <2>0, <3>2 DEF Tried
    <3> QED BY <2>0, <3>1, <3>2, <3>3, <3>4 DEF Tried
  <2>4. ASSUME EwmRefused(c) PROVE Tried(c)'
    BY <1>0, <2>0, <2>4, RetryConstants DEF EwmRefused, Go, Retry, At, Tried, Calls
  <2>5. ASSUME NEW lost \in BOOLEAN, Accepted(c, lost) PROVE Tried(c)'
    BY <1>0, <2>0, <2>5, RetryConstants DEF Accepted, Go, At, Tried, Calls, AfterLoss
  <2>6. ASSUME NEW status \in {401, 403, 429}, ZewmRefused(c, status) PROVE Tried(c)'
    BY <1>0, <2>0, <2>6, RetryConstants DEF ZewmRefused, Go, Retry, MayRetry, At, Tried, Calls
  <2>7. ASSUME NEW done \in BOOLEAN, NEW ok \in BOOLEAN, Rfc(c, done, ok) PROVE Tried(c)'
    BY <1>0, <2>0, <2>7, RetryConstants DEF Rfc, Go, Retry, At, Tried, Calls
  <2>8. ASSUME DropBearer(c) \/ DropCsrf(c) PROVE Tried(c)'
    BY <1>0, <2>0, <2>8, RetryConstants DEF DropBearer, DropCsrf, Go, At, Tried, Calls
  <2>9. Tried(c)'
    BY <1>2, <2>2, <2>3, <2>4, <2>5, <2>6, <2>7, <2>8 DEF CallerStep
  <2> QED BY <2>1, <2>9 DEF Attempts
<1>3. CASE UNCHANGED <<call, executed>>
  BY <1>0, <1>1, <1>3 DEF Attempts
<1>4. CASE BearerEnds
  BY <1>0, <1>1, <1>4 DEF BearerEnds, Attempts, Calls
<1>5. (\E c \in threads : CallerStep(c)) \/ BearerEnds \/ UNCHANGED <<call, executed>>
  BY DEF Next, SessionEnds, BearerLapses, CsrfLapses, ListTasks, vars
<1> QED BY <1>2, <1>3, <1>4, <1>5

\* The bearer in Redis gets stale with all its copies, and a CSRF token is stored with
\* its cookies.
LEMMA TogetherKept == TypeOK /\ Together /\ [Next]_vars => Together'
<1> SUFFICES ASSUME TypeOK, Together, [Next]_vars PROVE Together'
  OBVIOUS
<1>0. /\ threads \subseteq Callers /\ call \in [Callers -> Calls]
      /\ csrf \in [Keys -> [token : Sessions, cookies : Sessions]]
      /\ bearer = "stale" => frozen # "good" /\ \A d \in Callers : call[d].bearer # "good"
      /\ \A k \in Keys : csrf[k].token = 0 \/ csrf[k].cookies \in {0, csrf[k].token}
  BY RetryConstants DEF TypeOK, Together
<1> HIDE DEF Together
<1>1. ASSUME NEW c \in threads, CallerStep(c) PROVE Together'
  <2>0. c \in Callers /\ call[c] \in Calls
    BY <1>0
  <2>1. \A d \in Callers \ {c} : call'[d] = call[d]
    BY <1>1, OwnRecord
  <2>2. \A k \in Keys : csrf'[k].token = 0 \/ csrf'[k].cookies \in {0, csrf'[k].token}
    <3>1. \/ csrf' = csrf
          \/ \E k \in Keys, s \in {0, NewSession} :
               csrf' = [csrf EXCEPT ![k] = [token |-> s, cookies |-> s]]
          \/ csrf' = [csrf EXCEPT !["zewm"].token = 0] \/ csrf' = [csrf EXCEPT !["zewm"].cookies = 0]
      <4>1. CASE Begin(c) \/ ReadToken(c) \/ ReadCookies(c) \/ EwmRefused(c)
        BY <4>1 DEF Begin, ReadToken, ReadCookies, EwmRefused
      <4>2. CASE Fetch(c)
        BY <4>2 DEF Fetch, Fetched, KeyOf, Keys
      <4>3. CASE \E lost \in BOOLEAN : Accepted(c, lost)
        BY <4>3 DEF Accepted
      <4>4. CASE \E status \in {401, 403, 429} : ZewmRefused(c, status)
        BY <4>4 DEF ZewmRefused
      <4>5. CASE \E done, ok \in BOOLEAN : Rfc(c, done, ok)
        BY <4>5 DEF Rfc
      <4>6. CASE DropBearer(c) \/ DropCsrf(c)
        BY <4>6 DEF DropBearer, DropCsrf
      <4> QED BY <1>1, <4>1, <4>2, <4>3, <4>4, <4>5, <4>6 DEF CallerStep
    <3> QED BY <1>0, <3>1
  <2>3. bearer' = "stale" =>
          bearer = "stale" /\ frozen' # "good" /\ call'[c].bearer # "good"
    <3>1. CASE Begin(c)
      BY <1>0, <2>0, <3>1 DEF Begin, ValidToken, Idle
    <3>2. CASE ReadToken(c) \/ ReadCookies(c) \/ EwmRefused(c)
      BY <1>0, <2>0, <3>2
         DEF ReadToken, ReadCookies, EwmRefused, ValidToken, Go, Retry, Calls
    <3>3. CASE Fetch(c)
      BY <1>0, <2>0, <3>3 DEF Fetch, Fetched, BearerAfterFetch, ValidToken, Go, Calls
    <3>4. CASE \E lost \in BOOLEAN : Accepted(c, lost)
      BY <1>0, <2>0, <3>4 DEF Accepted, Go, Calls
    <3>5. CASE \E status \in {401, 403, 429} : ZewmRefused(c, status)
      BY <1>0, <2>0, <3>5 DEF ZewmRefused, Go, Retry, Calls
    <3>6. CASE \E done, ok \in BOOLEAN : Rfc(c, done, ok)
      BY <1>0, <2>0, <3>6 DEF Rfc, Go, Retry, Calls
    <3>7. CASE DropBearer(c) \/ DropCsrf(c)
      BY <1>0, <2>0, <3>7 DEF DropBearer, DropCsrf, Go, Calls
    <3> QED BY <1>1, <3>1, <3>2, <3>3, <3>4, <3>5, <3>6, <3>7 DEF CallerStep
  <2> QED BY <1>0, <2>1, <2>2, <2>3 DEF Together
<1>2. CASE BearerEnds
  BY <1>0, <1>2 DEF BearerEnds, Together, Rot, Calls
<1>3. CASE ListTasks \/ BearerLapses
  BY <1>0, <1>3 DEF ListTasks, BearerLapses, Together, ValidToken
<1>4. CASE (\E s \in Sessions : SessionEnds(s)) \/ (\E k \in Keys : CsrfLapses(k))
  BY <1>0, <1>4 DEF SessionEnds, CsrfLapses, Together
<1>5. CASE UNCHANGED vars
  BY <1>0, <1>5 DEF vars, Together
<1> QED BY <1>1, <1>2, <1>3, <1>4, <1>5 DEF Next

\* What is remembered is in use, and stays alive when another session begins.
LEMMA HeldStaysAlive ==
  ASSUME NEW c \in threads, NEW x \in {csrf["zewm"].token, call[c].token}, x \in alive,
         NEW d, Fetched(d)
  PROVE  x \in alive'
<1>1. x \in InUse
  <2> DEFINE S == {{csrf[k].token, csrf[k].cookies} : k \in Keys}
                    \cup {{call[t].token, call[t].cookies} : t \in threads}
  <2>1. {csrf["zewm"].token, csrf["zewm"].cookies} \in S
    BY DEF Keys
  <2>2. {call[c].token, call[c].cookies} \in S
    OBVIOUS
  <2>3. InUse = UNION S
    BY DEF InUse
  <2> HIDE DEF S
  <2> QED BY <2>1, <2>2, <2>3
<1> QED BY <1>1 DEF Fetched

\* A step of somebody else owes a ZEWM call at most one refusal, and that only with a hit.
LEMMA SparedStays ==
  ASSUME TypeOK, NEW c \in Zewm \cap threads, Spared(c), call'[c].pc = call[c].pc,
         call'[c].tries = call[c].tries, hits'[c] \in 0..2, hits'[c] >= hits[c],
         hits'[c] < 2 => OfBearer(c)' + OfSession(c)' <=
                           OfBearer(c) + OfSession(c) + (hits'[c] - hits[c])
  PROVE  Spared(c)'
<1>1. c \in Callers /\ call[c].tries \in Nat /\ hits[c] \in 0..2
  BY RetryConstants DEF TypeOK, Calls
<1>2. OfBearer(c) \in 0..1 /\ OfSession(c) \in 0..1 /\ OfBearer(c)' \in 0..1 /\ OfSession(c)' \in 0..1
  BY DEF OfBearer, OfSession
<1> QED BY <1>1, <1>2 DEF Spared

\* Ends of bearers and sessions, and what other requests do.
LEMMA SparedByOthers ==
  ASSUME TypeOK, Together, NEW c \in Zewm \cap threads, Spared(c), [Next]_vars,
         ~ CallerStep(c)
  PROVE  Spared(c)'
<1>0. /\ c \in Callers /\ threads \subseteq Callers /\ hits[c] \in 0..2 /\ call[c] \in Calls
      /\ OfBearer(c) \in 0..1 /\ OfSession(c) \in 0..1
      /\ OfBearer(c)' \in 0..1 /\ OfSession(c)' \in 0..1
  BY RetryConstants DEF TypeOK, OfBearer, OfSession
<1>1. ASSUME call'[c] = call[c], hits'[c] = hits[c], bearer' = "stale" => bearer = "stale",
             alive' = alive, csrf'["zewm"].token \in {csrf["zewm"].token, 0},
             csrf'["zewm"].cookies \in {csrf["zewm"].cookies, 0}
      PROVE  Spared(c)'
  <2>1. OfBearer(c)' <= OfBearer(c)
    BY <1>1 DEF OfBearer
  <2>2. OfSession(c)' <= OfSession(c)
    BY <1>1 DEF OfSession, DeadCsrf
  <2> QED BY <1>0, <1>1, <2>1, <2>2, SparedStays
<1>2. ASSUME NEW d \in threads \ {c}, CallerStep(d) PROVE Spared(c)'
  <2>0. call'[c] = call[c] /\ d \in Callers
    BY <1>0, <1>2, OwnRecord
  <2>1. ASSUME Begin(d) PROVE Spared(c)'
    BY <1>0, <1>1, <2>0, <2>1 DEF Begin, ValidToken, TypeOK
  <2>2. ASSUME ReadToken(d) \/ ReadCookies(d) \/ EwmRefused(d) PROVE Spared(c)'
    BY <1>1, <2>0, <2>2 DEF ReadToken, ReadCookies, EwmRefused, ValidToken
  <2>3. ASSUME Fetch(d) PROVE Spared(c)'
    <3>1. CASE UNCHANGED <<bearer, csrf, alive, hits>>
      BY <1>1, <2>0, <3>1
    <3>2. CASE Fetched(d)
      <4>1. OfBearer(c)' <= OfBearer(c)
        BY <2>0, <3>2 DEF Fetched, OfBearer
      <4>2. CASE d \in Zewm
        <5>1. hits'[c] \in 0..2 /\ hits'[c] >= hits[c] /\ (hits[c] < 2 => hits'[c] = hits[c] + 1)
          BY <1>0, <3>2, <4>2, <1>2, HitCounts DEF Fetched
        <5> QED BY <1>0, <2>0, <4>1, <5>1, SparedStays
      <4>3. CASE d \notin Zewm
        <5>1. hits'[c] = hits[c]
          BY <1>0, <3>2, <4>3, HitCounts DEF Fetched
        <5>2. csrf'["zewm"] = csrf["zewm"]
          BY <3>2, <4>3 DEF Fetched, KeyOf, TypeOK, Keys
        <5>3. \A x \in {csrf["zewm"].token, call[c].token} : x \in alive => x \in alive'
          BY <3>2, HeldStaysAlive
        <5>4. OfSession(c)' <= OfSession(c)
          BY <2>0, <5>2, <5>3 DEF OfSession, DeadCsrf
        <5> QED BY <1>0, <2>0, <4>1, <5>1, <5>4, SparedStays
      <4> QED BY <4>2, <4>3
    <3> QED BY <2>3, <3>1, <3>2 DEF Fetch
  <2>4. ASSUME NEW lost \in BOOLEAN, Accepted(d, lost) PROVE Spared(c)'
    BY <1>1, <2>0, <2>4 DEF Accepted
  <2>5. ASSUME NEW status \in {401, 403, 429}, ZewmRefused(d, status) PROVE Spared(c)'
    <3>1. CASE UNCHANGED hits
      BY <1>1, <2>0, <2>5, <3>1 DEF ZewmRefused
    <3>2. CASE hits' = Hit(Zewm) /\ status = 429
      <4>1. hits'[c] \in 0..2 /\ hits'[c] >= hits[c] /\ (hits[c] < 2 => hits'[c] = hits[c] + 1)
        BY <1>0, <3>2, HitCounts
      <4>2. OfBearer(c)' <= OfBearer(c)
        BY <2>0, <2>5, <3>2 DEF ZewmRefused, OfBearer
      <4> QED BY <1>0, <2>0, <4>1, <4>2, SparedStays
    <3> QED BY <2>5, <3>1, <3>2 DEF ZewmRefused
  <2>6. ASSUME NEW done \in BOOLEAN, NEW ok \in BOOLEAN, Rfc(d, done, ok) PROVE Spared(c)'
    BY <1>1, <2>0, <2>6 DEF Rfc
  <2>7. ASSUME DropBearer(d) \/ DropCsrf(d) PROVE Spared(c)'
    BY <1>1, <2>0, <2>7 DEF DropBearer, DropCsrf, TypeOK, Keys
  <2> QED BY <1>2, <2>1, <2>2, <2>3, <2>4, <2>5, <2>6, <2>7 DEF CallerStep
<1>3. CASE BearerEnds
  <2>1. /\ call'[c].pc = call[c].pc /\ call'[c].tries = call[c].tries
        /\ call'[c].token = call[c].token /\ call'[c].cookies = call[c].cookies
    BY <1>0, <1>3 DEF BearerEnds, Calls
  <2>2. hits'[c] \in 0..2 /\ hits'[c] >= hits[c] /\ (hits[c] < 2 => hits'[c] = hits[c] + 1)
    BY <1>0, <1>3, HitCounts DEF BearerEnds
  <2>3. OfSession(c)' = OfSession(c)
    <3>1. UNCHANGED <<csrf, alive>>
      BY <1>3 DEF BearerEnds
    <3>2. DeadCsrf' = DeadCsrf
      BY <3>1 DEF DeadCsrf
    <3> QED BY <2>1, <3>1, <3>2 DEF OfSession
  <2> QED BY <1>0, <2>1, <2>2, <2>3, SparedStays
<1>4. ASSUME NEW s \in Sessions, SessionEnds(s) PROVE Spared(c)'
  <2>1. call' = call /\ bearer' = bearer
    BY <1>4 DEF SessionEnds
  <2>2. hits'[c] \in 0..2 /\ hits'[c] >= hits[c] /\ (hits[c] < 2 => hits'[c] = hits[c] + 1)
    BY <1>0, <1>4, HitCounts DEF SessionEnds
  <2>3. OfBearer(c)' = OfBearer(c)
    BY <2>1 DEF OfBearer
  <2> QED BY <1>0, <2>1, <2>2, <2>3, SparedStays
<1>5. ASSUME BearerLapses \/ ListTasks \/ UNCHANGED vars PROVE Spared(c)'
  BY <1>1, <1>5 DEF BearerLapses, ListTasks, ValidToken, vars
<1>6. ASSUME NEW k \in Keys, CsrfLapses(k) PROVE Spared(c)'
  <2>1. csrf'["zewm"] \in {csrf["zewm"], [token |-> 0, cookies |-> 0]}
    BY <1>6 DEF CsrfLapses, TypeOK, Keys
  <2> QED BY <1>1, <1>6, <2>1 DEF CsrfLapses
<1> QED BY <1>2, <1>3, <1>4, <1>5, <1>6 DEF Next

\* Of a call's own steps a refusal uses up what was owed, or is a throttling, which is
\* a hit; three retries are one more than may be owed.
LEMMA SparedByItself ==
  ASSUME HttpRetries >= 3, TypeOK, Together, NEW c \in Zewm \cap threads, Spared(c), CallerStep(c)
  PROVE  Spared(c)'
<1>0. /\ c \in Callers /\ c \notin Ewm /\ c \notin Wm /\ hits[c] \in 0..2 /\ call[c] \in Calls
      /\ call \in [Callers -> Calls] /\ hits \in [Callers -> 0..2]
      /\ csrf["zewm"].token = 0 \/ csrf["zewm"].cookies \in {0, csrf["zewm"].token}
      /\ KeyOf(c) = "zewm"
  BY RetryConstants DEF TypeOK, Together, Keys, KeyOf
<1>1. ASSUME Begin(c) PROVE Spared(c)'
  <2>1. call'[c].pc = "token" /\ call'[c].tries = 0 /\ hits'[c] = 0
    BY <1>0, <1>1 DEF Begin, Idle
  <2>2. OfBearer(c)' \in 0..1 /\ OfSession(c)' \in 0..1
    BY DEF OfBearer, OfSession
  <2> QED BY <2>1, <2>2 DEF Spared
<1>2. ASSUME ReadToken(c) PROVE Spared(c)'
  <2>1. /\ call[c].pc = "token" /\ call'[c].pc = "cookies" /\ call'[c].tries = call[c].tries
        /\ call'[c].token = csrf["zewm"].token /\ UNCHANGED <<bearer, csrf, alive, hits>>
    BY <1>0, <1>2 DEF ReadToken, At, Calls
  <2>2. OfBearer(c)' = OfBearer(c)
    BY <2>1 DEF OfBearer
  <2>3. OfSession(c)' = OfSession(c)
    BY <1>0, <2>1 DEF OfSession, DeadCsrf
  <2> QED BY <2>1, <2>2, <2>3 DEF Spared
<1>3. ASSUME ReadCookies(c) PROVE Spared(c)'
  <2>1. /\ call[c].pc = "cookies" /\ call'[c].tries = call[c].tries
        /\ UNCHANGED <<csrf, alive, hits>>
    BY <1>0, <1>3 DEF ReadCookies, At, Calls, Go
  <2>2. CASE call'[c].pc = "fetch"
    <3>1. OfBearer(c)' = 0 /\ OfSession(c)' = 0
      BY <2>2 DEF OfBearer, OfSession
    <3>2. OfBearer(c) \in 0..1 /\ OfSession(c) \in 0..1
      BY DEF OfBearer, OfSession
    <3> QED BY <1>0, <2>1, <2>2, <3>1, <3>2 DEF Spared, Calls
  <2>3. CASE /\ call[c].token # 0 /\ csrf["zewm"].cookies # 0
             /\ call' = [call EXCEPT ![c].cookies = csrf["zewm"].cookies,
                           ![c].bearer = ValidToken, ![c].pc = "send"]
    <3>1. /\ call'[c].pc = "send" /\ call'[c].token = call[c].token
          /\ call'[c].cookies = csrf["zewm"].cookies /\ call'[c].bearer = ValidToken
      BY <1>0, <2>3 DEF Calls
    <3>2. OfBearer(c)' = OfBearer(c)
      BY <2>1, <3>1, <1>0 DEF OfBearer, ValidToken, TypeOK, Bearer
    <3>3. OfSession(c)' <= OfSession(c)
      BY <2>1, <2>3, <3>1 DEF OfSession, DeadCsrf
    <3>4. OfBearer(c) \in 0..1 /\ OfSession(c) \in 0..1 /\ OfSession(c)' \in 0..1
      BY DEF OfBearer, OfSession
    <3> QED BY <1>0, <2>1, <3>1, <3>2, <3>3, <3>4 DEF Spared, Calls
  <2> QED BY <1>0, <1>3, <2>2, <2>3 DEF ReadCookies, Go, Calls
<1>4. ASSUME Fetch(c) PROVE Spared(c)'
  <2>1. call[c].pc = "fetch"
    BY <1>4 DEF Fetch, At
  <2>2. CASE Go(c, "barred")
    BY <1>0, <2>2 DEF Go, Spared, Calls
  <2>3. CASE Fetched(c) /\ BearerOfFetch(c) # "stale"
    <3>1. /\ call'[c].pc = "send" /\ call'[c].tries = call[c].tries /\ call'[c].token = NewSession
          /\ call'[c].cookies = NewSession /\ call'[c].bearer = "good" /\ hits'[c] = hits[c]
      BY <1>0, <2>3, HitCounts
         DEF Fetched, BearerOfFetch, BearerAfterFetch, ValidToken, Calls, TypeOK, Bearer
    <3>2. NewSession \in alive' /\ csrf'["zewm"].token = NewSession
      BY <1>0, <2>3 DEF Fetched, TypeOK, Keys
    <3>3. OfBearer(c)' = 0 /\ OfSession(c)' = 0
      BY <3>1, <3>2 DEF OfBearer, OfSession, DeadCsrf
    <3>4. OfBearer(c) \in 0..1 /\ OfSession(c) \in 0..1
      BY DEF OfBearer, OfSession
    <3> QED BY <1>0, <2>1, <3>1, <3>3, <3>4 DEF Spared, Calls
  <2> QED BY <1>4, <2>2, <2>3 DEF Fetch
<1>5. ASSUME NEW lost \in BOOLEAN, Accepted(c, lost) PROVE Spared(c)'
  BY <1>0, <1>5 DEF Accepted, Go, Spared, Calls, AfterLoss
<1>6. ASSUME NEW status \in {401, 403, 429}, ZewmRefused(c, status) PROVE Spared(c)'
  <2>0. call[c].pc = "send"
    BY <1>6 DEF ZewmRefused, At
  <2>1. OfBearer(c) \in 0..1 /\ OfSession(c) \in 0..1 /\ hits'[c] \in 0..2 /\ hits'[c] >= hits[c]
    BY <1>0, <1>6, HitCounts DEF OfBearer, OfSession, ZewmRefused
  <2>2. status = 401 => OfBearer(c) = 1 /\ hits'[c] = hits[c]
    BY <1>6, <2>0 DEF ZewmRefused, StatusCode, OfBearer
  <2>3. status = 403 => OfSession(c) = 1 /\ hits'[c] = hits[c]
    BY <1>6, <2>0 DEF ZewmRefused, StatusCode, OfSession
  <2>4. status = 429 => /\ call[c].bearer = "good" /\ bearer # "stale"
                        /\ hits[c] < 2 => hits'[c] = hits[c] + 1
    BY <1>0, <1>6, HitCounts DEF ZewmRefused, StatusCode, Together
  <2>5. hits[c] < 2 => call[c].tries + OfBearer(c) + OfSession(c) <= 2 + hits[c]
    BY <2>0 DEF Spared
  <2>6. call[c].tries \in Nat
    BY <1>0 DEF Calls
  <2>7. CASE ~MayRetry(c) /\ Go(c, "refused")
    <3>1. call[c].tries >= 3
      BY <2>6, <2>7, RetryConstants DEF MayRetry
    <3>2. hits'[c] >= 2
      BY <1>0, <2>1, <2>2, <2>3, <2>4, <2>5, <2>6, <3>1
    <3>3. call'[c].pc = "refused"
      BY <1>0, <2>7 DEF Go
    <3> QED BY <3>2, <3>3 DEF Spared
  <2>8. UNCHANGED <<bearer, csrf, alive>>
    BY <1>6 DEF ZewmRefused
  <2>9. ASSUME NEW pc, Retry(c, pc)
        PROVE  /\ call'[c].pc = pc /\ call'[c].tries = call[c].tries + 1
    BY <1>0, <2>9 DEF Retry, Calls
  <2>10. CASE status = 401 /\ Retry(c, "expired")
    <3>1. OfBearer(c)' = 0
      BY <2>9, <2>10 DEF OfBearer
    <3>2. OfSession(c)' \in 0..1 /\ OfSession(c)' <= OfSession(c)
      BY <2>0, <2>8, <2>9, <2>10 DEF OfSession, DeadCsrf
    <3> QED BY <1>0, <2>1, <2>2, <2>5, <2>6, <2>9, <2>10, <3>1, <3>2 DEF Spared
  <2>11. CASE status = 403 /\ Retry(c, "fetch")
    <3>1. OfBearer(c)' = 0 /\ OfSession(c)' = 0
      BY <2>9, <2>11 DEF OfBearer, OfSession
    <3> QED BY <1>0, <2>1, <2>3, <2>5, <2>6, <2>9, <2>11, <3>1 DEF Spared
  <2>12. CASE status = 429 /\ Retry(c, "backoff")
    <3>1. OfBearer(c)' = 0 /\ OfSession(c)' = 0
      BY <2>4, <2>8, <2>9, <2>12 DEF OfBearer, OfSession
    <3> QED BY <1>0, <2>1, <2>4, <2>5, <2>6, <2>9, <2>12, <3>1 DEF Spared
  <2> QED BY <1>6, <2>7, <2>10, <2>11, <2>12 DEF ZewmRefused
<1>7. ~ EwmRefused(c) /\ \A done, ok \in BOOLEAN : ~ Rfc(c, done, ok)
  BY <1>0 DEF EwmRefused, Rfc
<1>8. ASSUME DropBearer(c) \/ DropCsrf(c) PROVE Spared(c)'
  <2>1. /\ call[c].pc \in {"expired", "backoff", "half"} /\ call'[c].pc \in {"half", "token"}
        /\ call'[c].tries = call[c].tries /\ UNCHANGED <<alive, hits>>
    BY <1>0, <1>8 DEF DropBearer, DropCsrf, At, Go, Calls
  <2>2. OfBearer(c)' <= OfBearer(c)
    BY <1>0, <1>8, <2>1 DEF DropBearer, DropCsrf, At, OfBearer
  <2>3. OfSession(c)' <= OfSession(c)
    <3>1. CASE call[c].pc = "backoff"
      <4>1. csrf'["zewm"].token = 0
        BY <1>8, <3>1 DEF DropBearer, DropCsrf, At, TypeOK, Keys
      <4> QED BY <2>1, <4>1 DEF OfSession, DeadCsrf
    <3>2. CASE call[c].pc # "backoff"
      <4>1. csrf'["zewm"].token = csrf["zewm"].token
        BY <1>8, <3>2 DEF DropBearer, DropCsrf, At, TypeOK, Keys
      <4> QED BY <2>1, <3>2, <4>1 DEF OfSession, DeadCsrf
    <3> QED BY <3>1, <3>2
  <2>4. /\ OfBearer(c) \in 0..1 /\ OfSession(c) \in 0..1 /\ call[c].tries \in Nat
        /\ OfBearer(c)' \in 0..1 /\ OfSession(c)' \in 0..1
    BY <1>0 DEF OfBearer, OfSession, Calls
  <2> QED BY <1>0, <2>1, <2>2, <2>3, <2>4 DEF Spared
<1> QED BY <1>1, <1>2, <1>3, <1>4, <1>5, <1>6, <1>7, <1>8 DEF CallerStep

\* What another thread does never lowers the hits of a call.
LEMMA OthersHit ==
  ASSUME TypeOK, NEW c \in threads, NEW d \in threads \ {c}, CallerStep(d)
  PROVE  hits'[c] >= hits[c] /\ hits'[c] \in 0..2
<1>0. c \in Callers /\ d \in Callers /\ hits \in [Callers -> 0..2]
  BY RetryConstants DEF TypeOK
<1>1. CASE Begin(d)
  BY <1>0, <1>1 DEF Begin
<1>2. CASE Fetch(d)
  BY <1>0, <1>2, HitCounts DEF Fetch, Fetched
<1>3. CASE \E status \in {401, 403, 429} : ZewmRefused(d, status)
  BY <1>0, <1>3, HitCounts DEF ZewmRefused
<1>4. CASE \/ ReadToken(d) \/ ReadCookies(d) \/ EwmRefused(d) \/ DropBearer(d) \/ DropCsrf(d)
           \/ (\E lost \in BOOLEAN : Accepted(d, lost))
           \/ (\E done, ok \in BOOLEAN : Rfc(d, done, ok))
  BY <1>0, <1>4 DEF ReadToken, ReadCookies, EwmRefused, DropBearer, DropCsrf, Accepted, Rfc
<1> QED BY <1>2, <1>1, <1>3, <1>4 DEF CallerStep

\* Only its end at SAP makes the shared bearer stale.
LEMMA NobodyStales ==
  ASSUME NEW c \in threads, CallerStep(c), bearer' = "stale"
  PROVE  bearer = "stale"
<1>1. CASE Begin(c) \/ ReadToken(c) \/ ReadCookies(c) \/ EwmRefused(c)
  BY <1>1 DEF Begin, ReadToken, ReadCookies, EwmRefused, ValidToken
<1>2. CASE Fetch(c)
  BY <1>2 DEF Fetch, Fetched
<1>3. CASE \E lost \in BOOLEAN : Accepted(c, lost)
  BY <1>3 DEF Accepted
<1>4. CASE \E status \in {401, 403, 429} : ZewmRefused(c, status)
  BY <1>4 DEF ZewmRefused
<1>5. CASE \E done, ok \in BOOLEAN : Rfc(c, done, ok)
  BY <1>5 DEF Rfc
<1>6. CASE DropBearer(c) \/ DropCsrf(c)
  BY <1>6 DEF DropBearer, DropCsrf
<1> QED BY <1>1, <1>2, <1>3, <1>4, <1>5, <1>6 DEF CallerStep

\* A refusal with a good bearer finds the shared one good; after a 401 it is dropped.
LEMMA OvertakenKept ==
  ASSUME TypeOK, Together, NEW c \in Zewm \cap threads, Overtaken(c), [Next]_vars
  PROVE  Overtaken(c)'
<1>0. /\ c \in Callers /\ c \in threads /\ c \notin Ewm /\ c \notin Wm /\ hits[c] \in 0..2
      /\ call[c] \in Calls /\ call \in [Callers -> Calls] /\ hits \in [Callers -> 0..2]
      /\ call[c].tries \in Nat
  BY RetryConstants DEF TypeOK, Calls
<1>1. ASSUME call'[c].pc = call[c].pc, call'[c].tries = call[c].tries,
             bearer' = "stale" => bearer = "stale", hits'[c] >= hits[c], hits'[c] \in 0..2
      PROVE  Overtaken(c)'
  BY <1>0, <1>1 DEF Overtaken
<1>2. ASSUME NEW d \in threads \ {c}, CallerStep(d) PROVE Overtaken(c)'
  <2>1. call'[c] = call[c] /\ d \in Callers
    BY <1>0, <1>2, OwnRecord, RetryConstants DEF TypeOK
  <2>2. hits'[c] >= hits[c] /\ hits'[c] \in 0..2
    BY <1>0, <1>2, <2>1, OthersHit
  <2> QED BY <1>1, <1>2, <2>1, <2>2, NobodyStales
<1>3. ASSUME CallerStep(c) PROVE Overtaken(c)'
  <2>0. bearer' = "stale" => bearer = "stale"
    BY <1>0, <1>3, NobodyStales
  <2>1. ASSUME Begin(c) PROVE Overtaken(c)'
    BY <1>0, <2>1 DEF Begin, Idle, Overtaken
  <2>2. ASSUME ReadToken(c) \/ ReadCookies(c) PROVE Overtaken(c)'
    BY <1>0, <2>0, <2>2 DEF ReadToken, ReadCookies, At, Go, Overtaken, Calls
  <2>3. ASSUME Fetch(c) PROVE Overtaken(c)'
    <3>1. CASE Fetched(c)
      BY <1>0, <2>0, <3>1 DEF Fetched, Overtaken, Calls
    <3>2. CASE BearerOfFetch(c) = "stale" /\ Go(c, "barred") /\ hits' = hits
      <4>1. bearer = "stale" /\ call[c].pc = "fetch"
        BY <1>0, <2>3, <3>2 DEF BearerOfFetch, ValidToken, Fetch, At
      <4> QED BY <1>0, <3>2, <4>1 DEF Go, Overtaken, Calls
    <3> QED BY <1>0, <2>3, <3>1, <3>2 DEF Fetch
  <2>4. ASSUME NEW lost \in BOOLEAN, Accepted(c, lost) PROVE Overtaken(c)'
    BY <1>0, <2>4 DEF Accepted, Go, Overtaken, Calls, AfterLoss
  <2>5. ASSUME NEW status \in {401, 403, 429}, ZewmRefused(c, status) PROVE Overtaken(c)'
    <3>1. bearer' = bearer /\ hits'[c] >= hits[c] /\ hits'[c] \in 0..2
      BY <1>0, <2>5, HitCounts DEF ZewmRefused
    <3>2. CASE ~MayRetry(c) /\ Go(c, "refused")
      BY <1>0, <3>2 DEF Go, Overtaken, Calls
    <3>3. ASSUME NEW pc, Retry(c, pc) PROVE call'[c].pc = pc
      BY <1>0, <3>3 DEF Retry, Calls
    <3>4. CASE status = 401 /\ Retry(c, "expired")
      BY <3>3, <3>4 DEF Overtaken
    <3>5. CASE status = 403 /\ Retry(c, "fetch")
      <4>1. bearer # "stale"
        BY <1>0, <2>5, <3>5 DEF ZewmRefused, StatusCode, Together
      <4> QED BY <3>1, <3>3, <3>5, <4>1 DEF Overtaken
    <3>6. CASE status = 429 /\ Retry(c, "backoff")
      <4>1. bearer # "stale"
        BY <1>0, <2>5, <3>6 DEF ZewmRefused, StatusCode, Together
      <4> QED BY <3>1, <3>3, <3>6, <4>1 DEF Overtaken
    <3> QED BY <2>5, <3>2, <3>4, <3>5, <3>6 DEF ZewmRefused
  <2>6. ~ EwmRefused(c) /\ \A done, ok \in BOOLEAN : ~ Rfc(c, done, ok)
    BY <1>0 DEF EwmRefused, Rfc
  <2>7. ASSUME DropBearer(c) PROVE Overtaken(c)'
    BY <1>0, <2>7 DEF DropBearer, Go, Overtaken
  <2>8. ASSUME DropCsrf(c) PROVE Overtaken(c)'
    BY <1>0, <2>8 DEF DropCsrf, At, Go, Overtaken, Calls
  <2> QED BY <1>3, <2>1, <2>2, <2>3, <2>4, <2>5, <2>6, <2>7, <2>8 DEF CallerStep
<1>4. CASE BearerEnds
  <2>1. hits'[c] >= 1
    BY <1>0, <1>4, HitCounts DEF BearerEnds
  <2> QED BY <2>1 DEF Overtaken
<1>5. ASSUME NEW s \in Sessions, SessionEnds(s) PROVE Overtaken(c)'
  <2>1. hits'[c] >= hits[c] /\ hits'[c] \in 0..2
    BY <1>0, <1>5, HitCounts DEF SessionEnds
  <2> QED BY <1>1, <1>5, <2>1 DEF SessionEnds
<1>6. CASE BearerLapses \/ ListTasks \/ UNCHANGED vars \/ \E k \in Keys : CsrfLapses(k)
  BY <1>0, <1>1, <1>6 DEF BearerLapses, ListTasks, ValidToken, CsrfLapses, vars
<1> QED BY <1>2, <1>3, <1>4, <1>5, <1>6 DEF Next

\* The invariant holds from the start and in every step.
LEMMA SessionHolds ==
  ASSUME HttpRetries >= 3
  PROVE  Spec => []SessionInv
<1>1. SessionInv /\ [Next]_vars => SessionInv'
  <2> SUFFICES ASSUME SessionInv, [Next]_vars PROVE Budget' /\ Ended'
    BY SessionTypes, AttemptsKept, TogetherKept DEF SessionInv
  <2>1. threads' = threads
    BY DEF Next, vars
  <2>2. \A c \in Zewm \cap threads : Spared(c)'
    BY SparedByItself, SparedByOthers DEF SessionInv, Budget
  <2>3. \A c \in Zewm \cap threads : Overtaken(c)'
    BY OvertakenKept DEF SessionInv, Ended
  <2> QED BY <2>1, <2>2, <2>3 DEF Budget, Ended
<1> QED BY <1>1, SessionStarts, PTL DEF Spec

\* What a client keeps, and what SAP and Redis have of it, has its type.
THEOREM SessionTypeCorrect == Spec => []TypeOK
<1>1. Init => TypeOK /\ Attempts
  BY SessionStarts DEF SessionInv
<1> QED BY <1>1, SessionTypes, AttemptsKept, PTL DEF Spec

(* With the three retries of _execute_with_retry, or more, a ZEWM call is  *)
(* refused for good only after two disturbances while it ran, and is       *)
(* barred from a token by a stale bearer, once SAP has answered it, only   *)
(* if the bearer ended while it ran; and what an HTTP call asks for is     *)
(* done at most once, whatever threads share the tokens.                   *)
THEOREM RetriesHitTheMark ==
  ASSUME HttpRetries >= 3
  PROVE  Spec => []RetriesAreExact
<1>1. SessionInv => RetriesAreExact
  <2> SUFFICES ASSUME SessionInv PROVE RetriesAreExact
    OBVIOUS
  <2>1. \A c \in Callers : Tried(c)
    BY DEF SessionInv, Attempts
  <2>2. HttpOnce
    BY <2>1, RetryConstants DEF HttpOnce, Tried, Http, Callers
  <2>3. RefusedForCause
    BY <2>1, RetryConstants 
       DEF RefusedForCause, Tried, SessionInv, Budget, Spared, Ended, Overtaken, At, TypeOK, Calls
  <2> QED BY <2>2, <2>3 DEF RetriesAreExact
<1> QED BY <1>1, SessionHolds, PTL

-----------------------------------------------------------------------------
(* Notify.                                                                 *)

\* Handlers that may still run the operation of token t.
Armed(t) ==
  {c \in Callback :
     /\ calls[c] # NoCall /\ Passed(calls[c].card) = t
     /\ \/ calls[c].step \in {"consume", "guard", "execute"}
        \/ calls[c].step = "confirm" /\ tokens[t].left > 0}

\* A token is on one card, for one dangerous operation; what is handled was a card.
Marked ==
  /\ \A k \in cards : k.token # NoToken =>
       /\ k.op \in Dangerous /\ tokens[k.token].op = k.op
       /\ \A l \in cards : l.token = k.token => l = k
  /\ \A c \in Callback : calls[c] # NoCall => calls[c].card \in cards
  /\ \A t \in Token : runs[t] > 0 => tokens[t].op # "unused"

\* Once a click got past its fingerprint, no other may while the token lives.
Spent(t) ==
  /\ runs[t] <= 1
  /\ \A c, d \in Armed(t) : c = d
  /\ runs[t] > 0 => Armed(t) = {}
  /\ runs[t] > 0 \/ Armed(t) # {} =>
       \A k \in cards : Passed(k) = t => tokens[t].left <= prints[FingerOf(k)]

NotifyInv == NotifyTypeOK /\ Marked /\ \A t \in Token : Spent(t)

\* The numbers and the names of NotifyAssumption.
LEMMA NotifyConstants ==
  /\ DedupTtl \in Nat /\ DedupTtl > 0 /\ ReplayTtl \in Nat /\ ReplayTtl > 0
  /\ ConfirmTtl \in Nat /\ ConfirmTtl > 0 /\ ConfirmTtl <= ReplayTtl
  /\ NoToken \notin Token /\ "unused" \notin Operation
  /\ \A a \in Alert : CardsOf(a) \subseteq Card /\ \A k \in CardsOf(a) : k.token = NoToken
<1>1. \A x \in {DedupTtl, ReplayTtl, ConfirmTtl} : x \in Nat /\ x > 0
  BY NotifyAssumption
<1>2. \A a \in Alert : CardsOf(a) \subseteq Card /\ \A k \in CardsOf(a) : k.token = NoToken
  BY NotifyAssumption DEF CardsOf, Card, Operation
<1> QED BY <1>1, <1>2, NotifyAssumption DEF Operation

\* A card's fingerprint is one, and it passes the token it has or none.
LEMMA CardFacts ==
  ASSUME NEW k \in Card
  PROVE  /\ FingerOf(k) \in Finger /\ Passed(k) \in {k.token, NoToken}
         /\ Passed(k) \in Token \cup {NoToken}
BY DEF Card, FingerOf, Finger, Passed

\* What is handled.
LEMMA GoingFacts ==
  ASSUME NotifyTypeOK, NEW c \in Callback, calls[c] # NoCall
  PROVE  calls[c] \in Going /\ calls[c].card \in Card
BY DEF NotifyTypeOK, Going

\* A callback that goes on to another step, or ends, is still a callback.
LEMMA GoesOn ==
  ASSUME NotifyTypeOK, NEW c \in Callback, calls[c] \in Going,
         End(c) \/ \E s \in {"confirm", "consume", "guard", "execute", "SUCCESS", "FAILED"} : GoTo(c, s)
  PROVE  calls' \in [Callback -> {NoCall} \cup Going]
<1>0. calls \in [Callback -> {NoCall} \cup Going]
  BY DEF NotifyTypeOK
<1>1. CASE End(c)
  BY <1>0, <1>1 DEF End
<1>2. ASSUME NEW s \in {"confirm", "consume", "guard", "execute", "SUCCESS", "FAILED"}, GoTo(c, s)
      PROVE  calls' \in [Callback -> {NoCall} \cup Going]
  <2>1. [calls[c] EXCEPT !.step = s] \in Going
    BY DEF Going
  <2>2. calls' = [calls EXCEPT ![c] = [calls[c] EXCEPT !.step = s]]
    BY <1>2 DEF GoTo
  <2> QED BY <1>0, <2>1, <2>2
<1> QED BY <1>1, <1>2

\* A step keeps the types.
LEMMA NotifyTypes == NotifyTypeOK /\ [NotifyNext]_nvars => NotifyTypeOK'
<1> SUFFICES ASSUME NotifyTypeOK, [NotifyNext]_nvars PROVE NotifyTypeOK'
  OBVIOUS
<1>1. ASSUME NEW a \in Alert, Post(a) PROVE NotifyTypeOK'
  BY <1>1, NotifyConstants DEF Post, NotifyTypeOK, DedupAfter
<1>2. ASSUME NEW c \in Callback, NEW k \in cards, Click(c, k) PROVE NotifyTypeOK'
  BY <1>2 DEF Click, NotifyTypeOK, Going
<1>3. ASSUME NEW c \in Callback, Handle(c) PROVE NotifyTypeOK'
  <2>1. NoCall \in {NoCall} \cup Going
    OBVIOUS
  <2>2. CASE Refuse(c) \/ Drop(c)
    BY <2>2 DEF Refuse, Drop, End, NotifyTypeOK
  <2>3. CASE CheckAntiReplay(c)
    <3>1. calls[c] \in Going /\ FingerOf(calls[c].card) \in Finger
      BY <2>3, GoingFacts, CardFacts DEF CheckAntiReplay, Stands
    <3>2. prints' \in [Finger -> 0..ReplayTtl]
      BY <2>3, <3>1, NotifyConstants DEF CheckAntiReplay, NotifyTypeOK
    <3>3. calls' \in [Callback -> {NoCall} \cup Going]
      BY <2>3, <3>1, GoesOn DEF CheckAntiReplay
    <3> QED BY <2>3, <3>2, <3>3 DEF CheckAntiReplay, NotifyTypeOK
  <2>4. CASE Confirm(c)
    <3>1. calls[c] \in Going /\ calls[c].card \in Card
      BY <2>4, GoingFacts DEF Confirm, Stands
    <3>2. calls' \in [Callback -> {NoCall} \cup Going]
      BY <2>4, <3>1, GoesOn DEF Confirm
    <3>3. tokens' \in [Token -> [op : Operation \cup {"unused"}, left : 0..ConfirmTtl]]
      <4>1. CASE UNCHANGED tokens
        BY <4>1 DEF NotifyTypeOK
      <4>2. ASSUME NEW new \in Token,
                   tokens' = [tokens EXCEPT ![new] = [op |-> calls[c].card.op, left |-> ConfirmTtl]]
            PROVE  tokens' \in [Token -> [op : Operation \cup {"unused"}, left : 0..ConfirmTtl]]
        <5>1. calls[c].card.op \in Operation
          BY <3>1 DEF Card
        <5> QED BY <4>2, <5>1, NotifyConstants DEF NotifyTypeOK
      <4> QED BY <2>4, <4>1, <4>2 DEF Confirm
    <3>4. cards' \subseteq Card
      BY <2>4, <3>1 DEF Confirm, NotifyTypeOK, SecondCard, Card
    <3> QED BY <2>4, <3>2, <3>3, <3>4 DEF Confirm, NotifyTypeOK
  <2>5. CASE Consume(c)
    <3>1. calls[c] \in Going
      BY <2>5, GoingFacts DEF Consume, Stands
    <3>2. calls' \in [Callback -> {NoCall} \cup Going]
      BY <2>5, <3>1, GoesOn DEF Consume
    <3>3. tokens' \in [Token -> [op : Operation \cup {"unused"}, left : 0..ConfirmTtl]]
      <4>1. PICK t : t = Passed(calls[c].card)
        OBVIOUS
      <4>2. tokens' = [tokens EXCEPT ![t].left = 0]
        BY <2>5, <4>1 DEF Consume
      <4>3. \A x \in Token : tokens'[x] = tokens[x] \/ tokens'[x] = [tokens[x] EXCEPT !.left = 0]
        BY <4>2 DEF NotifyTypeOK
      <4>4. tokens' = [x \in Token |-> tokens'[x]]
        BY <4>2 DEF NotifyTypeOK
      <4> QED BY <4>3, <4>4, NotifyConstants DEF NotifyTypeOK
    <3> QED BY <2>5, <3>2, <3>3 DEF Consume, NotifyTypeOK
  <2>6. CASE Guard(c)
    <3>1. calls[c] \in Going
      BY <2>6, GoingFacts DEF Guard, Stands
    <3>2. calls' \in [Callback -> {NoCall} \cup Going]
      BY <2>6, <3>1, GoesOn DEF Guard
    <3> QED BY <2>6, <3>2 DEF Guard, NotifyTypeOK, Records
  <2>7. CASE Execute(c)
    <3>1. calls[c] \in Going
      BY <2>7, GoingFacts DEF Execute, Stands
    <3>2. calls' \in [Callback -> {NoCall} \cup Going]
      BY <2>7, <3>1, GoesOn DEF Execute
    <3>3. runs' \in [Token -> Nat]
      <4>1. PICK t : t = RunOf(c)
        OBVIOUS
      <4>2. runs' = runs \/ runs' = [runs EXCEPT ![t] = @ + 1]
        BY <2>7, <4>1 DEF Execute
      <4> QED BY <4>2 DEF NotifyTypeOK
    <3> QED BY <2>7, <3>2, <3>3 DEF Execute, NotifyTypeOK
  <2>8. CASE Finish(c)
    BY <2>8 DEF Finish, NotifyTypeOK, End, Records
  <2> QED BY <1>3, <2>2, <2>3, <2>4, <2>5, <2>6, <2>7, <2>8 DEF Handle
<1>4. CASE Tick
  <2>1. calls' \in [Callback -> {NoCall} \cup Going]
    <3>1. \A k \in Going : [k EXCEPT !.late = TRUE] \in Going
      BY DEF Going
    <3>2. calls \in [Callback -> {NoCall} \cup Going]
      BY DEF NotifyTypeOK
    <3>3. calls' = [c \in Callback |-> IF calls[c] = NoCall THEN NoCall
                                       ELSE [calls[c] EXCEPT !.late = TRUE]]
      BY <1>4 DEF Tick
    <3> QED BY <3>1, <3>2, <3>3
  <2>2. \A n \in Nat : \A x \in 0..n : Age(x) \in 0..n
    BY DEF Age
  <2>3. dedup' \in [Alert -> 0..DedupTtl] /\ prints' \in [Finger -> 0..ReplayTtl]
    BY <1>4, <2>2, NotifyConstants DEF Tick, NotifyTypeOK
  <2>4. tokens' \in [Token -> [op : Operation \cup {"unused"}, left : 0..ConfirmTtl]]
    BY <1>4, <2>2, NotifyConstants DEF Tick, NotifyTypeOK
  <2> QED BY <1>4, <2>1, <2>3, <2>4 DEF Tick, NotifyTypeOK
<1>5. CASE Surroundings
  BY <1>5 DEF Surroundings, NotifyTypeOK
<1>6. CASE UNCHANGED nvars
  BY <1>6 DEF nvars, NotifyTypeOK
<1> QED BY <1>1, <1>2, <1>3, <1>4, <1>5, <1>6 DEF NotifyNext

\* A step of a handler, or of time, after which a token has no more handlers, no more
\* runs and no more cards, and lives no longer beside its fingerprint, keeps its word.
LEMMA SpentKept ==
  ASSUME NEW t \in Token, Spent(t), Armed(t)' \subseteq Armed(t), runs'[t] = runs[t],
         \A k \in cards' : Passed(k) = t =>
           /\ k \in cards
           /\ tokens[t].left <= prints[FingerOf(k)] => tokens'[t].left <= prints'[FingerOf(k)]
  PROVE  Spent(t)'
BY DEF Spent

\* What a handler passes is a card's own token.
LEMMA Presented ==
  ASSUME NotifyTypeOK, Marked, NEW k \in cards, NEW t \in Token, Passed(k) = t
  PROVE  k.token = t /\ tokens[t].op = k.op /\ k.op \in Dangerous /\ \A l \in cards : Passed(l) = t => l = k
<1>1. \A l \in cards : Passed(l) = t => l.token = t
  BY NotifyConstants DEF Passed
<1> QED BY <1>1, NotifyConstants DEF Marked

\* The handler c is at a step of its own and no other moves.
LEMMA OthersArmed ==
  ASSUME NotifyTypeOK, NEW c \in Callback, NEW t \in Token,
         \A d \in Callback : d # c => calls'[d] = calls[d],
         tokens'[t].left > 0 => tokens[t].left > 0
  PROVE  Armed(t)' \subseteq Armed(t) \cup {c}
BY DEF Armed

\* A step keeps the marks.
LEMMA MarkedKept == NotifyInv /\ NotifyTypeOK' /\ [NotifyNext]_nvars => Marked'
<1> SUFFICES ASSUME NotifyTypeOK, Marked, \A t \in Token : Spent(t), NotifyTypeOK', [NotifyNext]_nvars
             PROVE  Marked'
  BY DEF NotifyInv
<1>1. ASSUME NEW a \in Alert, Post(a) PROVE Marked'
  <2>1. cards \subseteq cards' /\ \A k \in cards' \ cards : k.token = NoToken
    BY <1>1, NotifyConstants DEF Post
  <2> QED BY <1>1, <2>1 DEF Post, Marked
<1>2. ASSUME NEW c \in Callback, NEW k \in cards, Click(c, k) PROVE Marked'
  BY <1>2 DEF Click, Marked, NotifyTypeOK
<1>3. ASSUME NEW c \in Callback, Handle(c) PROVE Marked'
  <2>0. \A d \in Callback : calls'[d] # NoCall => calls[d] # NoCall /\ calls'[d].card = calls[d].card
    <3>1. calls[c] # NoCall
      BY <1>3 DEF Handle, Refuse, CheckAntiReplay, Confirm, Consume, Guard, Execute, Finish, Drop, Stands
    <3>2. calls[c] \in Going
      BY <3>1, GoingFacts
    <3>3. CASE End(c)
      BY <3>3 DEF End, NotifyTypeOK
    <3>4. ASSUME NEW step, GoTo(c, step)
          PROVE  \A d \in Callback : calls'[d] # NoCall => calls[d] # NoCall /\ calls'[d].card = calls[d].card
      BY <3>1, <3>2, <3>4 DEF GoTo, NotifyTypeOK, Going
    <3> QED BY <1>3, <3>3, <3>4 DEF Handle, Refuse, CheckAntiReplay, Confirm, Consume, Guard, Execute, Finish, Drop
  <2>1. CASE Confirm(c)
    <3>1. calls[c].card \in Card /\ calls[c].card \in cards
      BY <2>1, GoingFacts DEF Confirm, Stands, Marked
    <3>2. CASE UNCHANGED <<tokens, cards>>
      BY <2>0, <2>1, <3>2 DEF Confirm, Marked
    <3>3. ASSUME NEW new \in Token, tokens[new].op = "unused", calls[c].card.op \in Dangerous,
                 tokens' = [tokens EXCEPT ![new] = [op |-> calls[c].card.op, left |-> ConfirmTtl]],
                 cards' = cards \cup {SecondCard(calls[c].card, new)}
          PROVE  Marked'
      <4> DEFINE s == SecondCard(calls[c].card, new)
      <4>1. \A k \in cards : k.token # new
        BY <3>3, NotifyConstants DEF Marked, NotifyTypeOK, Card
      <4>2. s.token = new /\ s.op = calls[c].card.op /\ s.op # "unused" /\ tokens'[new].op = s.op
        BY <3>1, <3>3, NotifyConstants DEF SecondCard, Card, NotifyTypeOK
      <4>3. \A t \in Token : t # new => tokens'[t] = tokens[t]
        BY <3>3 DEF NotifyTypeOK
      <4>4. \A k \in cards' : k \in Card /\ (k \in cards \/ k = s)
        BY <3>3 DEF NotifyTypeOK
      <4>5. \A k \in cards' : k.token # NoToken =>
              /\ k.op \in Dangerous /\ tokens'[k.token].op = k.op
              /\ \A l \in cards' : l.token = k.token => l = k
        <5>1. \A k \in cards : k.token # NoToken => k.token \in Token /\ tokens'[k.token] = tokens[k.token]
          BY <4>1, <4>3, <4>4, <3>3 DEF Card
        <5>2. ASSUME NEW k \in cards', k.token # NoToken
              PROVE  k.op \in Dangerous /\ tokens'[k.token].op = k.op
          BY <3>3, <4>2, <4>4, <5>1, <5>2 DEF Marked
        <5>3. ASSUME NEW k \in cards', k.token # NoToken, NEW l \in cards', l.token = k.token
              PROVE  l = k
          BY <4>1, <4>2, <4>4, <5>3 DEF Marked
        <5> QED BY <5>2, <5>3
      <4>6. \A d \in Callback : calls'[d] # NoCall => calls'[d].card \in cards'
        BY <2>0, <3>3 DEF Marked
      <4>7. \A t \in Token : runs'[t] > 0 => tokens'[t].op # "unused"
        BY <2>1, <4>2, <4>3 DEF Confirm, Marked
      <4> QED BY <4>5, <4>6, <4>7 DEF Marked
    <3> QED BY <2>1, <3>2, <3>3 DEF Confirm
  <2>2. CASE Execute(c)
    <3>1. calls[c] # NoCall /\ calls[c].card \in cards /\ calls[c].card \in Card
      BY <2>2, GoingFacts DEF Execute, Stands, Marked
    <3>2. \A t \in Token : runs'[t] # runs[t] => t = RunOf(c)
      BY <2>2 DEF Execute, NotifyTypeOK
    <3>3. \A t \in Token : t = RunOf(c) => tokens[t].op # "unused"
      BY <3>1, Presented, NotifyConstants DEF RunOf, Card
    <3> QED BY <2>0, <2>2, <3>2, <3>3 DEF Execute, Marked
  <2>3. CASE Consume(c)
    <3>1. \A t \in Token : tokens'[t].op = tokens[t].op
      BY <2>3 DEF Consume, NotifyTypeOK
    <3>2. \A k \in cards : k \in Card
      BY DEF NotifyTypeOK
    <3> QED BY <2>0, <2>3, <3>1, <3>2 DEF Consume, Marked, Card
  <2>4. CASE Refuse(c) \/ CheckAntiReplay(c) \/ Guard(c) \/ Finish(c) \/ Drop(c)
    <3>1. UNCHANGED <<tokens, cards, runs>>
      BY <2>4 DEF Refuse, CheckAntiReplay, Guard, Finish, Drop
    <3> QED BY <2>0, <3>1 DEF Marked
  <2> QED BY <1>3, <2>1, <2>2, <2>3, <2>4 DEF Handle
<1>4. CASE Tick
  <2>1. \A t \in Token : tokens'[t].op = tokens[t].op
    BY <1>4 DEF Tick, NotifyTypeOK
  <2>2. \A c \in Callback : calls'[c] # NoCall => calls[c] # NoCall /\ calls'[c].card = calls[c].card
    BY <1>4 DEF Tick, NotifyTypeOK, Going
  <2>3. \A k \in cards : k \in Card
    BY DEF NotifyTypeOK
  <2> QED BY <1>4, <2>1, <2>2, <2>3 DEF Tick, Marked, Card
<1>5. CASE Surroundings \/ UNCHANGED nvars
  BY <1>5 DEF Surroundings, nvars, Marked
<1> QED BY <1>1, <1>2, <1>3, <1>4, <1>5 DEF NotifyNext

\* What a handler's step leaves of the other handlers, and of itself.
LEMMA HandlerMoves ==
  ASSUME NotifyTypeOK, NEW c \in Callback, calls[c] # NoCall,
         End(c) \/ \E step \in {"confirm", "consume", "guard", "execute", "SUCCESS", "FAILED"} : GoTo(c, step)
  PROVE  /\ \A d \in Callback : d # c => calls'[d] = calls[d]
         /\ calls'[c] # NoCall => calls'[c].card = calls[c].card
         /\ End(c) => calls'[c] = NoCall
         /\ \A step : GoTo(c, step) => calls'[c].step = step
<1>1. calls[c] \in Going
  BY GoingFacts
<1> QED BY <1>1 DEF End, GoTo, NotifyTypeOK, Going

\* A step that moves a handler and ends it, or leaves the keys and runs as they were
\* and it no nearer to its run than it was, keeps the word of every token.
LEMMA SpentByMove ==
  ASSUME NotifyTypeOK, NEW c \in Callback, NEW t \in Token, Spent(t),
         \A d \in Callback : d # c => calls'[d] = calls[d],
         c \in Armed(t)' => c \in Armed(t),
         UNCHANGED <<tokens, prints, cards, runs>>
  PROVE  Spent(t)'
<1>1. Armed(t)' \subseteq Armed(t)
  BY DEF Armed
<1> QED BY <1>1, SpentKept

\* A click gets past its fingerprint only while no run of its token is open or done.
LEMMA SpentByReplay ==
  ASSUME NotifyTypeOK, Marked, NEW c \in Callback, NEW t \in Token, Spent(t), CheckAntiReplay(c)
  PROVE  Spent(t)'
<1> DEFINE k == calls[c].card
<1>1. calls[c] \in Going /\ k \in Card /\ k \in cards /\ calls[c] # NoCall
  BY GoingFacts DEF CheckAntiReplay, Stands, Marked
<1>2. c \notin Armed(t)
  BY DEF CheckAntiReplay, Stands, Armed
<1>3. CASE End(c) /\ UNCHANGED prints
  <2>1. c \notin Armed(t)'
    BY <1>1, <1>3, HandlerMoves DEF Armed
  <2> QED BY <1>1, <1>3, <2>1, HandlerMoves, SpentByMove DEF CheckAntiReplay
<1>4. CASE prints[FingerOf(k)] = 0 /\ prints' = [prints EXCEPT ![FingerOf(k)] = ReplayTtl] /\ GoTo(c, "confirm")
  <2>1. /\ \A d \in Callback : d # c => calls'[d] = calls[d]
        /\ calls'[c].step = "confirm" /\ calls'[c].card = k
    BY <1>1, <1>4, HandlerMoves DEF GoTo, NotifyTypeOK, Going
  <2>2. UNCHANGED <<tokens, cards, runs>>
    BY DEF CheckAntiReplay
  <2>3. \A f \in Finger : prints[f] \in 0..ReplayTtl /\ prints'[f] = IF f = FingerOf(k) THEN ReplayTtl ELSE prints[f]
    BY <1>4 DEF NotifyTypeOK
  <2>4. \A f \in Finger : prints[f] <= prints'[f]
    BY <2>3, NotifyConstants
  <2>5. tokens[t].left \in 0..ConfirmTtl
    BY DEF NotifyTypeOK
  <2>6. \A l \in cards : FingerOf(l) \in Finger
    BY CardFacts DEF NotifyTypeOK
  <2>7. CASE Passed(k) # t \/ tokens[t].left = 0
    <3>1. Armed(t)' \subseteq Armed(t)
      BY <2>1, <2>2, <2>5, <2>7 DEF Armed
    <3>2. \A l \in cards : tokens[t].left <= prints[FingerOf(l)] => tokens[t].left <= prints'[FingerOf(l)]
      BY <2>3, <2>4, <2>5, <2>6, NotifyConstants
    <3> QED BY <2>2, <3>1, <3>2, SpentKept
  <2>8. CASE Passed(k) = t /\ tokens[t].left > 0
    <3>1. ~(tokens[t].left <= prints[FingerOf(k)])
      BY <1>4, <2>5, <2>8
    <3>2. runs[t] = 0 /\ Armed(t) = {}
      BY <1>1, <2>8, <3>1 DEF Spent, NotifyTypeOK
    <3>3. Armed(t)' \subseteq {c}
      BY <2>1, <2>2, <3>2 DEF Armed
    <3>4. \A l \in cards : Passed(l) = t => l = k
      BY <1>1, <2>8, Presented
    <3>5. tokens[t].left <= prints'[FingerOf(k)]
      BY <1>1, <2>3, <2>5, <2>6, NotifyConstants
    <3> QED BY <2>2, <3>2, <3>3, <3>4, <3>5 DEF Spent
  <2> QED BY <2>5, <2>7, <2>8
<1> QED BY <1>3, <1>4 DEF CheckAntiReplay, MayPass

\* The first click makes a token that nobody has shown; the second spends the
\* chance it was given.
LEMMA SpentByConfirm ==
  ASSUME NotifyTypeOK, Marked, NEW c \in Callback, NEW t \in Token, Spent(t), Confirm(c)
  PROVE  Spent(t)'
<1> DEFINE k == calls[c].card
<1>1. calls[c] \in Going /\ k \in Card /\ k \in cards /\ calls[c] # NoCall
  BY GoingFacts DEF Confirm, Stands, Marked
<1>2. \A l \in cards : l \in Card
  BY DEF NotifyTypeOK
<1>3. CASE k.op \notin Dangerous /\ GoTo(c, "guard") /\ UNCHANGED <<tokens, cards>>
  <2>1. Passed(k) # t
    BY <1>1, <1>3, Presented
  <2>2. c \notin Armed(t)'
    BY <1>1, <1>3, <2>1, HandlerMoves DEF Armed
  <2> QED BY <1>1, <1>3, <2>2, HandlerMoves, SpentByMove DEF Confirm
<1>4. ASSUME NEW new \in Token, tokens[new].op = "unused", End(c),
             tokens' = [tokens EXCEPT ![new] = [op |-> k.op, left |-> ConfirmTtl]],
             cards' = cards \cup {SecondCard(k, new)}
      PROVE  Spent(t)'
  <2>1. calls'[c] = NoCall /\ \A d \in Callback : d # c => calls'[d] = calls[d]
    BY <1>1, <1>4, HandlerMoves
  <2>2. \A l \in cards : Passed(l) # new
    BY <1>2, <1>4, Presented, NotifyConstants DEF Card
  <2>3. CASE t = new
    <3>1. runs[t] = 0
      BY <1>4, <2>3 DEF Marked, NotifyTypeOK
    <3>2. Armed(t)' = {}
      BY <2>1, <2>2, <2>3 DEF Armed, Marked
    <3> QED BY <3>1, <3>2 DEF Spent, Confirm
  <2>4. CASE t # new
    <3>1. tokens'[t] = tokens[t]
      BY <1>4, <2>4 DEF NotifyTypeOK
    <3>2. Armed(t)' \subseteq Armed(t)
      BY <2>1, <3>1 DEF Armed
    <3>3. Passed(SecondCard(k, new)) # t
      BY <2>4, NotifyConstants DEF Passed, SecondCard
    <3>4. UNCHANGED <<prints, runs>>
      BY DEF Confirm
    <3> QED BY <1>4, <3>1, <3>2, <3>3, <3>4, SpentKept
  <2> QED BY <2>3, <2>4
<1>5. CASE /\ IF tokens[Passed(k)].left > 0 /\ tokens[Passed(k)].op = k.op THEN GoTo(c, "consume") ELSE End(c)
           /\ UNCHANGED <<tokens, cards>>
  <2>1. c \in Armed(t)' => Passed(k) = t /\ tokens[t].left > 0
    BY <1>1, <1>5, HandlerMoves DEF Armed
  <2>2. c \in Armed(t)' => c \in Armed(t)
    BY <1>1, <2>1 DEF Armed, Confirm, Stands
  <2> QED BY <1>1, <1>5, <2>2, HandlerMoves, SpentByMove DEF Confirm
<1> QED BY <1>3, <1>4, <1>5 DEF Confirm

\* The run itself.
LEMMA SpentByRun ==
  ASSUME NotifyTypeOK, NEW c \in Callback, NEW t \in Token, Spent(t), Execute(c)
  PROVE  Spent(t)'
<1>1. calls[c] \in Going /\ calls[c] # NoCall
  BY GoingFacts DEF Execute, Stands
<1>2. /\ \A d \in Callback : d # c => calls'[d] = calls[d]
      /\ calls'[c].step \in {"SUCCESS", "FAILED"}
  BY <1>1, HandlerMoves DEF Execute
<1>3. UNCHANGED <<tokens, prints, cards>>
  BY DEF Execute
<1>4. c \notin Armed(t)'
  BY <1>2 DEF Armed
<1>5. CASE runs'[t] = runs[t]
  <2>1. Armed(t)' \subseteq Armed(t)
    BY <1>2, <1>3, <1>4 DEF Armed
  <2> QED BY <1>3, <1>5, <2>1, SpentKept
<1>6. CASE runs'[t] # runs[t]
  <2>1. RunOf(c) = t /\ runs'[t] = runs[t] + 1
    BY <1>6 DEF Execute, NotifyTypeOK
  <2>2. c \in Armed(t)
    BY <1>1, <2>1 DEF Armed, Execute, Stands, RunOf
  <2>3. runs[t] = 0 /\ \A d \in Armed(t) : d = c
    BY <2>2 DEF Spent, NotifyTypeOK
  <2>4. Armed(t)' = {}
    BY <1>2, <1>3, <1>4, <2>3 DEF Armed
  <2> QED BY <1>3, <2>1, <2>2, <2>3, <2>4 DEF Spent
<1> QED BY <1>5, <1>6

\* A handler's step keeps the word of every token.
LEMMA SpentByHandler ==
  ASSUME NotifyTypeOK, Marked, NEW c \in Callback, NEW t \in Token, Spent(t), Handle(c)
  PROVE  Spent(t)'
<1>1. CASE CheckAntiReplay(c)
  BY <1>1, SpentByReplay
<1>2. CASE Confirm(c)
  BY <1>2, SpentByConfirm
<1>3. CASE Execute(c)
  BY <1>3, SpentByRun
<1>4. CASE Consume(c)
  <2>1. calls[c] \in Going /\ calls[c] # NoCall
    BY <1>4, GoingFacts DEF Consume, Stands
  <2>2. /\ \A d \in Callback : d # c => calls'[d] = calls[d]
        /\ calls'[c].card = calls[c].card
    BY <1>4, <2>1, HandlerMoves DEF Consume, GoTo, NotifyTypeOK, Going
  <2>3. tokens'[t] = tokens[t] \/ tokens'[t].left = 0
    <3>1. PICK x : x = Passed(calls[c].card)
      OBVIOUS
    <3>2. tokens' = [tokens EXCEPT ![x].left = 0]
      BY <1>4, <3>1 DEF Consume
    <3> QED BY <3>2 DEF NotifyTypeOK
  <2>4. tokens[t].left \in Nat /\ \A k \in cards : prints[FingerOf(k)] \in Nat
    BY CardFacts DEF NotifyTypeOK
  <2>5. Armed(t)' \subseteq Armed(t)
    BY <1>4, <2>1, <2>2, <2>3 DEF Armed, Consume, Stands
  <2> QED BY <1>4, <2>3, <2>4, <2>5, SpentKept DEF Consume
<1>5. CASE Guard(c)
  <2>1. calls[c] # NoCall
    BY <1>5 DEF Guard, Stands
  <2>2. c \in Armed(t)' => c \in Armed(t)
    BY <1>5, <2>1, HandlerMoves DEF Guard, Stands, Armed
  <2> QED BY <1>5, <2>1, <2>2, HandlerMoves, SpentByMove DEF Guard
<1>6. CASE Refuse(c) \/ Finish(c) \/ Drop(c)
  <2>1. calls[c] # NoCall /\ End(c) /\ UNCHANGED <<tokens, prints, cards, runs>>
    BY <1>6 DEF Refuse, Finish, Drop, Stands
  <2>2. c \notin Armed(t)'
    BY <2>1, HandlerMoves DEF Armed
  <2> QED BY <2>1, <2>2, HandlerMoves, SpentByMove
<1> QED BY <1>1, <1>2, <1>3, <1>4, <1>5, <1>6 DEF Handle

\* A token ages no slower than its fingerprint.
LEMMA SpentByTime ==
  ASSUME NotifyTypeOK, NEW t \in Token, Spent(t), Tick
  PROVE  Spent(t)'
<1>1. \A c \in Callback : calls'[c] # NoCall =>
        calls[c] # NoCall /\ calls'[c].card = calls[c].card /\ calls'[c].step = calls[c].step
  BY DEF Tick, NotifyTypeOK, Going
<1>2. tokens'[t].left = Age(tokens[t].left) /\ \A f \in Finger : prints'[f] = Age(prints[f])
  BY DEF Tick, NotifyTypeOK
<1>3. \A x, y \in Nat : (x <= y => Age(x) <= Age(y)) /\ (Age(x) > 0 => x > 0)
  BY DEF Age
<1>4. tokens[t].left \in Nat /\ \A k \in cards : FingerOf(k) \in Finger /\ prints[FingerOf(k)] \in Nat
  BY CardFacts DEF NotifyTypeOK
<1>5. Armed(t)' \subseteq Armed(t)
  BY <1>1, <1>2, <1>3, <1>4 DEF Armed
<1> QED BY <1>2, <1>3, <1>4, <1>5, SpentKept DEF Tick

\* Every step keeps the invariant.
LEMMA NotifyHolds == NotifyInv /\ [NotifyNext]_nvars => NotifyInv'
<1> SUFFICES ASSUME NotifyInv, [NotifyNext]_nvars PROVE NotifyInv'
  OBVIOUS
<1>1. NotifyTypeOK /\ Marked /\ NotifyTypeOK' /\ Marked'
  BY NotifyTypes, MarkedKept DEF NotifyInv
<1>2. ASSUME NEW t \in Token PROVE Spent(t)'
  <2>1. Spent(t)
    BY DEF NotifyInv
  <2>2. ASSUME NEW a \in Alert, Post(a) PROVE Spent(t)'
    <3>1. \A k \in cards' : k \in cards \/ Passed(k) # t
      BY <2>2, NotifyConstants DEF Post, Passed
    <3>2. Armed(t)' = Armed(t)
      BY <2>2 DEF Post, Armed
    <3> QED BY <2>1, <2>2, <3>1, <3>2, SpentKept DEF Post
  <2>3. ASSUME NEW c \in Callback, NEW k \in cards, Click(c, k) PROVE Spent(t)'
    <3>1. c \notin Armed(t)' /\ \A d \in Callback : d # c => calls'[d] = calls[d]
      BY <1>1, <2>3 DEF Click, NotifyTypeOK, Armed
    <3> QED BY <1>1, <2>1, <2>3, <3>1, SpentByMove DEF Click
  <2>4. ASSUME NEW c \in Callback, Handle(c) PROVE Spent(t)'
    BY <1>1, <2>1, <2>4, SpentByHandler
  <2>5. CASE Tick
    BY <1>1, <2>1, <2>5, SpentByTime
  <2>6. CASE Surroundings \/ UNCHANGED nvars
    <3>1. UNCHANGED <<tokens, prints, cards, calls, runs>>
      BY <2>6 DEF Surroundings, nvars
    <3>2. Armed(t)' = Armed(t)
      BY <3>1 DEF Armed
    <3> QED BY <2>1, <3>1, <3>2, SpentKept
  <2> QED BY <2>2, <2>3, <2>4, <2>5, <2>6 DEF NotifyNext
<1> QED BY <1>1, <1>2 DEF NotifyInv

\* Nothing is clicked yet.
LEMMA NotifyStarts == NotifyInit => NotifyInv
<1> SUFFICES ASSUME NotifyInit PROVE NotifyInv
  OBVIOUS
<1>1. NotifyTypeOK
  <2>1. dedup \in [Alert -> 0..DedupTtl] /\ prints \in [Finger -> 0..ReplayTtl]
    BY NotifyConstants DEF NotifyInit
  <2>2. tokens \in [Token -> [op : Operation \cup {"unused"}, left : 0..ConfirmTtl]]
    BY NotifyConstants DEF NotifyInit
  <2>3. calls \in [Callback -> {NoCall} \cup Going] /\ cards \subseteq Card
    BY DEF NotifyInit
  <2>4. ledger \in [Token -> {"none", "EXECUTING", "SUCCESS", "FAILED"}] /\ open \in BOOLEAN
    BY DEF NotifyInit
  <2>5. runs \in [Token -> Nat]
    BY DEF NotifyInit
  <2> QED BY <2>1, <2>2, <2>3, <2>4, <2>5 DEF NotifyTypeOK
<1>2. Marked
  BY DEF NotifyInit, Marked
<1>3. \A t \in Token : Spent(t)
  BY DEF NotifyInit, Spent, Armed
<1> QED BY <1>1, <1>2, <1>3 DEF NotifyInv

\* The invariant holds from the start and in every step.
LEMMA NotifyInvariant == NotifySpec => []NotifyInv
BY NotifyStarts, NotifyHolds, PTL DEF NotifySpec

\* However many callbacks interleave, expire or die on the way, the platform runs the
\* operation of a confirmation token at most once (action_validator.py: layers 4 and 5).
THEOREM ClickIsWorthOneRun == NotifySpec => []OneRunPerToken
<1>1. NotifyInv => OneRunPerToken
  BY DEF NotifyInv, Spent, OneRunPerToken
<1> QED BY <1>1, NotifyInvariant, PTL

-----------------------------------------------------------------------------
(* RobotWire: what the two readers of a robot's record make of it.         *)

\* Only a report of a free robot leaves a state in the record for which the worker
\* picks a robot.  (Two writers share the field: reports and connection messages.)
EligibleIsFree == \A r \in Robot : Eligible(record[r].state) => heard[r] = "free"

\* While a report was the last thing the monitor was told, the record's state is the
\* one of the report beside it.
StateIsOfReport ==
  \A r \in Robot : record[r].raw # Silent /\ heard[r] # "word" =>
    record[r].state = VehicleState(record[r].raw)

\* Only a MiR says that it waits.
OnlyMirWaits ==
  \A r \in Robot : /\ robot[r].waiting => brand[r] = "mir"
                   /\ record[r].raw # Silent /\ record[r].raw.waiting => brand[r] = "mir"

\* A drive that was shown has put the count of the waits back.
DriveResets == \A r \in Robot : shown[r].drove => waits[r] = 0

WireInv == WireTypeOK /\ EligibleIsFree /\ StateIsOfReport /\ OnlyMirWaits /\ DriveResets

-----------------------------------------------------------------------------
\* What WireAssumption says, one constant at a time.
LEMMA WireConstants ==
  /\ BrandTried \subseteq Brand /\ Waits \in BOOLEAN
  /\ Silent \notin Message /\ Silent \notin Words
  /\ MaxOrders \in Nat /\ MaxWireFaults \in Nat /\ MaxKept \in Nat
BY WireAssumption DEF Words

\* The state that the monitor writes for a report is one of VehicleStates, and the
\* worker takes it only if the report is of a free robot.
LEMMA VehicleStateIs ==
  ASSUME NEW m \in Message
  PROVE  /\ VehicleState(m) \in VehicleStates
         /\ Eligible(VehicleState(m)) => FreeByReport(m)
BY DEF Message, VehicleState, VehicleStates, Eligible, FreeByReport

\* The word of a robot that has words of its own is one that its strategy maps.
LEMMA WordStatusIs ==
  ASSUME NEW m \in Message
  PROVE  /\ WordStatus(Word(m)) \in {"EXECUTING", "UNKNOWN"} \cup VehicleStates
         /\ m.fatal => WordStatus(Word(m)) = "ERROR"
         /\ ~m.fatal /\ ~m.manual /\ ~m.paused /\ ~m.charging /\ m.driving =>
              WordStatus(Word(m)) = "MOVING"
BY DEF Message, WordStatus, Word, VehicleStates

\* The same of a robot that speaks VDA5050.
LEMMA VdaStatusIs ==
  ASSUME NEW m \in Message
  PROVE  /\ VdaStatus(m) \in {"EXECUTING", "UNKNOWN"} \cup VehicleStates
         /\ m.fatal => VdaStatus(m) = "ERROR"
         /\ ~m.fatal /\ ~m.manual /\ ~m.paused /\ m.driving => VdaStatus(m) = "MOVING"
BY DEF Message, VdaStatus, Unfit, UnfitStatus, AtWork, VehicleStates

\* For every brand: a fault is ERROR, a drive without a hindrance is MOVING.
LEMMA StatusIs ==
  ASSUME NEW b \in Brand, NEW m \in Message, NEW n \in Nat
  PROVE  /\ Status(b, m, n) \in {"EXECUTING", "UNKNOWN"} \cup VehicleStates
         /\ m.fatal => Status(b, m, n) = "ERROR"
         /\ ~m.fatal /\ ~m.manual /\ ~m.paused /\ ~m.charging /\ ~m.low /\ m.driving =>
              Status(b, m, n) = "MOVING"
<1>0. /\ m.fatal \in BOOLEAN /\ m.manual \in BOOLEAN /\ m.driving \in BOOLEAN
      /\ m.charging \in BOOLEAN /\ m.low \in BOOLEAN /\ m.waiting \in BOOLEAN
      /\ m.paused \in BOOLEAN
  BY DEF Message
<1>m. CASE b = "mir"
  <2>1. Status(b, m, n) = MirStatus(m, n)
    BY <1>m DEF Status
  <2> QED BY <1>0, <2>1, VdaStatusIs DEF MirStatus, Unfit, VehicleStates
<1>o. CASE b = "otto"
  <2>1. Status(b, m, n) = OttoStatus(m)
    BY <1>o DEF Status
  <2> QED BY <1>0, <2>1, VdaStatusIs DEF OttoStatus, Unfit, VehicleStates
<1>k. CASE b = "kuka"
  <2>1. Status(b, m, n) = KukaStatus(m)
    BY <1>k DEF Status
  <2> QED BY <1>0, <2>1, VdaStatusIs DEF KukaStatus, Unfit, VehicleStates
<1>v. CASE b \in {"geekplus", "hairobotics", "quicktron"}
  <2>1. Status(b, m, n) = VdaStatus(m)
    BY <1>v DEF Status, GeekPlusStatus, HaiRoboticsStatus, QuicktronStatus
  <2> QED BY <1>0, <2>1, VdaStatusIs
<1>w. CASE b \in {"iop", "haiq", "proprietary"}
  <2>1. Status(b, m, n) = WordStatus(Word(m))
    BY <1>w DEF Status, GeekPlusStatus, HaiRoboticsStatus, QuicktronStatus
  <2> QED BY <1>0, <2>1, WordStatusIs
<1> QED BY <1>m, <1>o, <1>k, <1>v, <1>w DEF Brand, Vda, Own

\* The count of MiR's waits: a drive puts it back, the first wait after one is counted
\* and not enough.
LEMMA NextCountIs ==
  ASSUME NEW m \in Message, NEW n \in Nat
  PROVE  /\ NextCount(m, n) \in Nat
         /\ m.driving /\ ~m.paused => NextCount(m, n) = 0
         /\ n = 0 => NextCount(m, n) < WaitingGrace
BY DEF Message, NextCount, WaitingGrace

\* What a robot does with an order or a command leaves it a robot, and does not make
\* it wait.
LEMMA DoesIs ==
  ASSUME NEW m \in Message, NEW a \in RobotAction
  PROVE  /\ Does(m, a) \in Message /\ Does(m, a).waiting = m.waiting
         /\ Ordered(m) \in Message /\ Ordered(m).waiting = m.waiting
BY DEF Message, Does, Ordered, RobotAction

\* Every command of the core is an action that a robot knows, or passes over.
LEMMA SentIs == \A c \in CoreAction : Sent(c) \in RobotAction
BY DEF Sent, CoreAction, RobotAction

\* The modes of the core.
LEMMA CoreModeIs ==
  ASSUME NEW b \in Brand, NEW m \in Message
  PROVE  CoreMode(b, m) \in {"IDLE", "TASKING", "CHARGING", "ERROR"}
<1>m. CASE b \in {"mir", "otto", "kuka"}
  BY <1>m DEF CoreMode, MirMode, OttoMode, KukaMode, OperatingMode
<1>v. CASE b \in {"geekplus", "iop", "hairobotics", "haiq", "quicktron", "proprietary"}
  <2>1. CoreMode(b, m) \in {GeekPlusMode(m), HaiRoboticsMode(m), QuicktronMode(m)}
    BY <1>v DEF CoreMode
  <2> HIDE <1>v
  <2>2. Word(m) \in {"ERROR", "MANUAL", "PAUSED", "CHARGING", "MOVING", "WORKING", "WAITING", "IDLE"}
    BY DEF Word, Message
  <2>3. GeekPlusMode(m) \in {"IDLE", "TASKING", "CHARGING", "ERROR"}
    BY <2>2 DEF GeekPlusMode
  <2>4. HaiRoboticsMode(m) \in {"IDLE", "TASKING", "CHARGING", "ERROR"}
    BY <2>2 DEF HaiRoboticsMode, OperatingMode
  <2>5. QuicktronMode(m) \in {"IDLE", "TASKING", "CHARGING", "ERROR"}
    BY <2>2 DEF QuicktronMode, OperatingMode
  <2> QED BY <2>1, <2>3, <2>4, <2>5
<1> QED BY <1>m, <1>v DEF Brand, Vda, Own

\* Both ways to tell the monitor something keep the types.
LEMMA TellWordTypes ==
  ASSUME WireTypeOK, NEW r \in Robot, NEW w \in Words, TellWord(r, w)
  PROVE  /\ word' \in [Robot -> Words \cup {Silent}]
         /\ record' \in [Robot -> Record]
         /\ heard' \in [Robot -> {Silent, "word", "free", "busy"}]
         /\ online' \in [Robot -> BOOLEAN]
<1>1. [record[r] EXCEPT !.state = w] \in Record
  <2>1. record[r] \in Record
    BY DEF WireTypeOK
  <2> QED BY <2>1 DEF Record
<1>2. record' \in [Robot -> Record]
  BY <1>1 DEF WireTypeOK, TellWord, Connection
<1> QED BY <1>2 DEF WireTypeOK, TellWord

\* A report, told to the monitor and the gateway, keeps the types.
LEMMA TellStateTypes ==
  ASSUME WireTypeOK, NEW r \in Robot, TellState(r)
  PROVE  /\ record' \in [Robot -> Record]
         /\ heard' \in [Robot -> {Silent, "word", "free", "busy"}]
         /\ core' \in [Robot -> {Silent, "IDLE", "TASKING", "CHARGING", "ERROR"}]
<1>0. robot[r] \in Message /\ brand[r] \in Brand
  BY DEF WireTypeOK
<1>1. StateRecord(robot[r]) \in Record
  BY <1>0, VehicleStateIs DEF StateRecord, Record
<1>2. record' \in [Robot -> Record]
  BY <1>1 DEF WireTypeOK, TellState
<1>3. CoreMode(brand[r], robot[r]) \in {"IDLE", "TASKING", "CHARGING", "ERROR"}
  BY <1>0, CoreModeIs
<1>4. core' \in [Robot -> {Silent, "IDLE", "TASKING", "CHARGING", "ERROR"}]
  BY <1>3 DEF WireTypeOK, TellState
<1> QED BY <1>2, <1>4 DEF WireTypeOK, TellState

\* A report with a fact changed is a report, and waits as before if that is not the fact.
LEMMA Changed ==
  ASSUME NEW m \in Message, NEW b \in BOOLEAN
  PROVE  /\ [m EXCEPT !.paused = b] \in Message /\ [m EXCEPT !.paused = b].waiting = m.waiting
         /\ [m EXCEPT !.fatal = b] \in Message /\ [m EXCEPT !.fatal = b].waiting = m.waiting
         /\ [m EXCEPT !.manual = b] \in Message /\ [m EXCEPT !.manual = b].waiting = m.waiting
         /\ [m EXCEPT !.acting = b] \in Message /\ [m EXCEPT !.acting = b].waiting = m.waiting
         /\ [m EXCEPT !.low = b] \in Message /\ [m EXCEPT !.low = b].waiting = m.waiting
         /\ [m EXCEPT !.charging = b] \in Message /\ [m EXCEPT !.charging = b].waiting = m.waiting
         /\ [m EXCEPT !.waiting = b] \in Message
BY DEF Message

\* The same of two facts, which a robot changes when it stops.
LEMMA Stopped ==
  ASSUME NEW m \in Message, NEW b \in BOOLEAN
  PROVE  /\ [m EXCEPT !.driving = FALSE, !.charging = b] \in Message
         /\ [m EXCEPT !.driving = FALSE, !.charging = b].waiting = m.waiting
         /\ [m EXCEPT !.driving = FALSE, !.waiting = b] \in Message
BY DEF Message

\* What a robot does on its own: it changes its report, and only a MiR says it waits.
LEMMA WorkIs ==
  ASSUME WireTypeOK, NEW r \in Robot, Work(r) \/ Trouble(r)
  PROVE  \E m \in Message : /\ robot' = [robot EXCEPT ![r] = m]
                            /\ brand[r] = "mir" \/ m.waiting = robot[r].waiting
<1>0. robot[r] \in Message /\ Waits \in BOOLEAN
  BY WireConstants DEF WireTypeOK
<1>2. CASE MirWork(r)
  <2>1. CASE robot' = [robot EXCEPT ![r] = [robot[r] EXCEPT !.driving = FALSE, !.waiting = Waits]]
    <3>1. brand[r] = "mir"
      BY <1>2 DEF MirWork
    <3> QED BY <1>0, <2>1, <3>1, Stopped
  <2>2. CASE robot' = [robot EXCEPT ![r] = [robot[r] EXCEPT !.waiting = FALSE]]
    <3>1. brand[r] = "mir"
      BY <1>2 DEF MirWork
    <3> QED BY <1>0, <2>2, <3>1, Changed
  <2> QED BY <1>2, <2>1, <2>2 DEF MirWork, Becomes
<1>3. CASE OttoWork(r)
  <2>1. PICK m \in {[robot[r] EXCEPT !.driving = FALSE, !.charging = TRUE],
                    [robot[r] EXCEPT !.charging = FALSE]} : robot' = [robot EXCEPT ![r] = m]
    BY <1>3 DEF OttoWork, Becomes
  <2>2. CASE m = [robot[r] EXCEPT !.driving = FALSE, !.charging = TRUE]
    <3>1. m \in Message /\ m.waiting = robot[r].waiting
      BY <1>0, <2>2, Stopped
    <3> QED BY <2>1, <3>1
  <2>3. CASE m = [robot[r] EXCEPT !.charging = FALSE]
    <3>1. m \in Message /\ m.waiting = robot[r].waiting
      BY <1>0, <2>3, Changed
    <3> QED BY <2>1, <3>1
  <2> QED BY <2>1, <2>2, <2>3
<1>4. CASE KukaWork(r)
  <2>1. PICK a \in BOOLEAN : robot' = [robot EXCEPT ![r] = [robot[r] EXCEPT !.acting = a]]
    BY <1>4 DEF KukaWork, Becomes
  <2>2. /\ [robot[r] EXCEPT !.acting = a] \in Message
        /\ [robot[r] EXCEPT !.acting = a].waiting = robot[r].waiting
    BY <1>0, <2>1, Changed
  <2> QED BY <2>1, <2>2
<1>5. CASE Trouble(r)
  <2> DEFINE Told(b) == {[robot[r] EXCEPT !.fatal = b], [robot[r] EXCEPT !.manual = b],
                         [robot[r] EXCEPT !.low = b], [robot[r] EXCEPT !.paused = b]}
  <2>1. PICK b \in BOOLEAN : \E m \in Told(b) : robot' = [robot EXCEPT ![r] = m]
    BY <1>5 DEF Trouble, Becomes
  <2>2. /\ [robot[r] EXCEPT !.fatal = b] \in Message /\ [robot[r] EXCEPT !.manual = b] \in Message
        /\ [robot[r] EXCEPT !.low = b] \in Message /\ [robot[r] EXCEPT !.paused = b] \in Message
    BY <1>0, <2>1, Changed, Zenon
  <2>3. /\ [robot[r] EXCEPT !.fatal = b].waiting = robot[r].waiting
        /\ [robot[r] EXCEPT !.manual = b].waiting = robot[r].waiting
        /\ [robot[r] EXCEPT !.low = b].waiting = robot[r].waiting
        /\ [robot[r] EXCEPT !.paused = b].waiting = robot[r].waiting
    BY <1>0, <2>1, Changed, Zenon
  <2>4. \A m \in Told(b) : m \in Message /\ m.waiting = robot[r].waiting
    BY <2>2, <2>3, Zenon
  <2> HIDE DEF Told
  <2> QED BY <2>1, <2>4
<1> QED BY <1>2, <1>3, <1>4, <1>5 DEF Work

\* Every step keeps the types.
LEMMA WireTypes == WireTypeOK /\ [WireNext]_wvars => WireTypeOK'
<1> SUFFICES ASSUME WireTypeOK, [WireNext]_wvars PROVE WireTypeOK'
  OBVIOUS
<1> USE WireConstants
<1>1. ASSUME NEW r \in Robot, Start(r) PROVE WireTypeOK'
  <2>1. TellWord(r, "ONLINE") /\ "ONLINE" \in Words
    BY <1>1 DEF Start, Words
  <2> QED BY <1>1, <2>1, TellWordTypes DEF Start, WireTypeOK
<1>2. ASSUME NEW r \in Robot, Report(r) PROVE WireTypeOK'
  BY <1>2, TellStateTypes DEF Report, WireTypeOK
<1>3. ASSUME NEW r \in Robot, Stop(r) PROVE WireTypeOK'
  <2>1. TellWord(r, "OFFLINE") /\ "OFFLINE" \in Words
    BY <1>3 DEF Stop, Words
  <2> QED BY <1>3, <2>1, TellWordTypes DEF Stop, WireTypeOK
<1>4. ASSUME NEW r \in Robot, Break(r) PROVE WireTypeOK'
  <2>1. TellWord(r, "CONNECTIONBROKEN") /\ "CONNECTIONBROKEN" \in Words
    BY <1>4 DEF Break, Words
  <2> QED BY <1>4, <2>1, TellWordTypes DEF Break, WireTypeOK
<1>5. ASSUME NEW r \in Robot, Work(r) \/ Trouble(r) PROVE WireTypeOK'
  <2>1. PICK m \in Message : robot' = [robot EXCEPT ![r] = m]
    BY <1>5, WorkIs
  <2>2. robot' \in [Robot -> Message]
    BY <2>1 DEF WireTypeOK
  <2>3. UNCHANGED <<brand, run, word, record, waits, shown, core, online, late, heard,
                    monitor, gateway, orders>>
    BY <1>5 DEF Work, MirWork, OttoWork, KukaWork, Trouble, Becomes
  <2>4. wireFaults' \in 0..MaxWireFaults
    BY <1>5 DEF Work, Trouble, WireTypeOK
  <2> QED BY <2>2, <2>3, <2>4 DEF WireTypeOK
<1>6. ASSUME NEW r \in Robot, Pick(r) \/ Dispatch(r) PROVE WireTypeOK'
  <2>1. Ordered(robot[r]) \in Message
    BY DoesIs DEF WireTypeOK, RobotAction
  <2>2. robot' = [robot EXCEPT ![r] = Ordered(robot[r])] \/ robot' = robot
    BY <1>6 DEF Pick, Dispatch, Reached
  <2>3. robot' \in [Robot -> Message]
    BY <2>1, <2>2 DEF WireTypeOK
  <2>4. orders' \in 0..MaxOrders
    BY <1>6 DEF Pick, Dispatch, WireTypeOK
  <2> QED BY <1>6, <2>3, <2>4 DEF Pick, Dispatch, WireTypeOK
<1>7. ASSUME NEW r \in Robot, Page(r) PROVE WireTypeOK'
  <2> DEFINE m == record[r].raw
  <2>0. record[r] \in Record /\ brand[r] \in Brand /\ waits[r] \in Nat
    BY DEF WireTypeOK
  <2>1. CASE m = Silent
    <3>1. [status |-> record[r].state, drove |-> FALSE] \in Answer
      BY <2>0 DEF Record, Answer
    <3> QED BY <1>7, <2>1, <3>1 DEF Page, WireTypeOK
  <2>2. CASE m # Silent
    <3> DEFINE n == IF brand[r] = "mir" THEN NextCount(m, waits[r]) ELSE 0
    <3>1. m \in Message
      BY <2>0, <2>2 DEF Record
    <3>2. n \in Nat
      BY <2>0, <3>1, NextCountIs
    <3>3. Status(brand[r], m, n) \in {"EXECUTING", "UNKNOWN"} \cup VehicleStates
      BY <2>0, <3>1, <3>2, StatusIs
    <3>4. (m.driving /\ ~m.paused) \in BOOLEAN
      OBVIOUS
    <3>5. [status |-> Status(brand[r], m, n), drove |-> m.driving /\ ~m.paused] \in Answer
      BY <3>3, <3>4 DEF Answer
    <3>6. /\ waits' = [waits EXCEPT ![r] = n]
          /\ shown' = [shown EXCEPT ![r] = [status |-> Status(brand[r], m, n),
                                            drove |-> m.driving /\ ~m.paused]]
      BY <1>7, <2>2 DEF Page
    <3>7. waits' \in [Robot -> Nat] /\ shown' \in [Robot -> Answer]
      BY <3>2, <3>5, <3>6 DEF WireTypeOK
    <3> QED BY <1>7, <3>7 DEF Page, WireTypeOK
  <2> QED BY <2>1, <2>2
<1>8. ASSUME Monitor PROVE WireTypeOK'
  <2>1. \A r \in Robot : record[r] \in Record /\ word[r] \in Words \cup {Silent}
    BY DEF WireTypeOK
  <2>2. \A r \in Robot : word[r] # Silent => Connection(record[r], word[r]) \in Record
    BY <2>1 DEF Connection, Record
  <2>3. record' \in [Robot -> Record]
    <3>1. record \in [Robot -> Record]
      BY DEF WireTypeOK
    <3>2. \/ record' = record
          \/ record' = [r \in Robot |-> IF word[r] = Silent THEN record[r]
                                        ELSE Connection(record[r], word[r])]
      BY <1>8 DEF Monitor
    <3> QED BY <2>2, <3>1, <3>2
  <2>4. heard' \in [Robot -> {Silent, "word", "free", "busy"}]
    BY <1>8 DEF Monitor, WireTypeOK
  <2>5. monitor' \in {"up", "down", "dead"} /\ wireFaults' \in 0..MaxWireFaults
    BY <1>8 DEF Monitor, WireTypeOK
  <2> QED BY <1>8, <2>3, <2>4, <2>5 DEF Monitor, WireTypeOK
<1>9. ASSUME NEW r \in Robot, Expire(r) PROVE WireTypeOK'
  <2>1. NoRecord \in Record
    BY DEF NoRecord, Record
  <2> QED BY <1>9, <2>1 DEF Expire, WireTypeOK
<1>10. ASSUME NEW r \in Robot, NEW c \in CoreAction, Send(r, c) PROVE WireTypeOK'
  <2>1. Sent(c) \in RobotAction /\ robot[r] \in Message
    BY SentIs DEF WireTypeOK
  <2>2. CASE gateway = "up" /\ late[r] = <<>>
    <3>1. Does(robot[r], Sent(c)) \in Message
      BY <2>1, DoesIs
    <3>2. robot' \in [Robot -> Message]
      BY <1>10, <2>2, <3>1 DEF Send, Reached, WireTypeOK
    <3> QED BY <1>10, <2>2, <3>2 DEF Send, WireTypeOK
  <2>3. CASE ~(gateway = "up" /\ late[r] = <<>>)
    <3>1. late[r] \in Seq(RobotAction) /\ Len(late[r]) < MaxKept
      BY <1>10, <2>3 DEF Send, WireTypeOK
    <3>2. Append(late[r], Sent(c)) \in Seq(RobotAction) /\ Len(Append(late[r], Sent(c))) <= MaxKept
      BY <2>1, <3>1
    <3>3. late' = [late EXCEPT ![r] = Append(late[r], Sent(c))]
      BY <1>10, <2>3 DEF Send
    <3>4. late' \in [Robot -> Seq(RobotAction)] /\ \A q \in Robot : Len(late'[q]) <= MaxKept
      BY <3>2, <3>3 DEF WireTypeOK
    <3> QED BY <1>10, <2>3, <3>4 DEF Send, WireTypeOK
  <2> QED BY <2>2, <2>3
<1>11. ASSUME NEW r \in Robot, Deliver(r) PROVE WireTypeOK'
  <2>1. /\ late[r] \in Seq(RobotAction) /\ late[r] # <<>> /\ Len(late[r]) <= MaxKept
        /\ robot[r] \in Message
    BY <1>11 DEF Deliver, WireTypeOK
  <2>2. /\ Head(late[r]) \in RobotAction /\ Tail(late[r]) \in Seq(RobotAction)
        /\ Len(Tail(late[r])) <= MaxKept
    BY <2>1
  <2>3. Does(robot[r], Head(late[r])) \in Message
    BY <2>1, <2>2, DoesIs
  <2>4. robot' \in [Robot -> Message]
    BY <1>11, <2>3 DEF Deliver, Reached, WireTypeOK
  <2>5. late' = [late EXCEPT ![r] = Tail(late[r])]
    BY <1>11 DEF Deliver
  <2>6. late' \in [Robot -> Seq(RobotAction)] /\ \A q \in Robot : Len(late'[q]) <= MaxKept
    BY <2>2, <2>5 DEF WireTypeOK
  <2> QED BY <1>11, <2>4, <2>6 DEF Deliver, WireTypeOK
<1>12. ASSUME Gateway PROVE WireTypeOK'
  <2>1. online' \in [Robot -> BOOLEAN]
    BY <1>12 DEF Gateway, WireTypeOK
  <2>2. gateway' \in {"up", "down", "none"} /\ wireFaults' \in 0..MaxWireFaults
    BY <1>12 DEF Gateway, WireTypeOK
  <2> QED BY <1>12, <2>1, <2>2 DEF Gateway, WireTypeOK
<1>13. ASSUME UNCHANGED wvars PROVE WireTypeOK'
  BY <1>13 DEF wvars, rvars, WireTypeOK
<1> QED BY <1>1, <1>2, <1>3, <1>4, <1>5, <1>6, <1>7, <1>8, <1>9, <1>10, <1>11, <1>12, <1>13
        DEF WireNext

\* A report never says more than its record: the invariant holds from the start.
LEMMA WireStarts == WireInit => WireInv
<1> SUFFICES ASSUME WireInit PROVE WireInv
  OBVIOUS
<1>1. Fresh \in Message /\ ~Fresh.waiting
  BY DEF Fresh, Message
<1>2. NoRecord \in Record /\ NoRecord.raw = Silent /\ ~Eligible(NoRecord.state)
  BY DEF NoRecord, Record, Eligible
<1>3. [status |-> "", drove |-> FALSE] \in Answer
  BY DEF Answer
<1>4. /\ brand \in [Robot -> Brand] /\ robot \in [Robot -> Message]
      /\ run \in [Robot -> {"on", "leaving", "off"}] /\ word \in [Robot -> Words \cup {Silent}]
  BY <1>1, WireConstants DEF WireInit
<1>5. record \in [Robot -> Record] /\ shown \in [Robot -> Answer]
  BY <1>2, <1>3 DEF WireInit
<1>6. late \in [Robot -> Seq(RobotAction)] /\ \A r \in Robot : Len(late[r]) <= MaxKept
  <2>1. <<>> \in Seq(RobotAction) /\ Len(<<>>) = 0
    OBVIOUS
  <2>2. late = [r \in Robot |-> <<>>]
    BY DEF WireInit
  <2> QED BY <2>1, <2>2, WireConstants
<1>7. /\ waits \in [Robot -> Nat] /\ online \in [Robot -> BOOLEAN]
      /\ core \in [Robot -> {Silent, "IDLE", "TASKING", "CHARGING", "ERROR"}]
      /\ heard \in [Robot -> {Silent, "word", "free", "busy"}]
      /\ orders \in 0..MaxOrders /\ wireFaults \in 0..MaxWireFaults
      /\ monitor \in {"up", "down", "dead"} /\ gateway \in {"up", "down", "none"}
  <2>1. 0 \in Nat /\ 0 \in 0..MaxOrders /\ 0 \in 0..MaxWireFaults
    BY WireConstants
  <2> QED BY <2>1 DEF WireInit
<1>8. WireTypeOK
  BY <1>4, <1>5, <1>6, <1>7 DEF WireTypeOK
<1>9. EligibleIsFree /\ StateIsOfReport /\ OnlyMirWaits /\ DriveResets
  BY <1>1, <1>2 DEF WireInit, EligibleIsFree, StateIsOfReport, OnlyMirWaits, DriveResets
<1> QED BY <1>8, <1>9 DEF WireInv

\* The record and what the monitor was told last change together: by a word, by a
\* report, by the words told again after a reconnection, or the record expires.
LEMMA RecordMoves ==
  ASSUME WireTypeOK, [WireNext]_wvars, NEW r \in Robot
  PROVE  \/ record'[r] = record[r] /\ heard'[r] = heard[r]
         \/ \E w \in Words : record'[r] = Connection(record[r], w) /\ heard'[r] = "word"
         \/ /\ record'[r] = StateRecord(robot[r])
            /\ heard'[r] = IF FreeByReport(robot[r]) THEN "free" ELSE "busy"
         \/ record'[r] = NoRecord
<1> USE DEF WireTypeOK
<1>1. ASSUME NEW q \in Robot, NEW w \in Words, TellWord(q, w)
      PROVE  \/ record'[r] = record[r] /\ heard'[r] = heard[r]
             \/ record'[r] = Connection(record[r], w) /\ heard'[r] = "word"
  BY <1>1 DEF TellWord
<1>2. ASSUME NEW q \in Robot, Start(q) \/ Stop(q) \/ Break(q)
      PROVE  \/ record'[r] = record[r] /\ heard'[r] = heard[r]
             \/ \E w \in Words : record'[r] = Connection(record[r], w) /\ heard'[r] = "word"
  <2>1. PICK w \in Words : TellWord(q, w)
    BY <1>2 DEF Start, Stop, Break, Words
  <2> QED BY <1>1, <2>1
<1>3. ASSUME NEW q \in Robot, Report(q)
      PROVE  \/ record'[r] = record[r] /\ heard'[r] = heard[r]
             \/ /\ record'[r] = StateRecord(robot[r])
                /\ heard'[r] = IF FreeByReport(robot[r]) THEN "free" ELSE "busy"
  BY <1>3 DEF Report, TellState
<1>4. ASSUME Monitor
      PROVE  \/ record'[r] = record[r] /\ heard'[r] = heard[r]
             \/ \E w \in Words : record'[r] = Connection(record[r], w) /\ heard'[r] = "word"
  BY <1>4 DEF Monitor
<1>5. ASSUME NEW q \in Robot, Expire(q)
      PROVE  record'[r] = NoRecord \/ (record'[r] = record[r] /\ heard'[r] = heard[r])
  BY <1>5 DEF Expire
<1>6. ASSUME NEW q \in Robot, Work(q) \/ Trouble(q)
      PROVE  record' = record /\ heard' = heard
  BY <1>6 DEF Work, MirWork, OttoWork, KukaWork, Trouble, Becomes
<1>7. ASSUME NEW q \in Robot,
             \/ Pick(q) \/ Dispatch(q) \/ Page(q) \/ Deliver(q)
             \/ \E c \in CoreAction : Send(q, c)
      PROVE  record' = record /\ heard' = heard
  BY <1>7 DEF Pick, Dispatch, Page, Deliver, Send
<1>8. ASSUME Gateway \/ UNCHANGED wvars
      PROVE  record' = record /\ heard' = heard
  BY <1>8 DEF Gateway, wvars, rvars
<1> QED BY <1>2, <1>3, <1>4, <1>5, <1>6, <1>7, <1>8 DEF WireNext

\* The two invariants of the record: a word is never a state that is picked, a report
\* brings its own state, an expired record has neither.
LEMMA RecordKept ==
  WireTypeOK /\ EligibleIsFree /\ StateIsOfReport /\ [WireNext]_wvars =>
    EligibleIsFree' /\ StateIsOfReport'
<1> SUFFICES ASSUME WireTypeOK, EligibleIsFree, StateIsOfReport, [WireNext]_wvars,
                    NEW r \in Robot
             PROVE  /\ Eligible(record'[r].state) => heard'[r] = "free"
                    /\ record'[r].raw # Silent /\ heard'[r] # "word" =>
                         record'[r].state = VehicleState(record'[r].raw)
  BY DEF EligibleIsFree, StateIsOfReport
<1>0. record[r] \in Record /\ robot[r] \in Message
  BY DEF WireTypeOK
<1>1. CASE record'[r] = record[r] /\ heard'[r] = heard[r]
  BY <1>1 DEF EligibleIsFree, StateIsOfReport
<1>2. CASE \E w \in Words : record'[r] = Connection(record[r], w) /\ heard'[r] = "word"
  <2>1. PICK w \in Words : record'[r] = Connection(record[r], w)
    BY <1>2
  <2>2. ~Eligible(record'[r].state)
    BY <1>0, <2>1 DEF Connection, Record, Words, Eligible
  <2> QED BY <1>2, <2>2
<1>3. CASE /\ record'[r] = StateRecord(robot[r])
           /\ heard'[r] = IF FreeByReport(robot[r]) THEN "free" ELSE "busy"
  BY <1>0, <1>3, VehicleStateIs DEF StateRecord
<1>4. CASE record'[r] = NoRecord
  <2>1. NoRecord.raw = Silent /\ ~Eligible(NoRecord.state)
    BY DEF NoRecord, Eligible
  <2> QED BY <1>4, <2>1
<1>5. \/ record'[r] = record[r] /\ heard'[r] = heard[r]
      \/ \E w \in Words : record'[r] = Connection(record[r], w) /\ heard'[r] = "word"
      \/ /\ record'[r] = StateRecord(robot[r])
         /\ heard'[r] = IF FreeByReport(robot[r]) THEN "free" ELSE "busy"
      \/ record'[r] = NoRecord
  BY RecordMoves
<1> QED BY <1>1, <1>2, <1>3, <1>4, <1>5

\* A robot's own report waits only if the robot is a MiR.
LEMMA RobotMoves ==
  ASSUME WireTypeOK, [WireNext]_wvars, NEW r \in Robot
  PROVE  brand'[r] = brand[r] /\ (brand[r] = "mir" \/ robot'[r].waiting = robot[r].waiting)
<1>1. brand' = brand
  <2>1. ASSUME NEW q \in Robot, Start(q) \/ Report(q) \/ Stop(q) \/ Break(q)
        PROVE  brand' = brand
    BY <2>1 DEF Start, Report, Stop, Break
  <2>2. ASSUME NEW q \in Robot, Work(q) \/ Trouble(q) PROVE brand' = brand
    BY <2>2 DEF Work, MirWork, OttoWork, KukaWork, Trouble, Becomes
  <2>3. ASSUME NEW q \in Robot,
               \/ Pick(q) \/ Dispatch(q) \/ Page(q) \/ Expire(q) \/ Deliver(q)
               \/ \E c \in CoreAction : Send(q, c)
        PROVE  brand' = brand
    BY <2>3 DEF Pick, Dispatch, Page, Expire, Deliver, Send
  <2>4. ASSUME Monitor \/ Gateway \/ UNCHANGED wvars PROVE brand' = brand
    BY <2>4 DEF Monitor, Gateway, wvars
  <2> QED BY <2>1, <2>2, <2>3, <2>4 DEF WireNext
<1> USE DEF WireTypeOK
<1>2. ASSUME NEW q \in Robot, NEW m \in Message, m.waiting = robot[q].waiting,
             robot' = [robot EXCEPT ![q] = m] \/ robot' = robot
      PROVE  robot'[r].waiting = robot[r].waiting
  BY <1>2
<1>3. ASSUME NEW q \in Robot, Work(q) \/ Trouble(q)
      PROVE  brand[r] = "mir" \/ robot'[r].waiting = robot[r].waiting
  BY <1>3, WorkIs
<1>4. ASSUME NEW q \in Robot, Pick(q) \/ Dispatch(q)
      PROVE  robot'[r].waiting = robot[r].waiting
  <2>1. robot[q] \in Message /\ "order" \in RobotAction
    BY DEF RobotAction
  <2>2. Ordered(robot[q]) \in Message /\ Ordered(robot[q]).waiting = robot[q].waiting
    BY <2>1, DoesIs
  <2> QED BY <1>2, <1>4, <2>2 DEF Pick, Dispatch, Reached
<1>5. ASSUME NEW q \in Robot, NEW c \in CoreAction, Send(q, c)
      PROVE  robot'[r].waiting = robot[r].waiting
  <2>1. /\ Does(robot[q], Sent(c)) \in Message
        /\ Does(robot[q], Sent(c)).waiting = robot[q].waiting
    BY SentIs, DoesIs
  <2>2. robot' = [robot EXCEPT ![q] = Does(robot[q], Sent(c))] \/ robot' = robot
    BY <1>5 DEF Send, Reached
  <2> QED BY <1>2, <2>1, <2>2
<1>6. ASSUME NEW q \in Robot, Deliver(q)
      PROVE  robot'[r].waiting = robot[r].waiting
  <2>1. Head(late[q]) \in RobotAction
    BY <1>6 DEF Deliver
  <2>2. /\ Does(robot[q], Head(late[q])) \in Message
        /\ Does(robot[q], Head(late[q])).waiting = robot[q].waiting
    BY <2>1, DoesIs
  <2>3. robot' = [robot EXCEPT ![q] = Does(robot[q], Head(late[q]))] \/ robot' = robot
    BY <1>6 DEF Deliver, Reached
  <2> QED BY <1>2, <2>2, <2>3
<1>7. ASSUME NEW q \in Robot, Start(q) \/ Report(q) \/ Stop(q) \/ Break(q) \/ Page(q) \/ Expire(q)
      PROVE  robot' = robot
  BY <1>7 DEF Start, Report, Stop, Break, Page, Expire
<1>8. ASSUME Monitor \/ Gateway \/ UNCHANGED wvars
      PROVE  robot' = robot
  BY <1>8 DEF Monitor, Gateway, wvars, rvars
<1> QED BY <1>1, <1>3, <1>4, <1>5, <1>6, <1>7, <1>8 DEF WireNext

\* No other robot begins to wait, and a record repeats what a robot said.
LEMMA WaitKept == WireTypeOK /\ OnlyMirWaits /\ [WireNext]_wvars => OnlyMirWaits'
<1> SUFFICES ASSUME WireTypeOK, OnlyMirWaits, [WireNext]_wvars, NEW r \in Robot
             PROVE  /\ robot'[r].waiting => brand'[r] = "mir"
                    /\ record'[r].raw # Silent /\ record'[r].raw.waiting => brand'[r] = "mir"
  BY DEF OnlyMirWaits
<1>0. record[r] \in Record /\ robot[r] \in Message
  BY DEF WireTypeOK
<1>1. robot[r].waiting => brand[r] = "mir"
  BY DEF OnlyMirWaits
<1>2. record[r].raw # Silent /\ record[r].raw.waiting => brand[r] = "mir"
  BY DEF OnlyMirWaits
<1>3. brand'[r] = brand[r] /\ (brand[r] = "mir" \/ robot'[r].waiting = robot[r].waiting)
  BY RobotMoves
<1>4. record'[r].raw \in {record[r].raw, robot[r], Silent}
  <2>1. CASE \E w \in Words : record'[r] = Connection(record[r], w)
    BY <1>0, <2>1 DEF Connection, Record
  <2>2. CASE record'[r] = StateRecord(robot[r])
    BY <2>2 DEF StateRecord
  <2>3. CASE record'[r] = NoRecord
    <3>1. NoRecord.raw = Silent
      BY DEF NoRecord
    <3> QED BY <2>3, <3>1
  <2>4. \/ record'[r] = record[r] /\ heard'[r] = heard[r]
        \/ \E w \in Words : record'[r] = Connection(record[r], w) /\ heard'[r] = "word"
        \/ /\ record'[r] = StateRecord(robot[r])
           /\ heard'[r] = IF FreeByReport(robot[r]) THEN "free" ELSE "busy"
        \/ record'[r] = NoRecord
    BY RecordMoves
  <2> QED BY <2>1, <2>2, <2>3, <2>4
<1> QED BY <1>1, <1>2, <1>3, <1>4

\* The page alone counts and shows, and shows a drive only with the count put back.
LEMMA DriveKept == WireTypeOK /\ DriveResets /\ [WireNext]_wvars => DriveResets'
<1> SUFFICES ASSUME WireTypeOK, DriveResets, [WireNext]_wvars PROVE DriveResets'
  OBVIOUS
<1>1. ASSUME NEW r \in Robot, Page(r) PROVE DriveResets'
  <2> DEFINE m == record[r].raw
  <2>0. record[r] \in Record /\ waits[r] \in Nat
    BY DEF WireTypeOK
  <2>1. CASE m = Silent
    <3>1. /\ shown' = [shown EXCEPT ![r] = [status |-> record[r].state, drove |-> FALSE]]
          /\ waits' = waits
      BY <1>1, <2>1 DEF Page
    <3>2. ~shown'[r].drove
      BY <3>1 DEF WireTypeOK
    <3>3. \A q \in Robot \ {r} : shown'[q] = shown[q]
      BY <3>1 DEF WireTypeOK
    <3> QED BY <3>1, <3>2, <3>3 DEF DriveResets
  <2>2. CASE m # Silent
    <3> DEFINE n == IF brand[r] = "mir" THEN NextCount(m, waits[r]) ELSE 0
    <3>1. m.driving /\ ~m.paused => n = 0
      BY <2>0, <2>2, NextCountIs DEF Record
    <3>2. /\ waits' = [waits EXCEPT ![r] = n]
          /\ shown' = [shown EXCEPT ![r] = [status |-> Status(brand[r], m, n),
                                            drove |-> m.driving /\ ~m.paused]]
      BY <1>1, <2>2 DEF Page
    <3> HIDE DEF n
    <3>3. shown'[r].drove => waits'[r] = 0
      BY <3>1, <3>2 DEF WireTypeOK
    <3>4. \A q \in Robot \ {r} : shown'[q] = shown[q] /\ waits'[q] = waits[q]
      BY <3>2 DEF WireTypeOK
    <3> QED BY <3>3, <3>4 DEF DriveResets
  <2> QED BY <2>1, <2>2
<1>2. ASSUME UNCHANGED <<waits, shown>> PROVE DriveResets'
  BY <1>2 DEF DriveResets
<1>3. (\E r \in Robot : Page(r)) \/ UNCHANGED <<waits, shown>>
  <2>1. ASSUME NEW q \in Robot, Start(q) \/ Report(q) \/ Stop(q) \/ Break(q)
        PROVE  UNCHANGED <<waits, shown>>
    BY <2>1 DEF Start, Report, Stop, Break
  <2>2. ASSUME NEW q \in Robot, Work(q) \/ Trouble(q) PROVE UNCHANGED <<waits, shown>>
    BY <2>2 DEF Work, MirWork, OttoWork, KukaWork, Trouble, Becomes
  <2>3. ASSUME NEW q \in Robot,
               \/ Pick(q) \/ Dispatch(q) \/ Expire(q) \/ Deliver(q)
               \/ \E c \in CoreAction : Send(q, c)
        PROVE  UNCHANGED <<waits, shown>>
    BY <2>3 DEF Pick, Dispatch, Expire, Deliver, Send
  <2>4. ASSUME Monitor \/ Gateway \/ UNCHANGED wvars PROVE UNCHANGED <<waits, shown>>
    BY <2>4 DEF Monitor, Gateway, wvars, rvars
  <2> QED BY <2>1, <2>2, <2>3, <2>4 DEF WireNext
<1> QED BY <1>1, <1>2, <1>3

\* So the invariant holds in every state.
LEMMA WireHolds == WireSpec => []WireInv
<1>1. WireInv /\ [WireNext]_wvars => WireInv'
  BY WireTypes, RecordKept, WaitKept, DriveKept DEF WireInv
<1> QED BY WireStarts, <1>1, PTL DEF WireSpec

-----------------------------------------------------------------------------
(* RobotWire: the theorems.                                                *)

\* The worker picks a robot only on the word of the robot itself: the last thing the
\* monitor was told of it is a report of a robot that is free or charges.  For any
\* robots, brands and numbers of faults.
THEOREM PicksOnReport == WireSpec => PickedIsFree
<1>1. WireInv /\ [WireNext]_wvars => [\A r \in Robot : Pick(r) => heard[r] = "free"]_wvars
  BY DEF WireInv, EligibleIsFree, Pick
<1> QED BY <1>1, WireHolds, PTL DEF WireSpec, PickedIsFree

\* The page shows a fault as ERROR, a drive as MOVING, and the first wait of a MiR after
\* a drive it has shown as MOVING, for any robots of any of the nine brands.
THEOREM PageIsTrue == WireSpec => ShownIsTrue
<1> DEFINE P(r) ==
      LET m == record[r].raw
          clear == ~m.fatal /\ ~m.manual /\ ~m.paused /\ ~m.charging /\ ~m.low
      IN /\ m.fatal => /\ shown'[r].status = "ERROR"
                       /\ heard[r] # "word" => record[r].state = "ERROR"
         /\ clear /\ m.driving => shown'[r].status = "MOVING"
         /\ clear /\ m.waiting /\ shown[r].drove => shown'[r].status = "MOVING"
<1>1. ASSUME WireInv, NEW r \in Robot, Page(r), record[r].raw # Silent
      PROVE  P(r)
  <2> DEFINE m == record[r].raw
             n == IF brand[r] = "mir" THEN NextCount(m, waits[r]) ELSE 0
  <2>1. m \in Message /\ brand[r] \in Brand /\ waits[r] \in Nat
    BY <1>1 DEF WireInv, WireTypeOK, Record
  <2>2. n \in Nat
    BY <2>1, NextCountIs
  <2>3. shown'[r].status = Status(brand[r], m, n)
    BY <1>1 DEF Page, WireInv, WireTypeOK
  <2>4. m.fatal /\ heard[r] # "word" => record[r].state = "ERROR"
    BY <1>1, <2>1 DEF WireInv, StateIsOfReport, VehicleState
  <2>5. ASSUME ~m.fatal, ~m.manual, ~m.paused, ~m.driving, m.waiting, shown[r].drove
        PROVE  Status(brand[r], m, n) = "MOVING"
    <3>1. brand[r] = "mir" /\ waits[r] = 0
      BY <1>1, <2>5 DEF WireInv, OnlyMirWaits, DriveResets
    <3>2. NextCount(m, waits[r]) < WaitingGrace /\ n = NextCount(m, waits[r])
      BY <2>1, <3>1, NextCountIs
    <3>3. ~(n >= WaitingGrace)
      BY <2>2, <3>2 DEF WaitingGrace
    <3>4. Status(brand[r], m, n) = MirStatus(m, n)
      BY <3>1 DEF Status
    <3> QED BY <2>5, <3>3, <3>4 DEF MirStatus, Unfit
  <2> HIDE DEF n
  <2> QED BY <2>1, <2>2, <2>3, <2>4, <2>5, StatusIs DEF Message
<1> HIDE DEF P
<1>2. WireInv /\ [WireNext]_wvars =>
        [\A r \in Robot : Page(r) /\ record[r].raw # Silent => P(r)]_wvars
  BY <1>1
<1> USE DEF P
<1> QED BY <1>2, WireHolds, PTL DEF WireSpec, ShownIsTrue

-----------------------------------------------------------------------------
(* The four together, as the run checks them.                              *)

\* Whichever of the four parts runs, every variable of all of them has its type.
THEOREM LinksTypeCorrect == LinksSpec => []TypesOK
<1>1. LinksInit => PlannerInit /\ Init /\ WireInit /\ NotifyInit
  BY DEF LinksInit
<1>2. [LinksNext]_<<part, pvars, vars, wvars, nvars>> =>
        [PlannerNext]_pvars /\ [Next]_vars /\ [WireNext]_wvars /\ [NotifyNext]_nvars
  BY DEF LinksNext
<1>3. WireSpec => []WireTypeOK
  <2>1. WireInv => WireTypeOK
    BY DEF WireInv
  <2> QED BY <2>1, WireHolds, PTL
<1>4. NotifyInit /\ [][NotifyNext]_nvars => []NotifyTypeOK
  <2>1. NotifyInv => NotifyTypeOK
    BY DEF NotifyInv
  <2> QED BY <2>1, NotifyStarts, NotifyHolds, PTL
<1>5. LinksSpec => /\ PlannerSpec /\ Spec /\ WireSpec
                   /\ NotifyInit /\ [][NotifyNext]_nvars
  BY <1>1, <1>2, PTL DEF LinksSpec, PlannerSpec, Spec, WireSpec
<1> QED BY <1>3, <1>4, <1>5, PlannerTypes, SessionTypeCorrect, PTL DEF TypesOK
=============================================================================
