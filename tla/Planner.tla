------------------------------ MODULE Planner ------------------------------
(***************************************************************************)
(* Multi-agent path finding over the lane graph: the conflict layer puts   *)
(* requests whose corridors share a node into one group, the engine (ECBS) *)
(* plans each group, and update replans the late vehicles of a fleet.      *)
(*                                                                         *)
(* A plan says where the vehicle is in every second up to the horizon: at  *)
(* a node, on a lane that takes longer than a second, or (Off) nowhere.    *)
(* The low level search is what its result is known to be: a path under    *)
(* the constraints whose cost is within the factor of the cheapest.  The   *)
(* high level is the code's, one iteration of its loop an action.          *)
(***************************************************************************)
EXTENDS Integers, FiniteSets, FiniteSetsExt

CONSTANTS
  Agent, Node,
  Lanes,            \* records: id, from, to, time (lane_time), length, open (not blocked)
  StartOf(_), GoalOf(_),
  MayUse(_, _),     \* allows_model: may the agent's model use the lane?
  Horizon,          \* time_horizon
  Percent,          \* w_focal, in percent
  MaxNodes,         \* max_ct_nodes
  MaxLate,          \* bound: the largest "now" of update
  Off, Never

VARIABLES
  corridor,  \* L1: the nodes of each agent's shortest path
  waiting,   \* the agents whose group is still to be planned
  group,     \* the group the engine is working on
  tree,      \* open_heap: constraint-tree nodes, each with constraints and plans
  root,      \* the first of them
  bar,       \* cost_min
  iters,
  answer,    \* the plans returned so far
  stage      \* "group", "search", "done", "updated"

pvars == <<corridor, waiting, group, tree, root, bar, iters, answer, stage>>

Time == 0..Horizon

PlannerTypeOK ==
  /\ corridor \in [Agent -> SUBSET Node]
  /\ waiting \subseteq Agent /\ group \subseteq Agent
  /\ \A n \in tree : DOMAIN n.plans = group
  /\ DOMAIN answer \subseteq Agent /\ iters \in 0..MaxNodes /\ bar \in Nat
  /\ stage \in {"group", "search", "done", "updated"}

Usable(a) == {l \in Lanes : l.open /\ MayUse(a, l.id)}
Between == {l.id : l \in {m \in Lanes : m.time > 1}}

(* Lanes join nodes and take at least a second (lane_time); a lane is not  *)
(* a node; w_focal is at least 1.  A vehicle that is where it wants to be  *)
(* is excluded: its plan has no move, and vertex_occupancy raises.         *)
ASSUME PlannerAssumption ==
  /\ IsFiniteSet(Agent) /\ Horizon \in Nat /\ MaxNodes \in Nat /\ MaxLate \in Nat
  /\ Percent \in Nat /\ Percent >= 100
  /\ \A l \in Lanes : l.from \in Node /\ l.to \in Node /\ l.time \in Nat /\ l.time >= 1
  /\ Between \cap Node = {} /\ Off \notin Node \cup Between /\ Never \notin Time
  /\ \A a \in Agent : StartOf(a) \in Node /\ GoalOf(a) \in Node /\ StartOf(a) # GoalOf(a)

-----------------------------------------------------------------------------
(* Plans *)

(* Where a vehicle goes from a node it is at in second t: it waits, or it  *)
(* takes a lane, on which it is until it arrives.                          *)
Leaves(at, t, lanes) ==
  \/ at[t + 1] = at[t]
  \/ \E l \in lanes :
       /\ l.from = at[t]
       /\ \A s \in 1 .. l.time - 1 : t + s \in Time => at[t + s] = l.id
       /\ t + l.time \in Time /\ at[t + l.time] = l.to

Walks(a, lanes) ==
  {at \in [Time -> Node \cup Between] :
     /\ at[0] = StartOf(a) /\ at[Horizon] = GoalOf(a)
     /\ \A t \in 0 .. Horizon - 1 :
          IF at[t] \in Node THEN Leaves(at, t, lanes)
          ELSE t > 0 /\ \E l \in lanes : l.id = at[t] /\ at[t + 1] \in {l.id, l.to}}

(* A path ends when the goal is reached for good; the goal is held then. *)
Arrival(a, at) == CHOOSE t \in Time :
  /\ \A s \in t .. Horizon : at[s] = GoalOf(a)
  /\ t = 0 \/ at[t - 1] # GoalOf(a)

Paths == [a \in Agent |->
  {[at |-> at, done |-> Arrival(a, at), seen |-> Time] : at \in Walks(a, Usable(a))}]

(* The sum of the costs of the plans: all seconds before an arrival.       *)
CostOf(plans) == Cardinality({x \in (DOMAIN plans) \X Time : x[2] < plans[x[1]].done})

(* Mutant of Occupied: the goal is not held. *)
OccupiedNoHold(p) ==
  {<<p.at[t], t>> : t \in {s \in p.seen : p.at[s] \in Node /\ (p.done = Never \/ s <= p.done)}}
(* vertex_occupancy: the nodes at the ends of the moves, and the goal from *)
(* the arrival to the horizon.                                             *)
Occupied(p) == {<<p.at[t], t>> : t \in {s \in p.seen : p.at[s] \in Node}}

(* edge_intervals *)
Edges(p) ==
  {[from |-> p.at[x[1]], to |-> p.at[x[2]], depart |-> x[1], arrive |-> x[2]] :
     x \in {y \in Time \X Time :
       /\ y[1] < y[2] /\ p.at[y[1]] \in Node /\ p.at[y[2]] \in Node /\ p.at[y[1]] # p.at[y[2]]
       /\ \A r \in y[1] + 1 .. y[2] - 1 : p.at[r] \in Between}}

Swap(e, f) == e.from = f.to /\ e.to = f.from /\ e.depart < f.arrive /\ f.depart < e.arrive

Pairs(plans) == {d \in (DOMAIN plans) \X (DOMAIN plans) : d[1] # d[2]}

(* _detect_conflicts *)
VertexConflicts(plans) ==
  UNION {{[who |-> {d[1], d[2]}, node |-> o[1], time |-> o[2]] :
            o \in Occupied(plans[d[1]]) \cap Occupied(plans[d[2]])} : d \in Pairs(plans)}

EdgeConflicts(plans) ==
  UNION {{{<<d[1], x[1]>>, <<d[2], x[2]>>} :
            x \in {y \in Edges(plans[d[1]]) \X Edges(plans[d[2]]) : Swap(y[1], y[2])}} :
           d \in Pairs(plans)}

Conflicts(plans) == Cardinality(VertexConflicts(plans)) + Cardinality(EdgeConflicts(plans))

-----------------------------------------------------------------------------
(* The low level: the paths of an agent under constraints *)

HeldFrom(a, cons) ==
  Max({-1} \cup {c.time : c \in {d \in cons.vertex : d.agent = a /\ d.node = GoalOf(a)}})

Moves == [a \in Agent |-> [p \in Paths[a] |-> Edges(p)]]

(* The search ends at the first arrival after the last constraint on the   *)
(* goal, because the goal is held from then on.                            *)
Admitted(a, cons) ==
  {p \in Paths[a] :
     /\ \A c \in cons.vertex : c.agent = a /\ c.time <= p.done => p.at[c.time] # c.node
     /\ \A e \in Moves[a][p] :
          [agent |-> a, from |-> e.from, to |-> e.to, depart |-> e.depart] \notin cons.edge
     /\ p.done > HeldFrom(a, cons)
     /\ \A t \in 0 .. p.done - 1 : p.at[t] = GoalOf(a) => t <= HeldFrom(a, cons)}

Found(a, cons) ==
  LET all == Admitted(a, cons) IN
  {p \in all : \A q \in all : 100 * p.done <= Percent * q.done}

NoCons == [vertex |-> {}, edge |-> {}]

(* Two plans that are physically apart, however the engine detects it. *)
Apart(p, q) ==
  /\ \A t \in Time : p.at[t] \in Node => p.at[t] # q.at[t]
  /\ \A e \in Edges(p), f \in Edges(q) : ~Swap(e, f)

-----------------------------------------------------------------------------
(* L1: the groups *)

(* shortest_path counts metres and knows no blocked lane. *)
Length(p, a) == MapThenSumSet(LAMBDA e : (CHOOSE l \in Lanes : l.from = e.from /\ l.to = e.to).length, Edges(p))

Shortest == [a \in Agent |->
  LET all == {[at |-> at, done |-> Horizon, seen |-> Time] :
                at \in Walks(a, {l \in Lanes : MayUse(a, l.id)})}
      best == {p \in all : \A q \in all : Length(p, a) <= Length(q, a)}
  IN {{p.at[t] : t \in Time} \cap Node : p \in best} \cup
     (IF all = {} THEN {{StartOf(a), GoalOf(a)}} ELSE {})]

(* _macro_groups: the connected components of "the corridors share a node" *)
Meets(a, b) == corridor[a] \cap corridor[b] # {}
GroupOf(a) ==
  LET closed == {g \in SUBSET Agent : a \in g /\ \A x \in g, y \in Agent : Meets(x, y) => y \in g}
  IN CHOOSE g \in closed : \A h \in closed : g \subseteq h

\* Shortest ways of equal length make the corridors a choice.
Corridors == {c \in [Agent -> UNION {Shortest[a] : a \in Agent}] :
               \A a \in Agent : c[a] \in Shortest[a]}

PlannerInit ==
  /\ corridor \in Corridors
  /\ waiting = Agent /\ group = {} /\ tree = {} /\ root = <<>> /\ bar = 0 /\ iters = 0
  /\ answer = <<>> /\ stage = "group"

NodeWith(cons, plans) ==
  [cons |-> cons, plans |-> plans, cost |-> CostOf(plans), conflicts |-> Conflicts(plans)]

(* solve begins: every agent of the group is planned without constraints;  *)
(* if one has no path, nobody of the group gets a plan.                    *)
PlanAll ==
  /\ stage = "group" /\ waiting # {}
  /\ \E a \in waiting :
       LET g == GroupOf(a) IN
       /\ group' = g /\ waiting' = waiting \ g
       /\ \/ /\ \E b \in g : Found(b, NoCons) = {}
             /\ UNCHANGED <<tree, root, bar, iters, stage>>
          \/ \E plans \in [g -> UNION {Paths[b] : b \in g}] :
               /\ \A b \in g : plans[b] \in Found(b, NoCons)
               /\ root' = NodeWith(NoCons, plans) /\ tree' = {root'} /\ bar' = root'.cost
               /\ iters' = 0 /\ stage' = "search"
  /\ UNCHANGED <<corridor, answer>>

-----------------------------------------------------------------------------
(* The high level *)

Cheapest == Min({n.cost : n \in tree})
NewBar == Max({bar, Cheapest})
Focal == {n \in tree : 100 * n.cost <= Percent * NewBar}
Picked == {n \in Focal : \A m \in Focal : n.conflicts <= m.conflicts}

(* The first conflict of the list: vertices come before edges, and their   *)
(* order is that of a set.                                                 *)
Splits(plans) ==
  IF VertexConflicts(plans) # {}
  THEN {{[agent |-> a, node |-> c.node, time |-> c.time] : a \in c.who} : c \in VertexConflicts(plans)}
  ELSE {{[agent |-> x[1], from |-> x[2].from, to |-> x[2].to, depart |-> x[2].depart] : x \in c} :
          c \in EdgeConflicts(plans)}

(* _split constrains one of the two vehicles at that second.  The mutant's *)
(* constraint holds the second after as well.                              *)
WithTooMuch(cons, c) ==
  IF "node" \in DOMAIN c
  THEN [cons EXCEPT !.vertex = @ \cup {[c EXCEPT !.time = t] : t \in {c.time, Min({c.time + 1, Horizon})}}]
  ELSE [cons EXCEPT !.edge = @ \cup {c}]
With(cons, c) ==
  IF "node" \in DOMAIN c THEN [cons EXCEPT !.vertex = @ \cup {c}]
  ELSE [cons EXCEPT !.edge = @ \cup {c}]

(* _replan_one: a child keeps the plans of the others; a constraint that   *)
(* leaves its agent no path gives no child.                                *)
Children(n, c) ==
  LET cons == With(n.cons, c) IN
  {NodeWith(cons, [n.plans EXCEPT ![c.agent] = p]) : p \in Found(c.agent, cons)}

Return(n) ==
  /\ answer' = [a \in (DOMAIN answer) \cup group |-> IF a \in group THEN n.plans[a] ELSE answer[a]]
  /\ stage' = "group" /\ tree' = {} /\ root' = <<>> /\ bar' = 0 /\ iters' = 0
  /\ UNCHANGED <<corridor, waiting, group>>

Expand ==
  /\ stage = "search" /\ tree # {} /\ iters < MaxNodes
  /\ \E n \in Picked :
       \/ n.conflicts = 0 /\ Return(n)
       \/ /\ n.conflicts > 0
          /\ \E split \in Splits(n.plans) :
               LET viable == {c \in split : Found(c.agent, With(n.cons, c)) # {}} IN
               \E born \in [viable -> UNION {Children(n, c) : c \in viable}] :
                 /\ \A c \in viable : born[c] \in Children(n, c)
                 /\ tree' = (tree \ {n}) \cup {born[c] : c \in viable}
          /\ bar' = NewBar /\ iters' = iters + 1
          /\ UNCHANGED <<corridor, waiting, group, root, answer, stage>>

(* Nothing is left, or too many nodes: the cheapest plans there are, with  *)
(* their conflicts.                                                        *)
GiveUp ==
  /\ stage = "search" /\ (tree = {} \/ iters = MaxNodes)
  /\ IF tree = {} THEN Return(root) ELSE \E n \in tree : n.cost = Cheapest /\ Return(n)

Planned ==
  /\ stage = "group" /\ waiting = {}
  /\ stage' = "done"
  /\ UNCHANGED <<corridor, waiting, group, tree, root, bar, iters, answer>>

-----------------------------------------------------------------------------
(* update *)

Stub(node, from) ==
  [at |-> [t \in Time |-> IF t < from THEN Off ELSE node], done |-> Never, seen |-> {from, Horizon}]

(* _shift_plan moves a frozen plan to later seconds. *)
Shift(p, now) ==
  IF now = 0 THEN p
  ELSE LET at == [t \in Time |-> IF t < now THEN Off ELSE p.at[t - now]]
           done == IF p.done # Never /\ p.done + now <= Horizon THEN p.done + now ELSE Never
       IN [at |-> at, done |-> done, seen |-> {t \in Time : t >= now /\ t - now \in p.seen}]

(* The late agent is planned with the others as obstacles that it prefers  *)
(* to avoid; if it has no path it is said to wait where it starts.         *)
Update ==
  /\ stage = "done"
  /\ \E late \in Agent, now \in 0 .. MaxLate :
       \E p \in Found(late, NoCons) \cup {Stub(StartOf(late), 0)} :
         /\ p \notin Found(late, NoCons) => Found(late, NoCons) = {}
         /\ answer' = [a \in (DOMAIN answer) \cup {late} |->
                         IF a = late THEN p ELSE Shift(answer[a], now)]
  /\ stage' = "updated"
  /\ UNCHANGED <<corridor, waiting, group, tree, root, bar, iters>>

PlannerNext == PlanAll \/ Expand \/ GiveUp \/ Planned \/ Update

PlannerSpec == PlannerInit /\ [][PlannerNext]_pvars

-----------------------------------------------------------------------------
Obeys(a, p, cons) ==
  /\ \A c \in cons.vertex : c.agent = a => p.at[c.time] # c.node
  /\ \A e \in Moves[a][p] :
       [agent |-> a, from |-> e.from, to |-> e.to, depart |-> e.depart] \notin cons.edge

Solutions == [g \in SUBSET Agent |->
  {s \in [g -> UNION {Paths[a] : a \in g}] :
     /\ \A a \in g : s[a] \in Paths[a]
     /\ \A a, b \in g : a # b => Apart(s[a], s[b])}]

(* The search is complete: every way to drive the group without a meeting  *)
(* within the horizon still obeys the constraints of some open node, so    *)
(* splitting a conflict and dropping children without a path lose nothing. *)
SolutionsSurvive ==
  stage = "search" =>
    \A s \in Solutions[group] : \E n \in tree : \A a \in group : Obeys(a, s[a], n.cons)

(* Plans of a group in which the engine counts no conflict keep the        *)
(* vehicles apart in every second, the held goals and long lanes included. *)
NoConflictIsApart ==
  stage \in {"group", "done"} =>
    \A a, b \in DOMAIN answer :
      /\ a # b /\ GroupOf(a) = GroupOf(b)
      /\ Conflicts([x \in {a, b} |-> answer[x]]) = 0
      => Apart(answer[a], answer[b])

(* The search loses no solution, and what it counts as free of conflicts   *)
(* is: the two facts on which a returned set of plans rests.               *)
PlansAreSound == SolutionsSurvive /\ NoConflictIsApart
=============================================================================
