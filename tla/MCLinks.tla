------------------------------- MODULE MCLinks -------------------------------
(***************************************************************************)
(* Four parts that talk to somebody else, checked in one run: the planner  *)
(* of the vehicles' ways, the clients of SAP, the robots on MQTT and the   *)
(* callbacks of the notification gateway.  The initial state chooses the   *)
(* part that runs; the others stay where they start.                       *)
(***************************************************************************)
EXTENDS Planner, SapSession, RobotWire, Notify

CONSTANTS v1, v2, v3, v4, z1, z2, e1, w1, r1, a1, recall, unlock, ud, c1, c2, t1, NoOne

VARIABLE part  \* the part that runs

\* The map: v1 and v2 drive through B towards each other and v1 may go round by D; v4
\* has to pass the goal of v3, F.
Starts(a) == CASE a = v1 -> "A" [] a = v2 -> "C" [] a = v3 -> "E" [] OTHER -> "G"
Goals(a) == CASE a = v1 -> "C" [] a = v2 -> "A" [] a = v3 -> "F" [] OTHER -> "H"
AnyModel(a, l) == TRUE
Lane(i, x, y, t) == [id |-> i, from |-> x, to |-> y, time |-> t, length |-> t, open |-> TRUE]
Map == {Lane("AB", "A", "B", 1), Lane("BA", "B", "A", 1), Lane("BC", "B", "C", 1),
        Lane("CB", "C", "B", 1), Lane("AD", "A", "D", 1), Lane("DC", "D", "C", 2),
        Lane("EF", "E", "F", 1), Lane("GF", "G", "F", 1), Lane("FH", "F", "H", 1)}

\* Two lanes beside each other from A to B, one of them slow: v1 drives on to C, v2
\* comes from D and leaves B for A.
TwinStarts(a) == IF a = v1 THEN "A" ELSE "D"
TwinGoals(a) == IF a = v1 THEN "C" ELSE "A"
TwinMap == {Lane("fast", "A", "B", 1), Lane("slow", "A", "B", 3), Lane("BA", "B", "A", 1),
            Lane("BC", "B", "C", 3), Lane("DB", "D", "B", 2)}

\* The threads that work together: of one client, of two, and one over RFC.
GroupsOfCallers == {{z1, z2}, {z1, e1}, {w1}}

\* The alert asks for a dangerous operation; MCServices has the other kind.
AsksFor(a) == recall
Asks(a) == {ud}

Runs(p) == part = p

LinksInit ==
  /\ part \in {"planner", "sap", "wire", "click"}
  /\ PlannerInit /\ Init /\ WireInit /\ NotifyInit
  /\ Runs("planner") \/ corridor = CHOOSE c \in Corridors : TRUE
  /\ Runs("sap") \/ threads = {w1}
  /\ Runs("wire") \/ (gateway = "up" /\ brand[r1] = "mir")

LinksNext ==
  /\ part' = part
  /\ \/ Runs("planner") /\ PlannerNext /\ UNCHANGED <<vars, wvars, nvars>>
     \/ Runs("sap") /\ Next /\ UNCHANGED <<pvars, wvars, nvars>>
     \/ Runs("wire") /\ WireNext /\ UNCHANGED <<pvars, vars, nvars>>
     \/ Runs("click") /\ NotifyNext /\ UNCHANGED <<pvars, vars, wvars>>

LinksSpec == LinksInit /\ [][LinksNext]_<<part, pvars, vars, wvars, nvars>>

-----------------------------------------------------------------------------
\* Every variable of a part has its type.
TypesOK == PlannerTypeOK /\ TypeOK /\ WireTypeOK /\ NotifyTypeOK
=============================================================================
