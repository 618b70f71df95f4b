--------------------------- MODULE MCCoordinator ---------------------------
(* Small instances of the Coordinator: order o1 has two steps, o2 one.     *)
EXTENDS Coordinator, TLC

CONSTANTS o1, o2, a, b, c, l1, l2, l3

OneStep == (a :> o1)
TwoSteps == (a :> o1 @@ b :> o1)
TwoOrders == (a :> o1 @@ b :> o1 @@ c :> o2)
Steps == [t \in Task |-> IF t = b THEN 1 ELSE 0]

ShortRoutes == [t \in Task |-> IF t = a THEN <<l1, l2>> ELSE <<l2>>]
\* Two routes that part after the first lane.
Left == [t \in Task |-> <<l1, l2>>]
Right == [t \in Task |-> <<l1, l3>>]
=============================================================================
