-------------------------- MODULE MCDispatchQueue --------------------------
(***************************************************************************)
(* Two small instances of the DispatchQueue in one run, of which the       *)
(* initial state chooses one: two orders of which one backs off while the  *)
(* other is worked on, and nothing raises; or one order with exceptions    *)
(* and crashes, so that the copies of several lives of the process meet.   *)
(***************************************************************************)
EXTENDS DispatchQueue

CONSTANTS o1, o2

VARIABLE story  \* "orders" or "faults"

StoryInit == Init /\ story \in {"orders", "faults"}

StoryNext ==
  /\ story' = story /\ Next
  /\ story = "orders" => faults' = 0
  /\ story = "faults" => status'[o2] = "NONE"

StorySpec == StoryInit /\ [][StoryNext]_<<vars, story>> /\ Fairness
=============================================================================
