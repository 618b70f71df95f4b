--------------------------- MODULE SapConfirmProofs ---------------------------
(***************************************************************************)
(* What SAP is told was done, by a robot, and what the bridge parks for    *)
(* manual review SAP still has open: for any tasks, robots and quantities, *)
(* any number of retries, lost answers and restarts, and every mode.       *)
(*                                                                         *)
(* No claim is inductive by itself.  A confirmation is made of what the    *)
(* bridge read before its last awaits, so the first needs that nothing it  *)
(* holds can become untrue (HeldIsTrue); the second needs that SAP's list  *)
(* and the books keep out of the loop what is confirmed (BooksFollow).     *)
(***************************************************************************)
EXTENDS SapConfirm, TLAPS

-----------------------------------------------------------------------------
(* The inductive invariant.                                                *)

\* What the bridge holds was true once, and stays true: a task it saw completed is,
\* a pick result it keeps was reported, and what it has in hand for step 2 is both.
HeldIsTrue ==
  /\ seen.done \subseteq completed
  /\ \A t \in Tasks : picks[t] # NoQty => <<t, picks[t]>> \in reported
  /\ pc = "step2" => /\ mode.zewm /\ hand.task \in completed /\ hand.task \in todo
                     /\ hand.tries > 0 /\ <<hand.task, hand.qty>> \in reported

\* A task that SAP has confirmed is not listed as open, so it is neither forwarded
\* again nor, once it is in the books as confirmed or parked, looked at again.
BooksFollow ==
  /\ \A t \in Tasks : sap.conf[t] # NoQty =>
       t \notin sap.open /\ (t \in submitted => t \in confirmed \cup unsure)
  /\ pc = "submit" => todo \subseteq sap.open
  /\ pc \in {"check", "step2"} => todo \subseteq submitted \ (confirmed \cup review)

Places ==
  /\ mode \in Modes /\ pc \in {"rest", "submit", "check", "step2"}
  /\ polls \in 0..CleanupEvery - 1 /\ faults \in 0..MaxFaults

Books ==
  /\ completed \subseteq Tasks /\ failed \subseteq Tasks /\ submitted \subseteq Tasks
  /\ confirmed \subseteq Tasks /\ assigned \subseteq Tasks /\ review \subseteq Tasks
  /\ todo \subseteq Tasks /\ unsure \subseteq Tasks
  /\ reported \subseteq Tasks \X Quantities

Maps ==
  /\ queued \in [Tasks -> 0..MaxCopies] /\ active \in [Robots -> Tasks \cup {None}]
  /\ robotFor \in [Tasks -> Robots \cup {None}] /\ inactive \in [Tasks -> -1..GracePolls]
  /\ picks \in [Tasks -> Quantities \cup {NoQty}]

Records == sap \in Saps /\ seen \in Lists /\ hand \in Hands

\* The parts of TypeOK.
Typed == Places /\ Books /\ Maps /\ Records

SapInv == HeldIsTrue /\ BooksFollow /\ ConfirmIsEarned /\ ParkedIsOpen

-----------------------------------------------------------------------------
(* The constants, and the operators of the model.                          *)
\* The bounds are numbers, and the marks of "no quantity" are no quantity.
LEMMA Constants ==
  /\ GracePolls \in Nat /\ StepTries \in Nat /\ StepTries >= 1
  /\ CleanupEvery \in Nat /\ CleanupEvery >= 1
  /\ MaxCopies \in Nat /\ MaxFaults \in Nat
<1>1. {GracePolls, StepTries, CleanupEvery} \subseteq Nat \ {0}
      /\ {Retention, MaxCopies, MaxFaults} \subseteq Nat
  BY ModeAssumption DEF ModeAssumption
<1> QED BY <1>1

\* What stands for "no quantity" is none that a robot reports.
LEMMA Marks ==
  /\ Exact = 0 /\ NoQty = -1 /\ NoQty \notin Quantities /\ Quantities \subseteq Nat \ {0}
<1>1. Quantities \subseteq Nat \ {0}
  BY ModeAssumption DEF ModeAssumption
<1> QED BY <1>1 DEF Exact, NoQty

\* A confirmation is entered once, and closes the task.
LEMMA ConfirmedIs ==
  ASSUME sap \in Saps, NEW t \in Tasks, NEW w \in Quantities \cup {Exact}
  PROVE  /\ Confirmed(t, w) \in Saps
         /\ Confirmed(t, w).open = sap.open \ {t}
         /\ Confirmed(t, w).conf = [sap.conf EXCEPT ![t] = IF @ = NoQty THEN w ELSE @]
<1>1. PICK c : c = [sap.conf EXCEPT ![t] = IF @ = NoQty THEN w ELSE @]
  OBVIOUS
<1>2. PICK d : d = [sap EXCEPT !.conf = c]
  OBVIOUS
<1>3. PICK e : e = [d EXCEPT !.open = @ \ {t}]
  OBVIOUS
<1>4. c \in [Tasks -> Quantities \cup {Exact, NoQty}]
  BY <1>1 DEF Saps
<1>5. d \in Saps /\ d.open = sap.open /\ d.conf = c
  BY <1>2, <1>4 DEF Saps
<1>6. e \in Saps /\ e.open = sap.open \ {t} /\ e.conf = c
  BY <1>3, <1>5 DEF Saps
<1>7. Confirmed(t, w) = e
  BY <1>1, <1>2, <1>3, <1>5 DEF Confirmed
<1> QED BY <1>1, <1>6, <1>7

\* So a confirmation changes what SAP has of that task alone, and that once.
LEMMA ConfirmedOnce ==
  ASSUME sap \in Saps, NEW t \in Tasks, NEW w \in Quantities \cup {Exact},
         sap' = Confirmed(t, w)
  PROVE  /\ sap'.open = sap.open \ {t}
         /\ \A u \in Tasks \ {t} : sap'.conf[u] = sap.conf[u]
         /\ sap'.conf[t] = IF sap.conf[t] = NoQty THEN w ELSE sap.conf[t]
<1>1. sap.conf \in [Tasks -> Quantities \cup {Exact, NoQty}]
  BY DEF Saps
<1>2. /\ sap'.open = sap.open \ {t}
      /\ sap'.conf = [sap.conf EXCEPT ![t] = IF @ = NoQty THEN w ELSE @]
  BY ConfirmedIs
<1> QED BY <1>1, <1>2

\* Assigning a WHO, or taking it back, moves no task.
LEMMA AssignedIs ==
  ASSUME sap \in Saps, NEW t \in Tasks, NEW r \in Robots \cup {None}
  PROVE  /\ [sap EXCEPT !.who[t] = r] \in Saps
         /\ [sap EXCEPT !.who[t] = r].open = sap.open
         /\ [sap EXCEPT !.who[t] = r].conf = sap.conf
<1>1. PICK c : c = [sap.who EXCEPT ![t] = r]
  OBVIOUS
<1>2. PICK d : d = [sap EXCEPT !.who = c]
  OBVIOUS
<1>3. c \in [Tasks -> Robots \cup {None}]
  BY <1>1 DEF Saps
<1>4. d \in Saps /\ d.open = sap.open /\ d.conf = sap.conf
  BY <1>2, <1>3 DEF Saps
<1>5. [sap EXCEPT !.who[t] = r] = d
  BY <1>1, <1>2
<1> QED BY <1>4, <1>5

\* A task that the bridge takes for completed is on the list that it read.
LEMMA DoneIsSeen ==
  ASSUME mode \in Modes, NEW t \in Tasks, IsDone(t)
  PROVE  t \in seen.done
<1>1. PICK u \in seen.done : <<t>> = DoneId(u)
  BY DEF IsDone
<1>2. CASE mode.naming = "plan"
  BY <1>1, <1>2 DEF DoneId
<1>3. CASE mode.naming # "plan"
  BY <1>1, <1>3 DEF DoneId, OrderId
<1> QED BY <1>2, <1>3

\* The bridge's hand and list are of their types when they are empty.
LEMMA EmptyTyped == NoHand \in Hands /\ Nothing \in Lists
  BY Constants DEF NoHand, Nothing, Hands, Lists

-----------------------------------------------------------------------------
(* What the steps of the loop do.                                          *)

\* Whatever the world does, these are left alone.
Apart == UNCHANGED <<mode, sap, books, pc, todo, seen, hand, polls, unsure>>

\* The task's round is over, and with it perhaps the cycle.
RoundEnds(t) == hand' = NoHand /\ pc' \in {"rest", "check"} /\ todo' \subseteq todo \ {t}

\* A round ends with the next task, or with the cycle.
LEMMA RoundIsOver ==
  ASSUME NEW t \in Tasks, Proceed(t) \/ Abort
  PROVE  RoundEnds(t)
BY DEF Proceed, Abort, RoundEnds

\* The faults stay within their bound.
LEMMA FaultCounts == Places /\ Fault => faults' \in 0..MaxFaults
BY Constants DEF Places, Fault

\* Step 1 has the result in hand, or the round is over.
LEMMA StepOneIs ==
  ASSUME Typed, NEW t \in Tasks, NEW a \in Answers, StepOne(t, a)
  PROVE  /\ UNCHANGED <<rest, unsure, sap, books, picks>> /\ faults' \in 0..MaxFaults
         /\ \/ RoundEnds(t)
            \/ /\ picks[t] \in Quantities /\ pc' = "step2" /\ todo' = todo
               /\ hand' = [task |-> t, qty |-> picks[t], tries |-> StepTries]
<1>1. UNCHANGED <<rest, unsure, sap, books, picks>>
  BY DEF StepOne
<1>2. faults' \in 0..MaxFaults
  BY FaultCounts DEF StepOne, Typed, Places
<1>3. CASE a # "ok"
  <2>1. Proceed(t) \/ Abort
    BY <1>3 DEF StepOne, Answers
  <2> QED BY <1>1, <1>2, <2>1, RoundIsOver
<1>4. CASE a = "ok" /\ picks[t] = NoQty
  <2>1. Proceed(t)
    BY <1>4 DEF StepOne, Pick
  <2> QED BY <1>1, <1>2, <2>1, RoundIsOver
<1>5. CASE a = "ok" /\ picks[t] # NoQty
  <2>1. picks[t] \in Quantities
    BY <1>5 DEF Typed, Maps
  <2>2. /\ hand' = [task |-> t, qty |-> picks[t], tries |-> StepTries]
        /\ pc' = "step2" /\ todo' = todo
    BY <1>5 DEF StepOne, Pick
  <2> QED BY <1>1, <1>2, <2>1, <2>2
<1> QED BY <1>3, <1>4, <1>5

\* Step 2 is tried again, or the round is over: confirmed, perhaps confirmed, parked.
StepTwoAs(a, t) ==
  /\ UNCHANGED <<rest, assigned>> /\ faults' \in 0..MaxFaults
  /\ sap' = IF a = "refused" THEN sap ELSE Confirmed(t, hand.qty)
  /\ \/ /\ a = "ok" /\ RoundEnds(t) /\ confirmed' = confirmed \cup {t}
        /\ review' = review /\ unsure' = unsure
        /\ inactive' = [inactive EXCEPT ![t] = -1]
        /\ picks' = [picks EXCEPT ![t] = NoQty]
        /\ robotFor' = [robotFor EXCEPT ![t] = None]
     \/ /\ a = "lost" /\ RoundEnds(t) /\ unsure' = unsure \cup {t}
        /\ UNCHANGED <<confirmed, review, inactive, robotFor, picks>>
     \/ /\ a = "refused" /\ hand.tries > 1 /\ hand' = [hand EXCEPT !.tries = @ - 1]
        /\ UNCHANGED <<confirmed, review, inactive, robotFor, picks, pc, todo, unsure>>
     \/ /\ a = "refused" /\ RoundEnds(t) /\ review' = review \cup {t}
        /\ UNCHANGED <<confirmed, inactive, robotFor, picks, unsure>>

\* No attempt of step 2 does anything else.
LEMMA StepTwoIs ==
  ASSUME Typed, HeldIsTrue, NEW a \in Answers, StepTwo(a)
  PROVE  hand.task \in Tasks /\ StepTwoAs(a, hand.task)
<1>1. pc = "step2" /\ hand.task \in todo /\ hand.task \in Tasks
  BY DEF StepTwo, HeldIsTrue, Typed, Books
<1>2. hand.tries \in Nat /\ hand.tries > 0
  BY <1>1, Constants DEF HeldIsTrue, Typed, Records, Hands
<1>3. UNCHANGED <<rest, assigned>> /\ faults' \in 0..MaxFaults
  BY FaultCounts DEF StepTwo, Typed, Places
<1>4. sap' = IF a = "refused" THEN sap ELSE Confirmed(hand.task, hand.qty)
  BY DEF StepTwo
<1>5. CASE a = "ok"
  <2>1. Proceed(hand.task)
    BY <1>5 DEF StepTwo
  <2>2. RoundEnds(hand.task)
    BY <1>1, <2>1, RoundIsOver
  <2>3. /\ Closed(hand.task) /\ review' = review /\ unsure' = unsure
        /\ picks' = [picks EXCEPT ![hand.task] = NoQty]
        /\ robotFor' = [robotFor EXCEPT ![hand.task] = None]
    BY <1>5 DEF StepTwo
  <2> QED BY <1>1, <1>3, <1>4, <1>5, <2>2, <2>3 DEF StepTwoAs, Closed
<1>6. CASE a = "lost"
  <2>1. Abort
    BY <1>6 DEF StepTwo
  <2>2. RoundEnds(hand.task)
    BY <1>1, <2>1, RoundIsOver
  <2>3. /\ UNCHANGED <<confirmed, review, inactive, robotFor, picks>>
        /\ unsure' = unsure \cup {hand.task}
    BY <1>6 DEF StepTwo
  <2> QED BY <1>1, <1>3, <1>4, <1>6, <2>2, <2>3 DEF StepTwoAs
<1>7. CASE a = "refused" /\ hand.tries > 1
  <2>1. hand.tries # 1
    BY <1>2, <1>7
  <2>2. UNCHANGED <<confirmed, review, inactive, robotFor, picks, pc, todo>>
    BY <1>7, <2>1, ZenonT(30) DEF StepTwo
  <2>3. hand' = [hand EXCEPT !.tries = @ - 1]
    BY <1>7, <2>1, ZenonT(30) DEF StepTwo
  <2>4. unsure' = unsure
    BY <1>7 DEF StepTwo
  <2>5. UNCHANGED <<confirmed, review, inactive, robotFor, picks, pc, todo, unsure>>
    BY <2>2, <2>4
  <2>6. StepTwoAs(a, hand.task)
    BY <1>3, <1>4, <1>7, <2>3, <2>5, Zenon DEF StepTwoAs
  <2> QED BY <1>1, <2>6
<1>8. CASE a = "refused" /\ hand.tries = 1
  <2>1. Proceed(hand.task)
    BY <1>8 DEF StepTwo
  <2>2. RoundEnds(hand.task)
    BY <1>1, <2>1, RoundIsOver
  <2>3. /\ RanOut(hand.task) /\ unsure' = unsure
        /\ UNCHANGED <<inactive, robotFor, picks>>
    BY <1>8 DEF StepTwo
  <2> QED BY <1>1, <1>3, <1>4, <1>8, <2>2, <2>3 DEF StepTwoAs, RanOut
<1> QED BY <1>2, <1>5, <1>6, <1>7, <1>8 DEF Answers

-----------------------------------------------------------------------------
(* The invariant.                                                          *)

\* Nothing is forwarded, confirmed or parked at first.
LEMMA SapStarts == Init => Typed /\ SapInv
<1> SUFFICES ASSUME Init PROVE Typed /\ SapInv
  OBVIOUS
<1>1. sap \in Saps /\ seen \in Lists /\ hand \in Hands
  BY EmptyTyped DEF Init, Saps, Nobody, NoPicks
<1>2. Places /\ Books
  BY Constants DEF Init, Places, Books
<1>3. Maps
  BY Constants DEF Init, Maps, Nobody, NoPicks
<1>4. SapInv
  BY DEF Init, SapInv, HeldIsTrue, BooksFollow, ConfirmIsEarned, ParkedIsOpen,
     NoPicks, Nothing
<1> QED BY <1>1, <1>2, <1>3, <1>4 DEF Typed, Records

\* Each operation of the world, the bridge and the process keeps the types.
LEMMA TypeKept == Typed /\ HeldIsTrue /\ [Next]_vars => Typed'
<1> SUFFICES ASSUME Typed, HeldIsTrue, [Next]_vars PROVE Typed'
  OBVIOUS
<1> USE DEF Typed, world, books, rest
<1>1. ASSUME NEW r \in Robots, NEW t \in Tasks, Assign(r, t),
             UNCHANGED <<picks, reported, faults>>, Apart
      PROVE  Typed'
  <2>1. Places'
    BY <1>1, Constants DEF Places, Assign, Apart
  <2>2. Books'
    BY <1>1 DEF Books, Assign, Apart
  <2>3. Maps'
    BY <1>1, Constants DEF Maps, Assign, Apart
  <2>4. Records'
    BY <1>1 DEF Records, Assign, Apart
  <2> QED BY <2>1, <2>2, <2>3, <2>4 DEF Typed
<1>2. ASSUME NEW r \in Robots, Complete(r), UNCHANGED <<picks, reported, faults>>, Apart
      PROVE  Typed'
  <2>1. Places'
    BY <1>2, Constants DEF Places, Complete, Apart
  <2>2. Books'
    BY <1>2 DEF Books, Maps, Complete, Apart
  <2>3. Maps'
    BY <1>2, Constants DEF Maps, Complete, Apart
  <2>4. Records'
    BY <1>2 DEF Records, Complete, Apart
  <2> QED BY <2>1, <2>2, <2>3, <2>4 DEF Typed
<1>3. ASSUME NEW r \in Robots, Lose(r), Fault, UNCHANGED <<picks, reported>>, Apart
      PROVE  Typed'
  <2>1. Places'
    BY <1>3, Constants DEF Places, Lose, Fault, Apart
  <2>2. Books'
    BY <1>3 DEF Books, Maps, Lose, Fault, Apart
  <2>3. Maps'
    BY <1>3, Constants DEF Maps, Lose, Fault, Apart
  <2>4. Records'
    BY <1>3 DEF Records, Lose, Fault, Apart
  <2> QED BY <2>1, <2>2, <2>3, <2>4 DEF Typed
<1>4. ASSUME NEW t \in Tasks, NEW q \in Quantities, Record(t, q),
             UNCHANGED <<world, faults>>, Apart
      PROVE  Typed'
  <2>1. Places'
    BY <1>4, Constants DEF Places, Record, Apart
  <2>2. Books'
    BY <1>4 DEF Books, Record, Apart
  <2>3. Maps'
    BY <1>4, Constants DEF Maps, Record, Apart
  <2>4. Records'
    BY <1>4 DEF Records, Record, Apart
  <2> QED BY <2>1, <2>2, <2>3, <2>4 DEF Typed
<1>5. ASSUME PollSap
      PROVE  Typed'
  <2>1. Places'
    BY <1>5, Constants DEF Places, PollSap
  <2>2. Books'
    BY <1>5 DEF Books, Records, Saps, PollSap
  <2>3. Maps'
    BY <1>5, Constants DEF Maps, PollSap
  <2>4. Records'
    BY <1>5 DEF Records, PollSap
  <2> QED BY <2>1, <2>2, <2>3, <2>4 DEF Typed
<1>6. ASSUME NEW t \in Tasks, NEW a \in Answers, Submit(t, a)
      PROVE  Typed'
  <2>1. Places'
    BY <1>6, Constants DEF Places, Submit, Fault
  <2>2. Books'
    BY <1>6 DEF Books, Submit, Fault
  <2>3. Maps'
    BY <1>6, Constants DEF Maps, Submit, Fault
  <2>4. Records'
    BY <1>6 DEF Records, Submit, Fault
  <2> QED BY <2>1, <2>2, <2>3, <2>4 DEF Typed
<1>7. ASSUME NEW a \in BOOLEAN, PollState(a)
      PROVE  Typed'
  <2>1. Places'
    BY <1>7, Constants DEF Places, PollState, Fault
  <2>2. Books'
    BY <1>7 DEF Books, PollState, Fault
  <2>3. Maps'
    <3>1. \A t \in Tasks : Aged[t] \in -1..GracePolls
      BY Constants DEF Maps, Aged
    <3>2. \A t \in Tasks : Known[t] \in Robots \cup {None}
      BY DEF Maps, Known
    <3>3. Aged \in [Tasks -> -1..GracePolls] /\ Known \in [Tasks -> Robots \cup {None}]
      BY <3>1, <3>2 DEF Aged, Known
    <3> QED BY <1>7, <3>3 DEF Maps, PollState
  <2>4. Records'
    BY <1>7 DEF Records, Books, Maps, Lists, PollState, Fault
  <2> QED BY <2>1, <2>2, <2>3, <2>4 DEF Typed
<1>8. ASSUME NEW t \in Tasks, NEW a \in Answers, StillActive(t, a)
      PROVE  Typed'
  <2>1. Places'
    BY <1>8, Constants DEF Places, StillActive, Looking, Answer, Abort, Proceed, Fault
  <2>2. Books'
    BY <1>8 DEF Books, StillActive, Looking, Answer, Abort, Proceed, Fault
  <2>3. Maps'
    BY <1>8, Constants DEF Maps, StillActive, Looking, Answer, Abort, Proceed, Fault
  <2>4. Records'
    <3>1. sap' = sap \/ sap' = [sap EXCEPT !.who[t] = robotFor[t]]
      BY <1>8 DEF StillActive
    <3>2. robotFor[t] \in Robots \cup {None}
      BY DEF Maps
    <3>3. sap' \in Saps
      BY <3>1, <3>2, AssignedIs DEF Records
    <3>4. hand' = NoHand /\ seen' = seen
      BY <1>8 DEF StillActive, Answer, Abort, Proceed
    <3> QED BY <3>3, <3>4, EmptyTyped DEF Records
  <2> QED BY <2>1, <2>2, <2>3, <2>4 DEF Typed
<1>9. ASSUME NEW t \in Tasks, ParkUnknown(t)
      PROVE  Typed'
  <2>1. Places'
    BY <1>9, Constants DEF Places, ParkUnknown, Park, Looking, Proceed
  <2>2. Books'
    BY <1>9 DEF Books, ParkUnknown, Park, Looking, Proceed
  <2>3. Maps'
    BY <1>9, Constants DEF Maps, ParkUnknown, Park, Looking, Proceed
  <2>4. Records'
    BY <1>9, EmptyTyped DEF Records, ParkUnknown, Park, Looking, Proceed
  <2> QED BY <2>1, <2>2, <2>3, <2>4 DEF Typed
<1>10. ASSUME NEW t \in Tasks, NEW a \in Answers, StepOne(t, a)
      PROVE  Typed'
  <2>1. Places'
    BY <1>10, StepOneIs DEF Places, RoundEnds
  <2>2. Books'
    BY <1>10, StepOneIs DEF Books, RoundEnds
  <2>3. Maps'
    BY <1>10, StepOneIs DEF Maps, RoundEnds
  <2>4. Records'
    <3>1. hand' \in Hands
      BY <1>10, StepOneIs, EmptyTyped, Constants DEF RoundEnds, Hands
    <3> QED BY <1>10, <3>1, StepOneIs DEF Records
  <2> QED BY <2>1, <2>2, <2>3, <2>4 DEF Typed
<1>11. ASSUME NEW a \in Answers, StepTwo(a)
      PROVE  Typed'
  <2>1. Places'
    BY <1>11, StepTwoIs DEF Places, StepTwoAs, RoundEnds
  <2>2. Books'
    BY <1>11, StepTwoIs DEF Books, StepTwoAs, RoundEnds
  <2>3. Maps'
    BY <1>11, StepTwoIs, Constants DEF Maps, StepTwoAs
  <2>4. Records'
    <3>1. /\ hand.task \in Tasks /\ StepTwoAs(a, hand.task)
          /\ hand.qty \in Quantities \cup {Exact}
      BY <1>11, StepTwoIs DEF Records, Hands
    <3>2. sap' \in Saps
      BY <3>1, ConfirmedIs DEF StepTwoAs, Records
    <3>3. [hand EXCEPT !.tries = @ - 1] \in Hands \/ ~(hand.tries > 1)
      BY Constants DEF Records, Hands
    <3>4. hand' \in Hands
      BY <3>1, <3>3, EmptyTyped DEF StepTwoAs, RoundEnds
    <3> QED BY <3>1, <3>2, <3>4 DEF Records, StepTwoAs
  <2> QED BY <2>1, <2>2, <2>3, <2>4 DEF Typed
<1>12. ASSUME NEW t \in Tasks, NEW a \in Answers, NEW raises \in BOOLEAN,
             BackendConfirm(t, a, raises)
      PROVE  Typed'
  <2>1. Places'
    BY <1>12, Constants DEF Places, BackendConfirm, Looking, Closed, Abort, Proceed, Fault
  <2>2. Books'
    BY <1>12 DEF Books, BackendConfirm, Looking, Closed, Abort, Proceed, Fault
  <2>3. Maps'
    BY <1>12, Constants DEF Maps, BackendConfirm, Looking, Closed, Abort, Proceed, Fault
  <2>4. Records'
    <3>1. sap' = sap \/ sap' = Confirmed(t, Exact)
      BY <1>12 DEF BackendConfirm
    <3>2. Confirmed(t, Exact) \in Saps /\ sap \in Saps
      BY ConfirmedIs DEF Records
    <3>3. hand' = NoHand /\ seen' = seen
      BY <1>12 DEF BackendConfirm, Abort, Proceed
    <3> QED BY <3>1, <3>2, <3>3, EmptyTyped DEF Records
  <2> QED BY <2>1, <2>2, <2>3, <2>4 DEF Typed
<1>13. ASSUME NEW t \in Tasks, NEW a \in Answers, Failed(t, a)
      PROVE  Typed'
  <2>1. Places'
    BY <1>13, Constants DEF Places, Failed, Looking, Answer, Abort, Proceed, Fault
  <2>2. Books'
    BY <1>13 DEF Books, Failed, Looking, Answer, Abort, Proceed, Fault
  <2>3. Maps'
    BY <1>13, Constants DEF Maps, Failed, Looking, Answer, Abort, Proceed, Fault
  <2>4. Records'
    <3>1. sap' = sap \/ sap' = [sap EXCEPT !.who[t] = None]
      BY <1>13 DEF Failed
    <3>2. sap' \in Saps
      BY <3>1, AssignedIs DEF Records
    <3>3. hand' = NoHand /\ seen' = seen
      BY <1>13 DEF Failed, Answer, Abort, Proceed
    <3> QED BY <3>2, <3>3, EmptyTyped DEF Records
  <2> QED BY <2>1, <2>2, <2>3, <2>4 DEF Typed
<1>14. ASSUME NEW t \in Tasks, ParkSilent(t)
      PROVE  Typed'
  <2>1. Places'
    BY <1>14, Constants DEF Places, ParkSilent, Park, Looking, Proceed
  <2>2. Books'
    BY <1>14 DEF Books, ParkSilent, Park, Looking, Proceed
  <2>3. Maps'
    BY <1>14, Constants DEF Maps, ParkSilent, Park, Looking, Proceed
  <2>4. Records'
    BY <1>14, EmptyTyped DEF Records, ParkSilent, Park, Looking, Proceed
  <2> QED BY <2>1, <2>2, <2>3, <2>4 DEF Typed
<1>15. ASSUME NEW t \in Tasks, Wait(t)
      PROVE  Typed'
  <2>1. Places'
    BY <1>15, Constants DEF Places, Wait, Looking, Proceed
  <2>2. Books'
    BY <1>15 DEF Books, Wait, Looking, Proceed
  <2>3. Maps'
    BY <1>15, Constants DEF Maps, Wait, Looking, Proceed
  <2>4. Records'
    BY <1>15, EmptyTyped DEF Records, Wait, Looking, Proceed
  <2> QED BY <2>1, <2>2, <2>3, <2>4 DEF Typed
<1>16. ASSUME Finish
      PROVE  Typed'
  <2>1. Places'
    BY <1>16, Constants DEF Places, Finish
  <2>2. Books'
    BY <1>16 DEF Books, Finish
  <2>3. Maps'
    BY <1>16, Constants DEF Maps, Finish
  <2>4. Records'
    BY <1>16, EmptyTyped DEF Records, Finish
  <2> QED BY <2>1, <2>2, <2>3, <2>4 DEF Typed
<1>17. ASSUME Restart
      PROVE  Typed'
  <2>1. Places'
    BY <1>17, Constants DEF Places, Restart, Fault
  <2>2. Books'
    BY <1>17 DEF Books, Restart, Fault
  <2>3. Maps'
    BY <1>17, Constants DEF Maps, Restart, Fault, Nobody, NoPicks
  <2>4. Records'
    BY <1>17, EmptyTyped DEF Records, Restart, Fault
  <2> QED BY <2>1, <2>2, <2>3, <2>4 DEF Typed
<1>18. ASSUME UNCHANGED vars
      PROVE  Typed'
  <2>1. Places'
    BY <1>18, Constants DEF Places, vars
  <2>2. Books'
    BY <1>18 DEF Books, vars
  <2>3. Maps'
    BY <1>18, Constants DEF Maps, vars
  <2>4. Records'
    BY <1>18 DEF Records, vars
  <2> QED BY <2>1, <2>2, <2>3, <2>4 DEF Typed
<1> QED BY <1>1, <1>2, <1>3, <1>4, <1>5, <1>6, <1>7, <1>8, <1>9, <1>10, <1>11, <1>12,
        <1>13, <1>14, <1>15, <1>16, <1>17, <1>18 DEF Next, World, Bridge, Apart

\* Each operation keeps what the bridge holds true, and its books in step with SAP.
LEMMA SapKept == Typed /\ SapInv /\ [Next]_vars => SapInv'
<1> SUFFICES ASSUME Typed, SapInv, [Next]_vars PROVE SapInv'
  OBVIOUS
<1> USE DEF Typed, SapInv, world, books, rest
<1>1. ASSUME NEW r \in Robots, NEW t \in Tasks, Assign(r, t),
             UNCHANGED <<picks, reported, faults>>, Apart
      PROVE  SapInv'
  <2>1. HeldIsTrue'
    BY <1>1 DEF HeldIsTrue, Assign, Apart
  <2>2. BooksFollow'
    BY <1>1 DEF BooksFollow, Assign, Apart
  <2>3. ConfirmIsEarned'
    BY <1>1 DEF ConfirmIsEarned, HeldIsTrue, Assign, Apart
  <2>4. ParkedIsOpen'
    BY <1>1 DEF ParkedIsOpen, BooksFollow, Assign, Apart
  <2> QED BY <2>1, <2>2, <2>3, <2>4 DEF SapInv
<1>2. ASSUME NEW r \in Robots, Complete(r), UNCHANGED <<picks, reported, faults>>, Apart
      PROVE  SapInv'
  <2>1. HeldIsTrue'
    BY <1>2 DEF HeldIsTrue, Complete, Apart
  <2>2. BooksFollow'
    BY <1>2 DEF BooksFollow, Complete, Apart
  <2>3. ConfirmIsEarned'
    BY <1>2 DEF ConfirmIsEarned, HeldIsTrue, Complete, Apart
  <2>4. ParkedIsOpen'
    BY <1>2 DEF ParkedIsOpen, BooksFollow, Complete, Apart
  <2> QED BY <2>1, <2>2, <2>3, <2>4 DEF SapInv
<1>3. ASSUME NEW r \in Robots, Lose(r), Fault, UNCHANGED <<picks, reported>>, Apart
      PROVE  SapInv'
  <2>1. HeldIsTrue'
    BY <1>3 DEF HeldIsTrue, Lose, Fault, Apart
  <2>2. BooksFollow'
    BY <1>3 DEF BooksFollow, Lose, Fault, Apart
  <2>3. ConfirmIsEarned'
    BY <1>3 DEF ConfirmIsEarned, HeldIsTrue, Lose, Fault, Apart
  <2>4. ParkedIsOpen'
    BY <1>3 DEF ParkedIsOpen, BooksFollow, Lose, Fault, Apart
  <2> QED BY <2>1, <2>2, <2>3, <2>4 DEF SapInv
<1>4. ASSUME NEW t \in Tasks, NEW q \in Quantities, Record(t, q),
             UNCHANGED <<world, faults>>, Apart
      PROVE  SapInv'
  <2>1. HeldIsTrue'
    BY <1>4 DEF HeldIsTrue, Maps, Record, Apart
  <2>2. BooksFollow'
    BY <1>4 DEF BooksFollow, Record, Apart
  <2>3. ConfirmIsEarned'
    BY <1>4 DEF ConfirmIsEarned, HeldIsTrue, Record, Apart
  <2>4. ParkedIsOpen'
    BY <1>4 DEF ParkedIsOpen, BooksFollow, Record, Apart
  <2> QED BY <2>1, <2>2, <2>3, <2>4 DEF SapInv
<1>5. ASSUME PollSap
      PROVE  SapInv'
  <2>1. HeldIsTrue'
    BY <1>5 DEF HeldIsTrue, PollSap
  <2>2. BooksFollow'
    BY <1>5 DEF BooksFollow, PollSap
  <2>3. ConfirmIsEarned'
    BY <1>5 DEF ConfirmIsEarned, HeldIsTrue, PollSap
  <2>4. ParkedIsOpen'
    BY <1>5 DEF ParkedIsOpen, BooksFollow, PollSap
  <2> QED BY <2>1, <2>2, <2>3, <2>4 DEF SapInv
<1>6. ASSUME NEW t \in Tasks, NEW a \in Answers, Submit(t, a)
      PROVE  SapInv'
  <2>1. HeldIsTrue'
    BY <1>6 DEF HeldIsTrue, Submit, Fault
  <2>2. BooksFollow'
    BY <1>6 DEF BooksFollow, Submit, Fault
  <2>3. ConfirmIsEarned'
    BY <1>6 DEF ConfirmIsEarned, HeldIsTrue, Submit, Fault
  <2>4. ParkedIsOpen'
    BY <1>6 DEF ParkedIsOpen, BooksFollow, Submit, Fault
  <2> QED BY <2>1, <2>2, <2>3, <2>4 DEF SapInv
<1>7. ASSUME NEW a \in BOOLEAN, PollState(a)
      PROVE  SapInv'
  <2>1. HeldIsTrue'
    BY <1>7 DEF HeldIsTrue, PollState, Fault
  <2>2. BooksFollow'
    BY <1>7 DEF BooksFollow, PollState, Fault
  <2>3. ConfirmIsEarned'
    BY <1>7 DEF ConfirmIsEarned, HeldIsTrue, PollState, Fault
  <2>4. ParkedIsOpen'
    BY <1>7 DEF ParkedIsOpen, BooksFollow, PollState, Fault
  <2> QED BY <2>1, <2>2, <2>3, <2>4 DEF SapInv
<1>8. ASSUME NEW t \in Tasks, NEW a \in Answers, StillActive(t, a)
      PROVE  SapInv'
  <2>1. HeldIsTrue'
    BY <1>8 DEF HeldIsTrue, StillActive, Looking, Answer, Abort, Proceed, Fault
  <2>2. BooksFollow'
    <3>1. sap' = sap \/ sap' = [sap EXCEPT !.who[t] = robotFor[t]]
      BY <1>8 DEF StillActive
    <3>2. robotFor[t] \in Robots \cup {None}
      BY DEF Maps
    <3>3. sap'.open = sap.open /\ sap'.conf = sap.conf
      BY <3>1, <3>2, AssignedIs DEF Records
    <3> QED BY <1>8, <3>3 DEF BooksFollow, StillActive, Looking, Answer, Abort, Proceed
  <2>3. ConfirmIsEarned'
    <3>1. sap' = sap \/ sap' = [sap EXCEPT !.who[t] = robotFor[t]]
      BY <1>8 DEF StillActive
    <3>2. robotFor[t] \in Robots \cup {None}
      BY DEF Maps
    <3>3. sap'.open = sap.open /\ sap'.conf = sap.conf
      BY <3>1, <3>2, AssignedIs DEF Records
    <3> QED BY <1>8, <3>3 DEF ConfirmIsEarned, StillActive
  <2>4. ParkedIsOpen'
    <3>1. sap' = sap \/ sap' = [sap EXCEPT !.who[t] = robotFor[t]]
      BY <1>8 DEF StillActive
    <3>2. robotFor[t] \in Robots \cup {None}
      BY DEF Maps
    <3>3. sap'.open = sap.open /\ sap'.conf = sap.conf
      BY <3>1, <3>2, AssignedIs DEF Records
    <3> QED BY <1>8, <3>3 DEF ParkedIsOpen, StillActive
  <2> QED BY <2>1, <2>2, <2>3, <2>4 DEF SapInv
<1>9. ASSUME NEW t \in Tasks, ParkUnknown(t)
      PROVE  SapInv'
  <2>1. HeldIsTrue'
    BY <1>9 DEF HeldIsTrue, ParkUnknown, Park, Looking, Proceed
  <2>2. BooksFollow'
    BY <1>9 DEF BooksFollow, ParkUnknown, Park, Looking, Proceed
  <2>3. ConfirmIsEarned'
    BY <1>9 DEF ConfirmIsEarned, HeldIsTrue, ParkUnknown, Park, Looking, Proceed
  <2>4. ParkedIsOpen'
    BY <1>9 DEF ParkedIsOpen, BooksFollow, ParkUnknown, Park, Looking, Proceed
  <2> QED BY <2>1, <2>2, <2>3, <2>4 DEF SapInv
<1>10. ASSUME NEW t \in Tasks, NEW a \in Answers, StepOne(t, a)
      PROVE  SapInv'
  <2>1. HeldIsTrue'
    <3>1. t \in todo /\ t \in completed /\ mode.zewm
      BY <1>10, DoneIsSeen DEF StepOne, Looking, HeldIsTrue, Places
    <3>2. picks[t] \in Quantities => <<t, picks[t]>> \in reported
      BY Marks DEF HeldIsTrue
    <3> QED BY <1>10, <3>1, <3>2, StepOneIs, Constants DEF HeldIsTrue, RoundEnds
  <2>2. BooksFollow'
    BY <1>10, StepOneIs DEF BooksFollow, RoundEnds, StepOne, Looking
  <2>3. ConfirmIsEarned'
    BY <1>10, StepOneIs DEF ConfirmIsEarned, RoundEnds
  <2>4. ParkedIsOpen'
    BY <1>10, StepOneIs DEF ParkedIsOpen, RoundEnds
  <2> QED BY <2>1, <2>2, <2>3, <2>4 DEF SapInv
<1>11. ASSUME NEW a \in Answers, StepTwo(a)
      PROVE  SapInv'
  <2>1. HeldIsTrue'
    <3>1. hand.task \in Tasks /\ StepTwoAs(a, hand.task) /\ hand \in Hands /\ pc = "step2"
      BY <1>11, StepTwoIs DEF Records, StepTwo
    <3>2. hand.tries > 1 => [hand EXCEPT !.tries = @ - 1].task = hand.task
                         /\ [hand EXCEPT !.tries = @ - 1].qty = hand.qty
                         /\ [hand EXCEPT !.tries = @ - 1].tries > 0
      BY <3>1, Constants DEF Hands
    <3>3. \A t \in Tasks : picks'[t] # NoQty => picks'[t] = picks[t]
      BY <3>1 DEF StepTwoAs, Maps
    <3> QED BY <3>1, <3>2, <3>3 DEF HeldIsTrue, StepTwoAs, RoundEnds
  <2>2. BooksFollow'
    <3>1. hand.task \in Tasks /\ StepTwoAs(a, hand.task) /\ hand \in Hands /\ pc = "step2"
      BY <1>11, StepTwoIs DEF Records, StepTwo
    <3>2. hand.qty \in Quantities \cup {Exact} /\ sap \in Saps
      BY <3>1 DEF Hands, Records
    <3>3. sap' = sap \/ sap' = Confirmed(hand.task, hand.qty)
      BY <3>1 DEF StepTwoAs
    <3>4. /\ sap'.open \subseteq sap.open
          /\ \A u \in Tasks \ {hand.task} : sap'.conf[u] = sap.conf[u]
          /\ \/ sap'.conf[hand.task] = sap.conf[hand.task]
             \/ /\ sap' = Confirmed(hand.task, hand.qty) /\ hand.task \notin sap'.open
                /\ sap'.conf[hand.task] = hand.qty /\ sap.conf[hand.task] = NoQty
      BY <3>1, <3>2, <3>3, ConfirmedOnce
    <3>5. todo \subseteq submitted \ (confirmed \cup review) /\ hand.task \in todo
      BY <3>1 DEF BooksFollow, HeldIsTrue
    <3>6. todo' \subseteq submitted' \ (confirmed' \cup review') /\ pc' # "submit"
      BY <3>1, <3>5 DEF StepTwoAs, RoundEnds
    <3>7. ASSUME NEW u \in Tasks, sap'.conf[u] # NoQty
          PROVE  u \notin sap'.open /\ (u \in submitted' => u \in confirmed' \cup unsure')
      <4>1. CASE u = hand.task /\ a # "refused"
        <5>1. sap' = Confirmed(hand.task, hand.qty)
          BY <3>1, <4>1 DEF StepTwoAs
        <5>2. hand.task \notin sap'.open
          BY <3>1, <3>2, <5>1, ConfirmedOnce
        <5>3. hand.task \in confirmed' \cup unsure'
          BY <3>1, <4>1 DEF StepTwoAs
        <5> QED BY <4>1, <5>2, <5>3
      <4>2. CASE u = hand.task /\ a = "refused"
        BY <3>1, <3>7, <4>2 DEF StepTwoAs, BooksFollow
      <4>3. CASE u # hand.task
        BY <3>1, <3>4, <3>7, <4>3 DEF StepTwoAs, BooksFollow
      <4> QED BY <4>1, <4>2, <4>3
    <3> QED BY <3>6, <3>7 DEF BooksFollow
  <2>3. ConfirmIsEarned'
    <3>1. hand.task \in Tasks /\ StepTwoAs(a, hand.task) /\ hand \in Hands /\ pc = "step2"
      BY <1>11, StepTwoIs DEF Records, StepTwo
    <3>2. hand.qty \in Quantities \cup {Exact} /\ sap \in Saps
      BY <3>1 DEF Hands, Records
    <3>3. sap' = sap \/ sap' = Confirmed(hand.task, hand.qty)
      BY <3>1 DEF StepTwoAs
    <3>4. /\ sap'.open \subseteq sap.open
          /\ \A u \in Tasks \ {hand.task} : sap'.conf[u] = sap.conf[u]
          /\ \/ sap'.conf[hand.task] = sap.conf[hand.task]
             \/ /\ sap' = Confirmed(hand.task, hand.qty) /\ hand.task \notin sap'.open
                /\ sap'.conf[hand.task] = hand.qty /\ sap.conf[hand.task] = NoQty
      BY <3>1, <3>2, <3>3, ConfirmedOnce
    <3>5. hand.task \in completed /\ <<hand.task, hand.qty>> \in reported
      BY <3>1 DEF HeldIsTrue
    <3> QED BY <3>1, <3>4, <3>5 DEF ConfirmIsEarned, StepTwoAs
  <2>4. ParkedIsOpen'
    <3>1. hand.task \in Tasks /\ StepTwoAs(a, hand.task) /\ hand \in Hands /\ pc = "step2"
      BY <1>11, StepTwoIs DEF Records, StepTwo
    <3>2. hand.qty \in Quantities \cup {Exact} /\ sap \in Saps
      BY <3>1 DEF Hands, Records
    <3>3. sap' = sap \/ sap' = Confirmed(hand.task, hand.qty)
      BY <3>1 DEF StepTwoAs
    <3>4. /\ sap'.open \subseteq sap.open
          /\ \A u \in Tasks \ {hand.task} : sap'.conf[u] = sap.conf[u]
          /\ \/ sap'.conf[hand.task] = sap.conf[hand.task]
             \/ /\ sap' = Confirmed(hand.task, hand.qty) /\ hand.task \notin sap'.open
                /\ sap'.conf[hand.task] = hand.qty /\ sap.conf[hand.task] = NoQty
      BY <3>1, <3>2, <3>3, ConfirmedOnce
    <3>5. hand.task \notin review /\ (sap.conf[hand.task] = NoQty \/ hand.task \in unsure)
      BY <3>1 DEF BooksFollow, HeldIsTrue
    <3>6. review' = review \/ (review' = review \cup {hand.task} /\ sap' = sap)
      BY <3>1, Zenon DEF StepTwoAs
    <3>7. unsure \subseteq unsure' /\ review \subseteq Tasks
      BY <3>1 DEF StepTwoAs, Books
    <3> QED BY <3>4, <3>5, <3>6, <3>7 DEF ParkedIsOpen
  <2> QED BY <2>1, <2>2, <2>3, <2>4 DEF SapInv
<1>12. ASSUME NEW t \in Tasks, NEW a \in Answers, NEW raises \in BOOLEAN,
             BackendConfirm(t, a, raises)
      PROVE  SapInv'
  <2>1. HeldIsTrue'
    BY <1>12 DEF HeldIsTrue, BackendConfirm, Looking, Closed, Abort, Proceed, Fault
  <2>2. BooksFollow'
    <3>1. t \in todo /\ pc = "check" /\ RoundEnds(t) /\ UNCHANGED <<rest, review>>
      BY <1>12, RoundIsOver DEF BackendConfirm, Looking
    <3>2. sap' = sap \/ sap' = Confirmed(t, Exact)
      BY <1>12 DEF BackendConfirm
    <3>3. /\ sap'.open \subseteq sap.open
          /\ \A u \in Tasks \ {t} : sap'.conf[u] = sap.conf[u]
      BY <3>2, ConfirmedOnce DEF Records
    <3>4. \/ a = "refused" /\ sap' = sap /\ confirmed' = confirmed /\ unsure' = unsure
          \/ a = "lost" /\ confirmed' = confirmed /\ unsure' = unsure \cup {t}
          \/ a = "ok" /\ confirmed' = confirmed \cup {t} /\ unsure' = unsure
      BY <1>12 DEF BackendConfirm, Closed, Answers
    <3>5. todo' \subseteq submitted' \ (confirmed' \cup review') /\ pc' # "submit"
      BY <3>1, <3>4 DEF RoundEnds, BooksFollow
    <3>6. ASSUME NEW u \in Tasks, sap'.conf[u] # NoQty
          PROVE  u \notin sap'.open /\ (u \in submitted' => u \in confirmed' \cup unsure')
      <4>1. CASE u = t /\ a # "refused"
        <5>1. sap' = Confirmed(t, Exact)
          BY <1>12, <4>1 DEF BackendConfirm
        <5>2. t \notin sap'.open
          BY <5>1, ConfirmedOnce DEF Records
        <5> QED BY <3>4, <4>1, <5>2
      <4>2. CASE u = t /\ a = "refused"
        BY <3>1, <3>4, <3>6, <4>2 DEF BooksFollow
      <4>3. CASE u # t
        BY <3>1, <3>3, <3>4, <3>6, <4>3 DEF BooksFollow
      <4> QED BY <4>1, <4>2, <4>3
    <3> QED BY <3>5, <3>6 DEF BooksFollow
  <2>3. ConfirmIsEarned'
    <3>1. t \in todo /\ pc = "check" /\ RoundEnds(t) /\ UNCHANGED <<rest, review>>
      BY <1>12, RoundIsOver DEF BackendConfirm, Looking
    <3>2. sap' = sap \/ sap' = Confirmed(t, Exact)
      BY <1>12 DEF BackendConfirm
    <3>3. /\ sap'.open \subseteq sap.open
          /\ \A u \in Tasks \ {t} : sap'.conf[u] = sap.conf[u]
      BY <3>2, ConfirmedOnce DEF Records
    <3>4. mode.auto \/ t \in completed
      BY <1>12, DoneIsSeen DEF BackendConfirm, Overdue, HeldIsTrue, Places
    <3>5. ~mode.zewm
      BY <1>12 DEF BackendConfirm
    <3> QED BY <3>1, <3>3, <3>4, <3>5 DEF ConfirmIsEarned
  <2>4. ParkedIsOpen'
    <3>1. t \in todo /\ pc = "check" /\ RoundEnds(t) /\ UNCHANGED <<rest, review>>
      BY <1>12, RoundIsOver DEF BackendConfirm, Looking
    <3>2. sap' = sap \/ sap' = Confirmed(t, Exact)
      BY <1>12 DEF BackendConfirm
    <3>3. /\ sap'.open \subseteq sap.open
          /\ \A u \in Tasks \ {t} : sap'.conf[u] = sap.conf[u]
      BY <3>2, ConfirmedOnce DEF Records
    <3>4. t \notin review /\ unsure \subseteq unsure' /\ review \subseteq Tasks
      BY <1>12, <3>1 DEF BackendConfirm, BooksFollow, Books
    <3> QED BY <3>1, <3>3, <3>4 DEF ParkedIsOpen
  <2> QED BY <2>1, <2>2, <2>3, <2>4 DEF SapInv
<1>13. ASSUME NEW t \in Tasks, NEW a \in Answers, Failed(t, a)
      PROVE  SapInv'
  <2>1. HeldIsTrue'
    BY <1>13 DEF HeldIsTrue, Failed, Looking, Answer, Abort, Proceed, Fault
  <2>2. BooksFollow'
    BY <1>13 DEF BooksFollow, Failed, Looking, Answer, Abort, Proceed, Fault
  <2>3. ConfirmIsEarned'
    BY <1>13 DEF ConfirmIsEarned, HeldIsTrue, Failed, Looking, Answer, Abort, Proceed,
       Fault
  <2>4. ParkedIsOpen'
    BY <1>13 DEF ParkedIsOpen, BooksFollow, Failed, Looking, Answer, Abort, Proceed, Fault
  <2> QED BY <2>1, <2>2, <2>3, <2>4 DEF SapInv
<1>14. ASSUME NEW t \in Tasks, ParkSilent(t)
      PROVE  SapInv'
  <2>1. HeldIsTrue'
    BY <1>14 DEF HeldIsTrue, ParkSilent, Park, Looking, Proceed
  <2>2. BooksFollow'
    BY <1>14 DEF BooksFollow, ParkSilent, Park, Looking, Proceed
  <2>3. ConfirmIsEarned'
    BY <1>14 DEF ConfirmIsEarned, HeldIsTrue, ParkSilent, Park, Looking, Proceed
  <2>4. ParkedIsOpen'
    BY <1>14 DEF ParkedIsOpen, BooksFollow, ParkSilent, Park, Looking, Proceed
  <2> QED BY <2>1, <2>2, <2>3, <2>4 DEF SapInv
<1>15. ASSUME NEW t \in Tasks, Wait(t)
      PROVE  SapInv'
  <2>1. HeldIsTrue'
    BY <1>15 DEF HeldIsTrue, Wait, Looking, Proceed
  <2>2. BooksFollow'
    BY <1>15 DEF BooksFollow, Wait, Looking, Proceed
  <2>3. ConfirmIsEarned'
    BY <1>15 DEF ConfirmIsEarned, HeldIsTrue, Wait, Looking, Proceed
  <2>4. ParkedIsOpen'
    BY <1>15 DEF ParkedIsOpen, BooksFollow, Wait, Looking, Proceed
  <2> QED BY <2>1, <2>2, <2>3, <2>4 DEF SapInv
<1>16. ASSUME Finish
      PROVE  SapInv'
  <2>1. HeldIsTrue'
    BY <1>16 DEF HeldIsTrue, Finish, Nothing
  <2>2. BooksFollow'
    BY <1>16 DEF BooksFollow, Finish
  <2>3. ConfirmIsEarned'
    BY <1>16 DEF ConfirmIsEarned, HeldIsTrue, Finish
  <2>4. ParkedIsOpen'
    BY <1>16 DEF ParkedIsOpen, BooksFollow, Finish
  <2> QED BY <2>1, <2>2, <2>3, <2>4 DEF SapInv
<1>17. ASSUME Restart
      PROVE  SapInv'
  <2>1. HeldIsTrue'
    BY <1>17 DEF HeldIsTrue, Restart, Fault, Nothing, NoPicks
  <2>2. BooksFollow'
    BY <1>17 DEF BooksFollow, Restart, Fault
  <2>3. ConfirmIsEarned'
    BY <1>17 DEF ConfirmIsEarned, HeldIsTrue, Restart, Fault
  <2>4. ParkedIsOpen'
    BY <1>17 DEF ParkedIsOpen, BooksFollow, Restart, Fault
  <2> QED BY <2>1, <2>2, <2>3, <2>4 DEF SapInv
<1>18. ASSUME UNCHANGED vars
      PROVE  SapInv'
  <2>1. HeldIsTrue'
    BY <1>18 DEF HeldIsTrue, vars
  <2>2. BooksFollow'
    BY <1>18 DEF BooksFollow, vars
  <2>3. ConfirmIsEarned'
    BY <1>18 DEF ConfirmIsEarned, HeldIsTrue, vars
  <2>4. ParkedIsOpen'
    BY <1>18 DEF ParkedIsOpen, BooksFollow, vars
  <2> QED BY <2>1, <2>2, <2>3, <2>4 DEF SapInv
<1> QED BY <1>1, <1>2, <1>3, <1>4, <1>5, <1>6, <1>7, <1>8, <1>9, <1>10, <1>11, <1>12,
        <1>13, <1>14, <1>15, <1>16, <1>17, <1>18 DEF Next, World, Bridge, Apart

\* The invariant holds of every behaviour.
LEMMA SapHolds == Spec => [](Typed /\ SapInv)
<1>1. (Typed /\ SapInv) /\ [Next]_vars => (Typed /\ SapInv)'
  BY TypeKept, SapKept DEF SapInv
<1> QED BY <1>1, SapStarts, PTL DEF Spec

-----------------------------------------------------------------------------
(* The results.                                                            *)

\* The lists, the books and what the loop has in hand keep their types.
THEOREM TypeCorrect == Spec => []TypeOK
<1>1. Typed => TypeOK
  BY DEF Typed, Places, Books, Maps, Records, TypeOK
<1> QED BY <1>1, SapHolds, PTL

\* confirm_task and the two steps of ZEWM are only called for what a robot has done,
\* and step 2 with a quantity that was reported for that very task.
THEOREM ConfirmationsAreEarned == Spec => []ConfirmIsEarned
<1>1. SapInv => ConfirmIsEarned
  BY DEF SapInv
<1> QED BY <1>1, SapHolds, PTL

\* _park_manual_review parks what SAP has open, but for answers that were lost and
\* books that were pruned.
THEOREM ParkedAreOpen == Spec => []ParkedIsOpen
<1>1. SapInv => ParkedIsOpen
  BY DEF SapInv
<1> QED BY <1>1, SapHolds, PTL

=============================================================================
