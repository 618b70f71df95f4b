------------------------------- MODULE Outbox -------------------------------
(***************************************************************************)
(* The transactional outbox: what an order owes SAP is a row of            *)
(* outbox_events, and Node-RED's outbox flow (outbox-nodes-v4.1.js) polls  *)
(* the rows that are PENDING, calls SAP for each, and reports the answer   *)
(* to the bridge, which counts the failures; the fifth is answered with    *)
(* needsDeadletter, and then the flow moves the row to the dead letters.   *)
(*                                                                         *)
(* A poll is injected every 30 seconds whether or not the one before has   *)
(* ended, and nothing marks a row as taken: polls overlap.                 *)
(***************************************************************************)
EXTENDS Integers, FiniteSets

CONSTANTS
  MaxRows,     \* bound: rows that are written
  Limit,       \* how many rows a poll fetches
  RetryLimit,  \* a row is fetched until it has failed that often
  Poll,        \* the polls that may be under way together
  MaxOutFaults \* bound: lost requests and restarts of Node-RED

ASSUME OutboxAssumption ==
  {MaxRows, Limit, RetryLimit, MaxOutFaults} \subseteq Nat /\ RetryLimit > 0

Row == 1..MaxRows  \* the ids, in the order of created_at

VARIABLES
  rows,       \* status and retry_count
  flights,    \* of each poll and row: where the row's message is in the flow
  letters,    \* the rows with a dead letter
  outFaults,
  abandoned   \* history: the rows of which a message was lost for good

ovars == <<rows, flights, letters, outFaults, abandoned>>

Steps == {"none", "fetched", "ok", "bad", "failed", "overdue"}

OutboxTypeOK ==
  /\ rows \in [Row -> [status : {"none", "PENDING", "SENT", "FAILED"},
                       retries : 0 .. RetryLimit + 2 * Cardinality(Poll) + MaxOutFaults]]
  /\ flights \in [Poll -> [Row -> Steps]]
  /\ letters \subseteq Row /\ abandoned \subseteq Row /\ outFaults \in 0..MaxOutFaults

OutboxInit ==
  /\ rows = [e \in Row |-> [status |-> "none", retries |-> 0]]
  /\ flights = [p \in Poll |-> [e \in Row |-> "none"]]
  /\ letters = {} /\ abandoned = {} /\ outFaults = 0

MoveTo(p, e, step) == flights' = [flights EXCEPT ![p][e] = step]

(* POST /outbox *)
Write(e) ==
  /\ rows[e].status = "none" /\ \A f \in 1 .. e - 1 : rows[f].status # "none"
  /\ rows' = [rows EXCEPT ![e].status = "PENDING"]
  /\ UNCHANGED <<flights, letters, outFaults, abandoned>>

(* GET /outbox/pending: the oldest rows, and a message for each of them. *)
Pending == {e \in Row : rows[e].status = "PENDING" /\ rows[e].retries < RetryLimit}
Fetched == {e \in Pending : Cardinality({f \in Pending : f < e}) < Limit}

Fetch(p) ==
  /\ \A e \in Row : flights[p][e] = "none"
  /\ flights' = [flights EXCEPT ![p] = [e \in Row |-> IF e \in Fetched THEN "fetched" ELSE "none"]]
  /\ UNCHANGED <<rows, letters, outFaults, abandoned>>

(* SAP is called.  An error is an answer; no answer at all is reported as  *)
(* a failure as well, by outbox_http_fail.                                 *)
CallSap(p, e) ==
  /\ flights[p][e] = "fetched"
  /\ \E step \in {"ok", "bad", "failed"} : MoveTo(p, e, step)
  /\ UNCHANGED <<rows, letters, outFaults, abandoned>>

(* outbox_update: success is written over any status, a failure is counted *)
(* while the row is PENDING.                                               *)
Updated(row, ok) ==
  IF ok THEN [status |-> "SENT", retries |-> row.retries + 1]
  ELSE IF row.status = "PENDING" THEN [row EXCEPT !.retries = @ + 1] ELSE row

(* Mutant of NeedsDeadletter: one failure more. *)
NeedsDeadletterLate(row) == row.retries > RetryLimit /\ row.status # "SENT"
NeedsDeadletter(row) == row.retries >= RetryLimit /\ row.status # "SENT"

Report(p, e) ==
  /\ flights[p][e] \in {"ok", "bad", "failed"}
  /\ rows' = [rows EXCEPT ![e] = Updated(@, flights[p][e] = "ok")]
  /\ MoveTo(p, e, IF NeedsDeadletter(rows'[e]) THEN "overdue" ELSE "none")
  /\ UNCHANGED <<letters, outFaults, abandoned>>

(* The request to the bridge fails, before or after it was carried out:    *)
(* outbox_http_fail reports a failure instead; nothing follows when that   *)
(* fails too.                                                              *)
ReportLost(p, e) ==
  /\ flights[p][e] \in {"ok", "bad", "failed"} /\ outFaults < MaxOutFaults
  /\ outFaults' = outFaults + 1
  /\ \E done \in BOOLEAN :
       rows' = IF done THEN [rows EXCEPT ![e] = Updated(@, flights[p][e] = "ok")] ELSE rows
  /\ IF flights[p][e] = "failed" THEN MoveTo(p, e, "none") /\ abandoned' = abandoned \cup {e}
     ELSE MoveTo(p, e, "failed") /\ UNCHANGED abandoned
  /\ UNCHANGED letters

(* POST /outbox/{id}/deadletter: the letter and the status in one commit.  *)
(* The status that the row has by now is not looked at.                    *)
Bury(p, e) ==
  /\ flights[p][e] = "overdue"
  /\ rows' = [rows EXCEPT ![e].status = "FAILED"] /\ letters' = letters \cup {e}
  /\ MoveTo(p, e, "none")
  /\ UNCHANGED <<outFaults, abandoned>>

(* Node-RED restarts: its messages are gone, the rows are not. *)
NodeRedRestarts ==
  /\ outFaults < MaxOutFaults /\ outFaults' = outFaults + 1
  /\ abandoned' = abandoned \cup {e \in Row : \E p \in Poll : flights[p][e] # "none"}
  /\ flights' = [p \in Poll |-> [e \in Row |-> "none"]]
  /\ UNCHANGED <<rows, letters>>

Deliver(p, e) == CallSap(p, e) \/ Report(p, e) \/ Bury(p, e)

OutboxNext ==
  \/ \E e \in Row : Write(e)
  \/ \E p \in Poll : Fetch(p) \/ \E e \in Row : Deliver(p, e) \/ ReportLost(p, e)
  \/ NodeRedRestarts

OutboxSpec == OutboxInit /\ [][OutboxNext]_ovars

(* The inject node fires again and again, and a message goes on. *)
OutboxFairness ==
  \A p \in Poll : WF_ovars(Fetch(p)) /\ \A e \in Row : WF_ovars(Deliver(p, e))

-----------------------------------------------------------------------------
(* A row that has failed as often as polls look at it is not forgotten: a  *)
(* message of it is still on its way to the last report or to the dead     *)
(* letter, or was lost; and a row is FAILED only with a letter.            *)
OverdueIsCarried ==
  \A e \in Row :
    /\ rows[e].status = "PENDING" /\ rows[e].retries >= RetryLimit =>
         e \in abandoned \/ \E p \in Poll : flights[p][e] \in {"failed", "overdue"}
    /\ rows[e].status = "FAILED" => e \in letters

(* What an order owes SAP is settled at last: the row is SENT or it has a  *)
(* dead letter, whatever polls overlap and answers are lost.  One case is  *)
(* left out: a message that is lost after the last failure was counted     *)
(* leaves a row that no poll fetches and no letter tells of.               *)
OutboxSettles ==
  \A e \in Row : rows[e].status = "PENDING" ~>
    \/ rows[e].status = "SENT" \/ e \in letters
    \/ e \in abandoned /\ rows[e].retries >= RetryLimit
=============================================================================
