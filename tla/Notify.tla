------------------------------- MODULE Notify -------------------------------
(***************************************************************************)
(* The message gateway (gateway/app): an alert of the platform goes as a   *)
(* card to the chat platforms, once while its deduplication key lives; a   *)
(* click on the card comes back as a callback, is validated layer by layer *)
(* over keys in Redis that expire, and is executed by the platform.  Each  *)
(* await of the callback's handler is an action, so two callbacks          *)
(* interleave between any two of them.                                     *)
(*                                                                         *)
(* A user sits on one chat platform.  The button of a wechat card is never *)
(* part of what is sent (send_message sends template_card alone) and       *)
(* e-mail has no button, so these two are channels nobody clicks on.       *)
(***************************************************************************)
EXTENDS Integers, FiniteSets

CONSTANTS
  Alert,       \* alert ids; an alert keeps its content and its correlation id
  OpOf(_),     \* the action and target that the alert's button asks for
  ToOf(_),     \* its recipients
  Dangerous,   \* the operations that need a second click
  InSafeMode,  \* the operations that safe mode lets through
  User,
  Dingtalk,    \* the users on dingtalk; the others are on feishu
  Callback,    \* the callbacks that the gateway may be handling at a time
  Token,       \* the confirmation tokens: a bound on first clicks
  NoToken, NoCorr,
  DedupTtl, ReplayTtl, ConfirmTtl  \* lives of the keys, in ticks

(* A fingerprint's key lives a minute longer than a confirmation token. *)
ASSUME NotifyAssumption ==
  /\ {DedupTtl, ReplayTtl, ConfirmTtl} \subseteq Nat \ {0} /\ ConfirmTtl <= ReplayTtl
  /\ NoToken \notin Token /\ NoCorr \notin Alert /\ \A a \in Alert : OpOf(a) # "unused"
  /\ Dingtalk \subseteq User /\ \A a \in Alert : ToOf(a) \subseteq User

VARIABLES
  dedup,   \* gateway:dedup:<alert>: ticks it has left to live
  prints,  \* gateway:anti_replay:<fingerprint>: ticks left
  tokens,  \* gateway:confirm_token:<token>: its operation and the ticks left
  cards,   \* the cards in front of the users
  calls,   \* the callbacks being handled
  ledger,  \* gateway:op:<execution>: the status of the run each token allowed
  open,    \* does time control let this hour's alerts pass, and do the channels answer?
  runs     \* history: how often the platform ran the operation of each token

nvars == <<dedup, prints, tokens, cards, calls, ledger, open, runs>>

Operation == {OpOf(a) : a \in Alert}
Finger == User \X Operation \X (Alert \cup {NoCorr})
Card == [user : User, op : Operation, corr : Alert \cup {NoCorr}, token : Token \cup {NoToken}]
NoCall == [step |-> "idle"]
Going == [card : Card, late : BOOLEAN,
          step : {"replay", "confirm", "consume", "guard", "execute", "SUCCESS", "FAILED"}]

NotifyTypeOK ==
  /\ dedup \in [Alert -> 0..DedupTtl] /\ prints \in [Finger -> 0..ReplayTtl]
  /\ tokens \in [Token -> [op : Operation \cup {"unused"}, left : 0..ConfirmTtl]]
  /\ cards \subseteq Card
  /\ calls \in [Callback -> {NoCall} \cup Going]
  /\ ledger \in [Token -> {"none", "EXECUTING", "SUCCESS", "FAILED"}]
  /\ open \in BOOLEAN /\ runs \in [Token -> Nat]

NotifyInit ==
  /\ dedup = [a \in Alert |-> 0] /\ prints = [f \in Finger |-> 0]
  /\ tokens = [t \in Token |-> [op |-> "unused", left |-> 0]]
  /\ cards = {} /\ calls = [c \in Callback |-> NoCall]
  /\ ledger = [t \in Token |-> "none"]
  /\ open = FALSE /\ runs = [t \in Token |-> 0]

-----------------------------------------------------------------------------
(* POST /notifications/send *)

(* Mutant of DedupAfter: a repetition renews the key. *)
DedupRenewed(a) == DedupTtl
(* check_dedup: SET with NX and EX, so a repetition does not renew the key. *)
DedupAfter(a) == IF dedup[a] = 0 THEN DedupTtl ELSE dedup[a]

(* The first card: its button carries the alert's correlation id. *)
CardsOf(a) == [user : ToOf(a), op : {OpOf(a)}, corr : {a}, token : {NoToken}]

(* The key is set before time control and before any channel is tried: an  *)
(* alert that neither lets through is a duplicate when it is repeated.     *)
Post(a) ==
  /\ dedup' = [dedup EXCEPT ![a] = DedupAfter(a)]
  /\ cards' = IF dedup[a] = 0 /\ open THEN cards \cup CardsOf(a) ELSE cards
  /\ UNCHANGED <<prints, tokens, calls, ledger, open, runs>>

-----------------------------------------------------------------------------
(* POST /webhook/{platform}, one await at a time *)

(* What parse_callback passes on as params: feishu's confirmation card has *)
(* the token beside the "params" that the adapter reads.                   *)
Passed(card) == IF card.user \in Dingtalk THEN card.token ELSE NoToken

Click(c, card) ==
  /\ calls[c] = NoCall /\ card \in cards
  /\ calls' = [calls EXCEPT ![c] = [step |-> "replay", card |-> card, late |-> FALSE]]
  /\ UNCHANGED <<dedup, prints, tokens, cards, ledger, open, runs>>

Stands(c, step) == calls[c] # NoCall /\ calls[c].step = step
GoTo(c, step) == calls' = [calls EXCEPT ![c].step = step]
End(c) == calls' = [calls EXCEPT ![c] = NoCall]

(* Layers 1 to 3: a user without account or permission, or an object that  *)
(* is unknown, unreachable or in a state the operation does not fit.       *)
Refuse(c) ==
  /\ Stands(c, "replay") /\ End(c)
  /\ UNCHANGED <<dedup, prints, tokens, cards, ledger, open, runs>>

FingerOf(card) == <<card.user, card.op, card.corr>>

(* Mutant of MayPass: the key is not looked at. *)
MayPassAgain(f) == TRUE
(* Layer 4, SETNX: burned also when a later layer refuses the callback. *)
MayPass(f) == prints[f] = 0

CheckAntiReplay(c) ==
  /\ Stands(c, "replay")
  /\ LET f == FingerOf(calls[c].card) IN
     IF MayPass(f) THEN prints' = [prints EXCEPT ![f] = ReplayTtl] /\ GoTo(c, "confirm")
     ELSE End(c) /\ UNCHANGED prints
  /\ UNCHANGED <<dedup, tokens, cards, ledger, open, runs>>

(* The second card has no correlation id, but the token. *)
SecondCard(card, t) == [user |-> card.user, op |-> card.op, corr |-> NoCorr, token |-> t]

(* Layer 5: the first click gets a token and a second card; the second     *)
(* click must name a live token.                                           *)
Confirm(c) ==
  /\ Stands(c, "confirm")
  /\ LET card == calls[c].card
         t == Passed(card)
     IN \/ /\ card.op \notin Dangerous
           /\ GoTo(c, "guard") /\ UNCHANGED <<tokens, cards>>
        \/ /\ card.op \in Dangerous /\ t = NoToken
           /\ \E new \in Token :
                /\ tokens[new].op = "unused"
                /\ tokens' = [tokens EXCEPT ![new] = [op |-> card.op, left |-> ConfirmTtl]]
                /\ cards' = cards \cup {SecondCard(card, new)}
           /\ End(c)
        \/ /\ card.op \in Dangerous /\ t # NoToken
           /\ IF tokens[t].left > 0 /\ tokens[t].op = card.op THEN GoTo(c, "consume") ELSE End(c)
           /\ UNCHANGED <<tokens, cards>>
  /\ UNCHANGED <<dedup, prints, ledger, open, runs>>

(* The delete is a call of its own, and nobody looks whether it found the key. *)
Consume(c) ==
  /\ Stands(c, "consume")
  /\ tokens' = [tokens EXCEPT ![Passed(calls[c].card)].left = 0]
  /\ GoTo(c, "guard")
  /\ UNCHANGED <<dedup, prints, cards, ledger, open, runs>>

RunOf(c) == Passed(calls[c].card)
Records(status, c) == IF RunOf(c) = NoToken THEN ledger ELSE [ledger EXCEPT ![RunOf(c)] = status]

(* Layer 6 reads system:safe_mode, then the operation is recorded under a  *)
(* new execution id.                                                       *)
Guard(c) ==
  /\ Stands(c, "guard")
  /\ \E halted \in BOOLEAN :
       IF halted /\ calls[c].card.op \notin InSafeMode THEN End(c) /\ UNCHANGED ledger
       ELSE GoTo(c, "execute") /\ ledger' = Records("EXECUTING", c)
  /\ UNCHANGED <<dedup, prints, tokens, cards, open, runs>>

(* The platform runs the operation, or does not; an answer that does not   *)
(* come counts as FAILED in both cases.                                    *)
Execute(c) ==
  /\ Stands(c, "execute")
  /\ \E done \in BOOLEAN, answered \in BOOLEAN :
       /\ runs' = IF done /\ RunOf(c) # NoToken THEN [runs EXCEPT ![RunOf(c)] = @ + 1] ELSE runs
       /\ GoTo(c, IF done /\ answered THEN "SUCCESS" ELSE "FAILED")
  /\ UNCHANGED <<dedup, prints, tokens, cards, ledger, open>>

(* The record is updated; the audit log that follows decides nothing. *)
Finish(c) ==
  /\ \E status \in {"SUCCESS", "FAILED"} : Stands(c, status) /\ ledger' = Records(status, c)
  /\ End(c)
  /\ UNCHANGED <<dedup, prints, tokens, cards, open, runs>>

(* A call of Redis raises, or the process dies: the handler ends where it is. *)
Drop(c) ==
  /\ calls[c] # NoCall
  /\ End(c)
  /\ UNCHANGED <<dedup, prints, tokens, cards, ledger, open, runs>>

-----------------------------------------------------------------------------
(* The surroundings *)

(* The keys of Redis age.  A callback takes seconds and a tick a minute,   *)
(* so a callback sees at most one.                                         *)
Age(left) == IF left = 0 THEN 0 ELSE left - 1

Tick ==
  /\ \A c \in Callback : calls[c] # NoCall => ~calls[c].late
  /\ dedup' = [a \in Alert |-> Age(dedup[a])]
  /\ prints' = [f \in Finger |-> Age(prints[f])]
  /\ tokens' = [t \in Token |-> [tokens[t] EXCEPT !.left = Age(@)]]
  /\ calls' = [c \in Callback |-> IF calls[c] = NoCall THEN NoCall ELSE [calls[c] EXCEPT !.late = TRUE]]
  /\ UNCHANGED <<cards, ledger, open, runs>>

(* The hour or a channel's health changes. *)
Surroundings ==
  /\ open' = ~open
  /\ UNCHANGED <<dedup, prints, tokens, cards, calls, ledger, runs>>

Handle(c) ==
  Refuse(c) \/ CheckAntiReplay(c) \/ Confirm(c) \/ Consume(c) \/ Guard(c) \/ Execute(c) \/ Finish(c) \/ Drop(c)

NotifyNext ==
  \/ \E a \in Alert : Post(a)
  \/ \E c \in Callback : (\E card \in cards : Click(c, card)) \/ Handle(c)
  \/ Tick \/ Surroundings

(* A handler goes on, time passes, and an alert that stands is sent again. *)
NotifyFairness ==
  /\ WF_nvars(Tick) /\ \A a \in Alert : WF_nvars(Post(a))
  /\ \A c \in Callback : WF_nvars(Handle(c))

NotifySpec == NotifyInit /\ [][NotifyNext]_nvars /\ NotifyFairness

-----------------------------------------------------------------------------
(* A second click is worth one run: two callbacks that both find the token *)
(* alive, before either deletes it, are told apart by the fingerprint,     *)
(* which outlives the token.                                               *)
OneRunPerToken == \A t \in Token : runs[t] <= 1

(* A repeated alert gets through: if from some moment on time control and  *)
(* the channels let it pass, its card is in front of the users at last,    *)
(* although every repetition while the key lives is dropped.               *)
RepeatedIsSeen == <>[]open => \A a \in Alert : <>(CardsOf(a) \subseteq cards)
=============================================================================
