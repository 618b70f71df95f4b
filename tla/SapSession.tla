----------------------------- MODULE SapSession -----------------------------
(***************************************************************************)
(* How the bridge's threads call SAP: the bearer token that they share     *)
(* (auth.py), the CSRF token and its cookies, cached under two Redis keys, *)
(* and the retries of ZewmRobcoClient, EwmBackend and WmBackend.           *)
(*                                                                         *)
(* SAP knows the sessions that are alive and whether the bearer in use is; *)
(* a session or a bearer may end at any time.  A caller's step is one      *)
(* access to Redis or one request.  Requests that create, confirm or       *)
(* cancel are meant: those that only read are ListTasks.                   *)
(***************************************************************************)
EXTENDS Integers, FiniteSets

CONSTANTS
  Zewm, Ewm, Wm,   \* the threads, by the client each of them uses
  Groups,          \* bound: sets of threads that are at work together
  HttpRetries,     \* _MAX_HTTP_RETRIES
  RfcTries,        \* RFC_MAX_RETRIES
  MaxSessions,     \* bound: CSRF tokens that are remembered somewhere
  MaxFaults        \* bound: tokens ended or lapsed, throttlings, lost answers

ASSUME RetryAssumption ==
  /\ {HttpRetries, RfcTries, MaxSessions, MaxFaults} \subseteq Nat \ {0}
  /\ Groups \subseteq SUBSET (Zewm \cup Ewm \cup Wm)
  /\ Zewm \cap Ewm = {} /\ Wm \cap (Zewm \cup Ewm) = {}

Http == Zewm \cup Ewm
Callers == Http \cup Wm
Keys == {"zewm", "ewm"}          \* each client has its own pair of CSRF keys
KeyOf(c) == IF c \in Zewm THEN "zewm" ELSE "ewm"
Bearer == {"none", "good", "stale"}
Sessions == 0..MaxSessions       \* 0 is no session

VARIABLES
  threads,  \* the threads at work
  bearer,   \* the bearer in Redis
  frozen,   \* the bearer EwmBackend's CsrfTokenManager was built with
  csrf,     \* for each client, the token and the cookies in Redis
  alive,    \* the sessions that SAP would accept
  call,     \* of each caller: where it is, what it has in hand, its retries
  executed, \* how often SAP did what the current call asks for
  faults,
  hits      \* history: what happened to the tokens since the call began, up to 2

vars == <<threads, bearer, frozen, csrf, alive, call, executed, faults, hits>>

Idle == [pc |-> "idle", token |-> 0, cookies |-> 0, bearer |-> "none", tries |-> 0]

Calls ==
  [pc : {"idle", "token", "cookies", "fetch", "send", "expired", "backoff", "half",
         "done", "failed", "refused", "barred"},
   token : Sessions, cookies : Sessions, bearer : Bearer, tries : 0..HttpRetries + RfcTries]

TypeOK ==
  /\ threads \in Groups /\ {bearer, frozen} \subseteq Bearer
  /\ csrf \in [Keys -> [token : Sessions, cookies : Sessions]]
  /\ alive \subseteq Sessions
  /\ call \in [Callers -> Calls]
  /\ executed \in [Callers -> 0..RfcTries] /\ faults \in 0..MaxFaults
  /\ hits \in [Callers -> 0..2]

Init ==
  /\ threads \in Groups /\ bearer = "none" /\ frozen = "none"
  /\ csrf = [k \in Keys |-> [token |-> 0, cookies |-> 0]]
  /\ alive = {}
  /\ call = [c \in Callers |-> Idle] /\ executed = [c \in Callers |-> 0]
  /\ faults = 0 /\ hits = [c \in Callers |-> 0]

Fault == faults < MaxFaults /\ faults' = faults + 1
Hit(who) == [c \in Callers |-> IF c \in who \cap threads /\ hits[c] < 2 THEN hits[c] + 1 ELSE hits[c]]
At(c, pc) == call[c].pc = pc
Go(c, pc) == call' = [call EXCEPT ![c].pc = pc]

-----------------------------------------------------------------------------
(* What SAP and Redis do on their own.                                     *)

Rot(b) == IF b = "good" THEN "stale" ELSE b

\* The bearer ends at SAP before its entry in Redis does.
BearerEnds ==
  /\ Fault
  /\ bearer' = Rot(bearer) /\ frozen' = Rot(frozen) /\ hits' = Hit(Zewm)
  /\ call' = [c \in Callers |-> [call[c] EXCEPT !.bearer = Rot(@)]]
  /\ UNCHANGED <<csrf, alive, executed>>

SessionEnds(s) ==
  /\ Fault /\ s \in alive /\ alive' = alive \ {s} /\ hits' = Hit(Zewm)
  /\ UNCHANGED <<bearer, frozen, csrf, call, executed>>

\* The entries in Redis have a time to live.
BearerLapses ==
  /\ Fault /\ bearer # "none" /\ bearer' = "none"
  /\ UNCHANGED <<frozen, csrf, alive, call, executed, hits>>

CsrfLapses(k) ==
  /\ Fault /\ csrf[k] # [token |-> 0, cookies |-> 0]
  /\ csrf' = [csrf EXCEPT ![k] = [token |-> 0, cookies |-> 0]]
  /\ UNCHANGED <<bearer, frozen, alive, call, executed, hits>>

-----------------------------------------------------------------------------
(* The headers of a request.                                               *)

\* OAuth2TokenManager.get_valid_token: from the cache, or a new one.
ValidToken == IF bearer = "none" THEN "good" ELSE bearer

Begin(c) ==
  /\ call[c].pc \in {"idle", "done", "failed", "refused", "barred"}
  /\ call' = [call EXCEPT ![c] =
       [Idle EXCEPT !.pc = IF c \in Wm THEN "send" ELSE "token"]]
  /\ executed' = [executed EXCEPT ![c] = 0] /\ hits' = [hits EXCEPT ![c] = 0]
  \* EwmBackend._ensure_csrf builds its manager, with a bearer, when first needed
  /\ frozen' = IF c \in Ewm /\ frozen = "none" THEN ValidToken ELSE frozen
  /\ bearer' = IF c \in Ewm /\ frozen = "none" THEN ValidToken ELSE bearer
  /\ UNCHANGED <<csrf, alive, faults>>

\* get_token of either CSRF manager: two reads of Redis, with others in between.
ReadToken(c) ==
  /\ At(c, "token")
  /\ call' = [call EXCEPT ![c].token = csrf[KeyOf(c)].token, ![c].pc = "cookies"]
  /\ UNCHANGED <<bearer, frozen, csrf, alive, executed, faults, hits>>

ReadCookies(c) ==
  /\ At(c, "cookies")
  /\ LET cookies == csrf[KeyOf(c)].cookies
     IN  IF call[c].token = 0 \/ cookies = 0
         THEN Go(c, "fetch") /\ bearer' = bearer
         ELSE /\ call' = [call EXCEPT ![c].cookies = cookies,
                            ![c].bearer = ValidToken, ![c].pc = "send"]
              /\ bearer' = ValidToken
  /\ UNCHANGED <<frozen, csrf, alive, executed, faults, hits>>

\* The bearer of the request that follows a fetch: EwmBackend's retry after a 403
\* replaces only token and cookies, the other paths build the headers anew.
BearerAfterFetch(c) ==
  IF c \in Ewm /\ call[c].tries > 0 THEN call[c].bearer ELSE ValidToken

\* A new session gets a number that nobody remembers.
InUse == UNION ({{csrf[k].token, csrf[k].cookies} : k \in Keys}
                \cup {{call[c].token, call[c].cookies} : c \in threads})
Unused == Sessions \ (InUse \cup {0})
NewSession == CHOOSE s \in Unused : TRUE

\* The GET is sent with the shared bearer, or with the one EwmBackend was built with.
BearerOfFetch(c) == IF c \in Ewm THEN frozen ELSE ValidToken

\* SAP answers with a new session.
Fetched(c) ==
  /\ Unused # {} /\ alive' = (alive \cap InUse) \cup {NewSession}
  /\ csrf' = [csrf EXCEPT ![KeyOf(c)] = [token |-> NewSession, cookies |-> NewSession]]
  /\ hits' = Hit(IF c \in Zewm THEN Zewm \ {c} ELSE {})
  /\ call' = [call EXCEPT ![c].token = NewSession, ![c].cookies = NewSession,
                ![c].bearer = BearerAfterFetch(c), ![c].pc = "send"]
  /\ bearer' = IF BearerAfterFetch(c) = "good" /\ bearer = "none" THEN "good" ELSE bearer

(* fetch_new: one that SAP refuses raises, and no bearer is invalidated.   *)
(* Before the first request of a ZEWM call that ends it; in a retry it     *)
(* leaves the loop, and the caller gets the 403 or 429 of before.          *)
Fetch(c) ==
  /\ At(c, "fetch")
  /\ \/ BearerOfFetch(c) # "stale" /\ Fetched(c)
     \/ /\ BearerOfFetch(c) = "stale"
        /\ Go(c, IF c \in Zewm THEN "barred" ELSE "failed") /\ UNCHANGED <<bearer, csrf, alive, hits>>
  /\ UNCHANGED <<frozen, executed, faults>>

-----------------------------------------------------------------------------
(* A request and its answer.                                               *)

StatusCode(c) ==
  IF call[c].bearer # "good" THEN 401
  ELSE IF call[c].token # call[c].cookies \/ call[c].token \notin alive THEN 403
  ELSE 200

\* mutant: a transport error is tried again
AfterLossRetries == "send"

\* An httpx error leaves the loop at once.
AfterLoss == "failed"

\* SAP does what it is asked; the answer may be lost, which no client retries here.
Accepted(c, lost) ==
  /\ At(c, "send") /\ c \in Http /\ StatusCode(c) = 200
  /\ executed' = [executed EXCEPT ![c] = @ + 1]
  /\ IF lost THEN Fault /\ Go(c, AfterLoss) ELSE faults' = faults /\ Go(c, "done")
  /\ UNCHANGED <<bearer, frozen, csrf, alive, hits>>

\* mutant: one retry too few
MayRetryOnce(c) == call[c].tries + 1 < HttpRetries

\* The loop of _execute_with_retry goes on.
MayRetry(c) == call[c].tries < HttpRetries

Retry(c, pc) == call' = [call EXCEPT ![c].tries = @ + 1, ![c].pc = pc]

\* _execute_with_retry of ZewmRobcoClient after 401, 403 or 429.
ZewmRefused(c, status) ==
  /\ At(c, "send") /\ c \in Zewm
  /\ \/ status \in {401, 403} /\ StatusCode(c) = status /\ UNCHANGED <<faults, hits>>
     \/ status = 429 /\ StatusCode(c) = 200 /\ Fault /\ hits' = Hit(Zewm)
  /\ \/ ~MayRetry(c) /\ Go(c, "refused")
     \/ /\ MayRetry(c)
        /\ Retry(c, CASE status = 401 -> "expired" [] status = 403 -> "fetch" [] status = 429 -> "backoff")
  /\ UNCHANGED <<bearer, frozen, csrf, alive, executed>>

\* invalidate of OAuth2TokenManager: also a bearer that another thread has just fetched.
DropBearer(c) ==
  /\ At(c, "expired") /\ bearer' = "none" /\ Go(c, "token")
  /\ UNCHANGED <<frozen, csrf, alive, executed, faults, hits>>

\* invalidate of _ZewmCsrfManager, after the pause: two deletes, with others in between.
DropCsrf(c) ==
  /\ \/ At(c, "backoff") /\ csrf' = [csrf EXCEPT !["zewm"].token = 0] /\ Go(c, "half")
     \/ At(c, "half") /\ csrf' = [csrf EXCEPT !["zewm"].cookies = 0] /\ Go(c, "token")
  /\ UNCHANGED <<bearer, frozen, alive, executed, faults, hits>>

\* confirm_task and cancel_task of EwmBackend: one retry, after a 403 only.
EwmRefused(c) ==
  /\ At(c, "send") /\ c \in Ewm /\ StatusCode(c) # 200
  /\ IF StatusCode(c) = 403 /\ call[c].tries = 0 THEN Retry(c, "fetch") ELSE Go(c, "failed")
  /\ UNCHANGED <<bearer, frozen, csrf, alive, executed, faults, hits>>

\* EwmBackend.list_tasks, polled by the bridge: a 401 takes the bearer out of Redis.
ListTasks ==
  /\ threads \cap Ewm # {} /\ bearer' = IF bearer = "stale" THEN "none" ELSE ValidToken
  /\ UNCHANGED <<frozen, csrf, alive, call, executed, faults, hits>>

\* _call_rfc of WmBackend: whatever failed is tried again, on a new connection,
\* also what SAP had done before the connection broke.
Rfc(c, done, ok) ==
  /\ At(c, "send") /\ c \in Wm /\ (ok => done)
  /\ executed' = [executed EXCEPT ![c] = IF done THEN @ + 1 ELSE @]
  /\ IF ok THEN Go(c, "done")
     ELSE Retry(c, IF call[c].tries + 1 < RfcTries THEN "send" ELSE "failed")
  /\ UNCHANGED <<bearer, frozen, csrf, alive, faults, hits>>

CallerStep(c) ==
  \/ Begin(c) \/ ReadToken(c) \/ ReadCookies(c) \/ Fetch(c) \/ EwmRefused(c)
  \/ DropBearer(c) \/ DropCsrf(c)
  \/ \E lost \in BOOLEAN : Accepted(c, lost)
  \/ \E status \in {401, 403, 429} : ZewmRefused(c, status)
  \/ \E done, ok \in BOOLEAN : Rfc(c, done, ok)

Next == /\ \/ \E c \in threads : CallerStep(c)
           \/ BearerEnds \/ (\E s \in Sessions : SessionEnds(s)) \/ BearerLapses
           \/ (\E k \in Keys : CsrfLapses(k)) \/ ListTasks
        /\ threads' = threads

Spec == Init /\ [][Next]_vars

-----------------------------------------------------------------------------
(* Properties.                                                             *)

\* However tokens end, are torn between the two reads, refreshed by another thread or
\* refused, what an HTTP call asks for is done at most once: no retry follows a
\* request that SAP accepted.
HttpOnce == \A c \in Http : executed[c] <= 1

(* A ZEWM call that SAP refuses for good was disturbed at least twice      *)
(* while it ran; one that a stale bearer bars from fetching a token, once  *)
(* SAP has answered it, lost that bearer while it ran.  Before that answer *)
(* a stale bearer in Redis is enough to bar it, with no retry.             *)
RefusedForCause ==
  \A c \in Zewm :
    /\ At(c, "refused") => hits[c] >= 2
    /\ At(c, "barred") => call[c].tries = 0 \/ hits[c] >= 1

(* The retries do what they are for, and no more: neither an HTTP call     *)
(* done twice nor one refused that another attempt would have brought      *)
(* through, but for the fetch that a stale bearer bars.                    *)
RetriesAreExact == HttpOnce /\ RefusedForCause

(* _request documents that on CSRF expiry, OAuth2 expiry and rate limiting *)
(* it refreshes credentials and retries up to _MAX_HTTP_RETRIES times: a   *)
(* call that SAP refuses has used them up.                                 *)
RetriesAreUsed ==
  \A c \in Zewm : call[c].pc \in {"refused", "barred"} => call[c].tries = HttpRetries

=============================================================================
