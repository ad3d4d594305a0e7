---------------------------- MODULE ProviderSend ----------------------------
(***************************************************************************)
(* EngineUIAdapter.send: the requests of one provider, each with a browser *)
(* of its own, the escalating recovery between its attempts, and the       *)
(* cooldown that all of them share (the module-level recovery_engine).     *)
(*                                                                         *)
(* The endpoints build an adapter for each request, send once and close    *)
(* it.  The requests are coroutines of one event loop: whatever happens    *)
(* between two awaits is one action, and the shared cooldown is only       *)
(* touched at the start and at the end of a send.                          *)
(***************************************************************************)
EXTENDS Integers

CONSTANT Adapter        \* each built for one request at a time

VARIABLES
    cooldownLeft,   \* cooldown_until - now, in units of 30 seconds
    failures,       \* consecutive_failures, saturated where Backoff is
    phase,          \* where each request's send is
    attempt,        \* its loop variable
    error,          \* what its last attempt failed with
    page,           \* _page: none, or what became of the page's checks
    held,           \* requests whose _playwright is set
    drivers         \* browser drivers it started that still run

shared == <<cooldownLeft, failures>>
private == <<phase, attempt, error, page, held, drivers>>
vars == <<cooldownLeft, failures, phase, attempt, error, page, held, drivers>>

MaxRetries == 3

(* Whether a page passed the checks after navigation, failed them, showed  *)
(* a Cloudflare challenge, or could not be closed with its browser.        *)
Page == {"checked", "failed", "challenged", "dead"}

(* The classes of errors the recovery tells apart; "blocked" stands for a  *)
(* CloudflareBlockError and for any error that mentions a captcha.         *)
Failure == {"auth", "blocked", "other"}

(* The fields of the cooldown and of the adapters keep their domains.      *)
TypeOK ==
    /\ cooldownLeft \in 0 .. 10
    /\ failures \in 0 .. 5
    /\ phase \in [Adapter -> {"idle", "sending", "failed", "answered"}]
    /\ attempt \in [Adapter -> 0 .. MaxRetries]
    /\ error \in [Adapter -> Failure \cup {"nothing"}]
    /\ page \in [Adapter -> Page \cup {"none"}]
    /\ held \subseteq Adapter
    /\ drivers \in [Adapter -> Nat]

Init ==
    /\ cooldownLeft = 0
    /\ failures = 0
    /\ phase = [r \in Adapter |-> "idle"]
    /\ attempt = [r \in Adapter |-> 0]
    /\ error = [r \in Adapter |-> "nothing"]
    /\ page = [r \in Adapter |-> "none"]
    /\ held = {}
    /\ drivers = [r \in Adapter |-> 0]

-----------------------------------------------------------------------------
(* The cooldown. *)

(* min(30 * 2^(failures - 1), 300) seconds. *)
Backoff(n) ==
    CASE n <= 1 -> 1 [] n = 2 -> 2 [] n = 3 -> 4 [] n = 4 -> 8 [] OTHER -> 10

RecordFailure ==
    /\ failures' = IF failures < 5 THEN failures + 1 ELSE 5
    /\ cooldownLeft' = Backoff(failures')

RecordSuccess ==
    /\ failures' = 0
    /\ cooldownLeft' = 0

OnCooldown == cooldownLeft > 0

-----------------------------------------------------------------------------
(* One request. *)

Cached(r) == page[r] # "none"

(* The endpoint has built an adapter: send looks at the cooldown once.     *)
Begin(r) ==
    /\ phase[r] = "idle"
    /\ IF OnCooldown
       THEN /\ phase' = [phase EXCEPT ![r] = "answered"]
            /\ UNCHANGED attempt
       ELSE /\ phase' = [phase EXCEPT ![r] = "sending"]
            /\ attempt' = [attempt EXCEPT ![r] = 1]
    /\ UNCHANGED <<shared, error, page, held, drivers>>

(* A browser of its own; while a fan_out shares one, a context in that.    *)
StartDriver(r) ==
    /\ held' = held \cup {r}
    /\ drivers' = [drivers EXCEPT ![r] = @ + 1]

(* _get_page raises before there is a page: the driver does not start, or  *)
(* the launch or the new context fails after it did.                       *)
LaunchFails(r) ==
    /\ phase[r] = "sending"
    /\ ~Cached(r)
    /\ phase' = [phase EXCEPT ![r] = "failed"]
    /\ error' = [error EXCEPT ![r] = "other"]
    /\ StartDriver(r) \/ UNCHANGED <<held, drivers>>
    /\ UNCHANGED <<shared, attempt, page>>

(* _get_page opens a page and navigates.  The page is kept in _page before *)
(* it is navigated and checked.  A challenge is reported as such unless    *)
(* reading the title for the report raises in its turn.                    *)
Opened(r) ==
    /\ phase[r] = "sending"
    /\ ~Cached(r)
    /\ StartDriver(r) \/ UNCHANGED <<held, drivers>>
    /\ \/ /\ page' = [page EXCEPT ![r] = "checked"]
          /\ UNCHANGED <<phase, error>>
       \/ /\ page' = [page EXCEPT ![r] = "failed"]
          /\ phase' = [phase EXCEPT ![r] = "failed"]
          /\ \E e \in {"auth", "other"} : error' = [error EXCEPT ![r] = e]
       \/ /\ page' = [page EXCEPT ![r] = "challenged"]
          /\ phase' = [phase EXCEPT ![r] = "failed"]
          /\ \E e \in {"blocked", "other"} : error' = [error EXCEPT ![r] = e]
    /\ UNCHANGED <<shared, attempt>>

(* The rest of _real_send on the page in _page, checked or not: waiting    *)
(* for the input, typing the prompt, waiting for the response.             *)
Succeeds(r) ==
    /\ phase[r] = "sending"
    /\ page[r] \in Page \ {"dead"}
    /\ Cached(r)
    /\ RecordSuccess
    /\ phase' = [phase EXCEPT ![r] = "answered"]
    /\ UNCHANGED <<attempt, error, page, held, drivers>>

Fails(r) ==
    /\ phase[r] = "sending"
    /\ Cached(r)
    /\ phase' = [phase EXCEPT ![r] = "failed"]
    /\ \E e \in IF page[r] = "dead" THEN {"other"} ELSE {"blocked", "other"} :
          error' = [error EXCEPT ![r] = e]
    /\ UNCHANGED <<shared, attempt, page, held, drivers>>

StopDriverForgotten(r) ==  \* mutant: the reference is dropped, nothing is stopped
    /\ held' = held \ {r}
    /\ UNCHANGED drivers

StopDriver(r) ==
    /\ held' = held \ {r}
    /\ drivers' = [drivers EXCEPT ![r] = IF r \in held THEN @ - 1 ELSE @]

(* close: a page whose closing raises stays in _page, without its browser. *)
Close(r) ==
    /\ StopDriver(r)
    /\ \E left \in {"none"} \cup (IF page[r] = "none" THEN {} ELSE {"dead"}) :
          page' = [page EXCEPT ![r] = left]

Recoverable(r) ==
    /\ phase[r] = "failed"
    /\ attempt[r] < MaxRetries
    /\ error[r] # "blocked"

RetryUncounted(r) ==  \* mutant: a recovered attempt is not counted
    /\ phase' = [phase EXCEPT ![r] = "sending"]
    /\ UNCHANGED attempt

Retry(r) ==
    /\ phase' = [phase EXCEPT ![r] = "sending"]
    /\ attempt' = [attempt EXCEPT ![r] = @ + 1]

(* Strategy 1, after the first attempt only. *)
DismissPopup(r) ==
    /\ Recoverable(r)
    /\ attempt[r] = 1
    /\ page[r] # "none"
    /\ Retry(r)
    /\ UNCHANGED <<shared, error, page, held, drivers>>

(* Strategy 2, or 3, which renews the cookies of the profile when the      *)
(* reload failed on an AuthenticationError: the same page is tried again.  *)
RefreshPage(r) ==
    /\ Recoverable(r)
    /\ attempt[r] = 2
    /\ page[r] # "none"
    /\ Retry(r)
    /\ UNCHANGED <<shared, error, page, held, drivers>>

(* Strategy 4, when the reload failed and no cookies were renewed.  There  *)
(* always is a context here: a page was there after the first attempt.     *)
NewContext(r) ==
    /\ Recoverable(r)
    /\ attempt[r] = 2
    /\ Close(r)
    /\ Retry(r)
    /\ UNCHANGED <<shared, error>>

(* No recovery: nothing was dismissed after the first attempt, the request *)
(* is blocked, or this was the last attempt.                               *)
GiveUp(r) ==
    /\ phase[r] = "failed"
    /\ attempt[r] \in {1, MaxRetries} \/ error[r] = "blocked"
    /\ RecordFailure
    /\ phase' = [phase EXCEPT ![r] = "answered"]
    /\ UNCHANGED <<attempt, error, page, held, drivers>>

(* The endpoint closes the adapter and drops it. *)
Finish(r) ==
    /\ phase[r] = "answered"
    /\ StopDriver(r)
    /\ page' = [page EXCEPT ![r] = "none"]
    /\ phase' = [phase EXCEPT ![r] = "idle"]
    /\ attempt' = [attempt EXCEPT ![r] = 0]
    /\ error' = [error EXCEPT ![r] = "nothing"]
    /\ UNCHANGED shared

Tick ==
    /\ cooldownLeft > 0
    /\ cooldownLeft' = cooldownLeft - 1
    /\ UNCHANGED <<failures, private>>

-----------------------------------------------------------------------------
Work(r) ==
    \/ LaunchFails(r) \/ Opened(r) \/ Succeeds(r) \/ Fails(r)
    \/ DismissPopup(r) \/ RefreshPage(r) \/ NewContext(r) \/ GiveUp(r)
    \/ Finish(r)

Next ==
    \/ \E r \in Adapter : Begin(r) \/ Work(r)
    \/ Tick

Spec == Init /\ [][Next]_vars

(* Every await of a send has a timeout, and the event loop resumes it.     *)
FairSpec == Spec /\ \A r \in Adapter : WF_vars(Work(r))

-----------------------------------------------------------------------------
(* Properties. *)

(* A pause is never longer than the failures on the books account for, and *)
(* none is left once a success cleared the books, in whatever order the    *)
(* requests that run at the same time end ("30s, 60s, 120s, 240s, max      *)
(* 300s", recovery_engine.py).                                             *)
PauseFitsFailures ==
    cooldownLeft > 0 => failures > 0 /\ cooldownLeft <= Backoff(failures)

(* A request runs at most one browser driver at a time and leaves none     *)
(* behind, wherever its launches failed and however it was recovered.      *)
NoDriverLeaks ==
    \A r \in Adapter :
        /\ drivers[r] <= 1
        /\ phase[r] = "idle" => drivers[r] = 0

(* The cookie strategy is never reached: by the second attempt the page of *)
(* the first is reused without the check that finds an AuthenticationError.*)
CookiesAreNeverReloaded ==
    \A r \in Adapter :
        phase[r] = "failed" /\ attempt[r] = 2 => error[r] # "auth"

(* "No infinite retry loops" (recovery_engine.py): every send ends.        *)
SendsEnd == \A r \in Adapter : phase[r] # "idle" ~> phase[r] = "idle"
=============================================================================
