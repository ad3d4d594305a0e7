------------------------------ MODULE Gateway ------------------------------
(***************************************************************************)
(* The endpoints that answer prompts: /chat (orchestrator/main.py) and     *)
(* /v1/chat/completions (orchestrator/openai_compat.py), the adapters they *)
(* build and close, and the health tracker that /chat reports to.          *)
(*                                                                         *)
(* The endpoints are coroutines of one event loop: an action is what       *)
(* happens between two awaits.  What goes on inside a send is              *)
(* ProviderSend's business; here a send acquires, in order, what close has *)
(* to release.  The driver and the browser that a fan-out starts for       *)
(* everybody are no adapter's own; they are FanOut's business, and here it *)
(* is open whether an adapter finds them.                                  *)
(***************************************************************************)
EXTENDS Integers, Sequences, FiniteSets

CONSTANTS
  Provider,      \* known providers
  Unknown,       \* a name that no provider has
  Request,       \* requests, each made once
  MaxJobs        \* bound: adapters built in a behaviour

(* What EngineUIAdapter acquires in a send, in order; close releases in    *)
(* the opposite order.  "page" stands for the context and its page.        *)
Acquired == <<"driver", "browser", "page">>
Depth == Len(Acquired)
Result == {"ok", "error", "auth error", "cloudflare"}

VARIABLES
  request,   \* per request [kind, names, at]
  chatJob,   \* per request, a sequence with one job per adapter: [at, held, result, trouble]
  health     \* health_tracker: the counters of each provider

gatewayVars == <<request, chatJob, health>>

NoCounts == [success |-> 0, failure |-> 0, authOk |-> 0, authFailed |-> 0, captcha |-> 0]
NoRequest == [kind |-> "none", names |-> <<>>, at |-> "ended"]
NewJob == [at |-> "waiting", held |-> {}, result |-> "ok", trouble |-> FALSE]

GatewayInit ==
  /\ request = [r \in Request |-> NoRequest]
  /\ chatJob = [r \in Request |-> <<>>]
  /\ health = [p \in Provider |-> NoCounts]

Jobs == UNION {{<<r, i>> : i \in DOMAIN chatJob[r]} : r \in Request}

New(r, q) ==
  /\ request[r].kind = "none"
  /\ Cardinality(Jobs) + Len(q.names) <= MaxJobs
  /\ request' = [request EXCEPT ![r] = q]
  /\ chatJob' = [chatJob EXCEPT ![r] = [i \in DOMAIN q.names |-> NewJob]]
  /\ UNCHANGED health

(* A request that is answered with an error before any send.               *)
Refused == [kind |-> "refused", names |-> <<>>, at |-> "ended"]

(* /chat builds all adapters before the first send; one unknown name       *)
(* refuses the request.  Several at a time only when asked for.            *)
Chat(r, names, parallel) ==
  IF \E i \in DOMAIN names : names[i] = Unknown
  THEN New(r, Refused)
  ELSE New(r, [kind |-> IF parallel /\ Len(names) > 1 THEN "parallel" ELSE "chat",
               names |-> names, at |-> "sending"])

Completion(r, p, stream) ==
  IF p = Unknown
  THEN New(r, Refused)
  ELSE New(r, [kind |-> IF stream THEN "stream" ELSE "completion", names |-> <<p>>,
               at |-> "sending"])

Turn(r, i) ==
  /\ request[r].at = "sending"
  /\ \/ request[r].kind = "parallel"
     \/ \A j \in 1..(i - 1) : chatJob[r][j].at = "done"

Update(r, i, j) == chatJob' = [chatJob EXCEPT ![r][i] = j]

StartSend(r, i) ==
  /\ Turn(r, i)
  /\ chatJob[r][i].at = "waiting"
  /\ Update(r, i, [chatJob[r][i] EXCEPT !.at = "sending"])
  /\ UNCHANGED <<request, health>>

(* A send that fails on the way to its page leaves what it had acquired; a *)
(* mock send acquires nothing.  While some fan-out keeps a shared browser, *)
(* any adapter takes its page from it; if there is none, or it was cleared *)
(* by the end of another fan-out, the adapter starts a driver and a        *)
(* browser of its own.  An exception becomes a failed response.            *)
Holdings == {{Acquired[k] : k \in from..to} : from \in {1, Depth}, to \in 0..Depth}

(* Only /chat tells one failure from another.  An answer comes from a page *)
(* or from a mock.                                                         *)
ResultsOf(r, held) ==
  (IF request[r].kind \in {"chat", "parallel"} THEN Result ELSE {"ok", "error"})
    \ (IF held = {} \/ "page" \in held THEN {} ELSE {"ok"})

SendReturns(r, i) ==
  /\ chatJob[r][i].at = "sending"
  /\ \E held \in Holdings : \E result \in ResultsOf(r, held) :
       Update(r, i, [chatJob[r][i] EXCEPT !.at = "closing", !.held = held, !.result = result])
  /\ UNCHANGED <<request, health>>

(* Mutant: an exception leaves close, as with one handler around it all.   *)
ReleasesOrStops(j, res) ==
  IF res \notin j.held \/ \E higher \in {"browser", "page"} \cap j.held : higher # res THEN {j}
  ELSE {[j EXCEPT !.held = IF res = "driver" THEN {} ELSE @ \ {res}],
        [j EXCEPT !.trouble = (res = "driver") \/ @]}

(* EngineUIAdapter.close: each release is behind a handler of its own.  One *)
(* that raises leaves its resource and the next one is tried; with its     *)
(* driver a browser goes too.  The result is the set of jobs it may leave. *)
Releases(j, res) ==
  IF res \notin j.held THEN {j}
  ELSE {[j EXCEPT !.held = IF res = "driver" THEN {} ELSE @ \ {res}],
        [j EXCEPT !.trouble = (res = "driver") \/ @]}

After(j) ==
  LET noPage == Releases(j, "page")
      noBrowser == UNION {Releases(k, "browser") : k \in noPage}
  IN  UNION {Releases(k, "driver") : k \in noBrowser}

Done(j) == [j EXCEPT !.at = "done"]

(* The awaits of a close are one action: no other job touches what the     *)
(* adapter holds.                                                          *)
CloseAdapter(r, i) ==
  /\ chatJob[r][i].at = "closing"
  /\ \E j \in After(chatJob[r][i]) : Update(r, i, Done(j))
  /\ UNCHANGED <<request, health>>

(* The shared driver or browser of the fan-out does not start: the request *)
(* fails before any send, and nothing is recorded.                         *)
FanOutRaises(r) ==
  /\ request[r].kind = "parallel" /\ request[r].at = "sending"
  /\ \A i \in DOMAIN chatJob[r] : chatJob[r][i].at = "waiting"
  /\ request' = [request EXCEPT ![r] = Refused]
  /\ chatJob' = [chatJob EXCEPT ![r] = <<>>]
  /\ UNCHANGED health

AllDone(r) == \A i \in DOMAIN chatJob[r] : chatJob[r][i].at = "done"

Reported(c, result) ==
  IF result = "ok" THEN [c EXCEPT !.success = @ + 1, !.authOk = @ + 1]
  ELSE [c EXCEPT !.failure = @ + 1,
                 !.authFailed = IF result = "auth error" THEN @ + 1 ELSE @,
                 !.captcha = IF result = "cloudflare" THEN @ + 1 ELSE @]

(* Mutant: failed responses are dropped before the zip.                    *)
RecordAnswered(h, names, jobs) ==
  LET kept == SelectSeq(jobs, LAMBDA j : j.result = "ok")
      after[n \in 0..Len(kept)] ==
        IF n = 0 THEN h
        ELSE [after[n - 1] EXCEPT ![names[n]] = Reported(@, kept[n].result)]
  IN  after[Len(kept)]

(* The responses are zipped with the names and recorded, without an await. *)
RecordAll(h, names, jobs) ==
  LET after[n \in 0..Len(jobs)] ==
        IF n = 0 THEN h
        ELSE [after[n - 1] EXCEPT ![names[n]] = Reported(@, jobs[n].result)]
  IN  after[Len(jobs)]

AnswerChat(r) ==
  /\ request[r].kind \in {"chat", "parallel"}
  /\ request[r].at = "sending"
  /\ AllDone(r)
  /\ health' = RecordAll(health, request[r].names, chatJob[r])
  /\ request' = [request EXCEPT ![r].at = "ended"]
  /\ UNCHANGED chatJob

AnswerCompletion(r) ==
  /\ request[r].kind \in {"completion", "stream"}
  /\ request[r].at = "sending"
  /\ AllDone(r)
  /\ request' = [request EXCEPT ![r].at =
       IF request[r].kind = "stream" /\ chatJob[r][1].result = "ok" THEN "streaming" ELSE "ended"]
  /\ UNCHANGED <<chatJob, health>>

(* The chunks are sent, or the client goes away between two of them.       *)
EndStream(r) ==
  /\ request[r].at = "streaming"
  /\ request' = [request EXCEPT ![r].at = "ended"]
  /\ UNCHANGED <<chatJob, health>>

(* The client of a stream goes away before the first chunk.  Before the    *)
(* send the generator never runs; in the send it is cancelled and its      *)
(* finally starts to close the adapter; in the close, the await that is    *)
(* under way is cancelled, and the handlers do not catch that.  The web    *)
(* framework that cancels is external.                                     *)
Disconnect(r) ==
  LET j == chatJob[r][1] IN
  /\ request[r].kind = "stream" /\ request[r].at = "sending"
  /\ \/ /\ j.at = "waiting"
        /\ request' = [request EXCEPT ![r].at = "ended"]
        /\ UNCHANGED chatJob
     \/ /\ j.at = "sending"
        /\ \E held \in Holdings :
             Update(r, 1, [j EXCEPT !.at = "closing", !.held = held, !.result = "error"])
        /\ UNCHANGED request
     \/ /\ j.at = "closing"
        /\ \E k \in 0..Depth : Update(r, 1, Done([j EXCEPT !.held = @ \cap {Acquired[i] : i \in 1..k},
                                                       !.result = "error", !.trouble = TRUE]))
        /\ UNCHANGED request
  /\ UNCHANGED health

RequestStep(r) ==
  \/ \E i \in DOMAIN chatJob[r] : StartSend(r, i) \/ SendReturns(r, i) \/ CloseAdapter(r, i)
  \/ FanOutRaises(r) \/ AnswerChat(r) \/ AnswerCompletion(r) \/ EndStream(r)

GatewayNext ==
  \E r \in Request :
    \/ \E n \in 1..2 : \E names \in [1..n -> Provider \cup {Unknown}], b \in BOOLEAN : Chat(r, names, b)
    \/ \E p \in Provider \cup {Unknown}, b \in BOOLEAN : Completion(r, p, b)
    \/ Disconnect(r)
    \/ RequestStep(r)

GatewaySpec == GatewayInit /\ [][GatewayNext]_gatewayVars

Ended(r) == request[r].at = "ended"

(* No browser or driver that an adapter started for itself outlives its    *)
(* request, however the send ended and whatever part of the close failed:  *)
(* unless the driver itself did not stop, or a client that went away cut   *)
(* the close short.                                                        *)
BrowsersAreClosed ==
  \A r \in Request : Ended(r) =>
    \A i \in DOMAIN chatJob[r] :
      {"driver", "browser"} \cap chatJob[r][i].held # {} => chatJob[r][i].trouble

(* The counters of a provider are what its own answers in the finished     *)
(* chats say, with chats interleaved, names repeated, sends failing and    *)
(* fan-outs that raise.                                                    *)
Answers(p, R) ==
  Cardinality(UNION {{<<r, i>> : i \in {k \in DOMAIN chatJob[r] :
      request[r].names[k] = p /\ chatJob[r][k].result \in R}} :
      r \in {q \in Request : Ended(q) /\ request[q].kind \in {"chat", "parallel"}}})
HealthIsTheProvidersOwn ==
  \A p \in Provider :
    health[p] = [success |-> Answers(p, {"ok"}), failure |-> Answers(p, Result \ {"ok"}),
                 authOk |-> Answers(p, {"ok"}), authFailed |-> Answers(p, {"auth error"}),
                 captcha |-> Answers(p, {"cloudflare"})]
=============================================================================
