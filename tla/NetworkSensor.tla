---------------------------- MODULE NetworkSensor ----------------------------
(***************************************************************************)
(* NetworkSensor: what one engine learns of the streams of its page.  The  *)
(* callbacks of the CDP session queue events; sense() drains the queue     *)
(* into an observer per transport, awaits the bodies of the requests that  *)
(* finished, and asks the stream parser whether an answer is coming, has   *)
(* begun or is over.  The callbacks run whenever sense() awaits.           *)
(*                                                                         *)
(* Counts and bytes are kept as "any yet" and "more than at the last       *)
(* call"; rates, sizes and the guess of the transport are left out.  Times *)
(* are ages in steps of the clock.                                         *)
(***************************************************************************)
EXTENDS Integers, Sequences, FiniteSets

CONSTANTS
    Stream,         \* HTTP requests of the page
    Url,            \* URLs it opens sockets to
    NoUrl,          \* a closing event that names no URL
    IDLE_THRESHOLD_STREAM_END,
    IDLE_THRESHOLD_HARD_TIMEOUT,
    MaxQueue        \* bound: events between two drains

VARIABLES
    browser,    \* the state of each request, in the browser
    sockets,    \* URLs with an open socket, in the browser
    queue,      \* _event_queue
    sse, ws, fetch, parser,     \* the observers and the stream parser
    sensing,    \* where sense() is
    generation, \* _generation_started, _generation_completed
    silence     \* age of the last data that was drained

sensorVars == <<browser, sockets, queue, sse, ws, fetch, parser, sensing, generation, silence>>

ASSUME NetworkThresholds ==
    /\ IDLE_THRESHOLD_STREAM_END \in Nat /\ IDLE_THRESHOLD_HARD_TIMEOUT \in Nat
    /\ 0 < IDLE_THRESHOLD_STREAM_END /\ IDLE_THRESHOLD_STREAM_END < IDLE_THRESHOLD_HARD_TIMEOUT

Kinds == {"sse", "chunked"}     \* by content type and transfer encoding
Old == IDLE_THRESHOLD_HARD_TIMEOUT + 1  \* ages are not told apart beyond
Quiet == IDLE_THRESHOLD_STREAM_END + 1  \* nor is the silence beyond this one

SSE0 == [ids |-> {}, active |-> FALSE, done |-> FALSE]
WS0 == [urls |-> {}, open |-> FALSE, done |-> FALSE]
Fetch0 == [ids |-> {}, active |-> FALSE, any |-> FALSE, bodies |-> 0]
Parser0 == [any |-> FALSE, idle |-> 0, disconnected |-> FALSE]

SensorInit ==
    /\ browser = [r \in Stream |-> "new"]
    /\ sockets = {}
    /\ queue = <<>>
    /\ sse = SSE0 /\ ws = WS0 /\ fetch = Fetch0 /\ parser = Parser0
    /\ sensing = "no"
    /\ generation = [started |-> FALSE, completed |-> FALSE]
    /\ silence = Quiet

-----------------------------------------------------------------------------
(* The page loads, and the callbacks queue what CDP tells.                 *)
Queued(kind, id) ==
    /\ Len(queue) < MaxQueue
    /\ queue' = Append(queue, [kind |-> kind, id |-> id])
    /\ UNCHANGED <<sse, ws, fetch, parser, sensing, generation, silence>>

Responds(r, kind) ==
    /\ browser[r] = "new"
    /\ browser' = [browser EXCEPT ![r] = kind]
    /\ Queued(kind, r)
    /\ UNCHANGED sockets

(* Data of any response, and messages of an event stream, [DONE] among     *)
(* them.                                                                   *)
Delivers(r, what) ==
    /\ browser[r] \in Kinds
    /\ what # "data" => browser[r] = "sse"
    /\ Queued(what, r)
    /\ UNCHANGED <<browser, sockets>>

(* Also the end of a request whose response no observer follows.           *)
Ends(r, how) ==
    /\ browser[r] # "over"
    /\ browser' = [browser EXCEPT ![r] = "over"]
    /\ Queued(how, r)
    /\ UNCHANGED sockets

SocketOpens(u) ==
    /\ u \notin sockets
    /\ sockets' = sockets \cup {u}
    /\ Queued("ws_created", u)
    /\ UNCHANGED browser

SocketReceives(u, what) ==
    /\ u \in sockets
    /\ Queued(what, u)
    /\ UNCHANGED <<browser, sockets>>

(* The closing event of the protocol names the request, not its URL.       *)
SocketCloses(u, named) ==
    /\ u \in sockets
    /\ sockets' = sockets \ {u}
    /\ Queued("ws_closed", named)
    /\ UNCHANGED browser

-----------------------------------------------------------------------------
(* The observers: what each makes of an event.                             *)
OnSSEResponse(s, r) == [ids |-> s.ids \cup {r}, active |-> TRUE, done |-> FALSE]

OnSSEMessage(s, r, done) ==
    IF r \in s.ids THEN [s EXCEPT !.active = ~done, !.done = @ \/ done] ELSE s

OnSSEOverKept(s, r, failed) ==  \* mutant: a failed stream stays active
    IF r \in s.ids /\ ~failed
    THEN [s EXCEPT !.ids = @ \ {r}, !.active = @ /\ s.ids # {r}]
    ELSE IF r \in s.ids THEN [s EXCEPT !.ids = @ \ {r}] ELSE s

OnSSEOver(s, r, failed) ==
    IF r \in s.ids
    THEN [s EXCEPT !.ids = @ \ {r},
                   !.active = @ /\ ~failed /\ s.ids # {r}]
    ELSE s

(* A chunk counts when its response was announced as a stream.             *)
OnFetchData(f, r) ==
    IF r \in f.ids THEN [f EXCEPT !.any = TRUE, !.active = TRUE] ELSE f

OnFetchOver(f, r, failed) ==
    LET left == f.ids \ {r} IN
    [f EXCEPT !.ids = left, !.active = @ /\ ~(left = {} /\ f.any),
              !.bodies = IF failed THEN @ ELSE @ + 1]

OnSocketCreated(w, u) == [w EXCEPT !.urls = @ \cup {u}, !.open = TRUE]

OnSocketFrame(w, done) == [w EXCEPT !.done = @ \/ done]

OnSocketClosed(w, u) ==
    LET left == w.urls \ {u} IN [w EXCEPT !.urls = left, !.open = @ /\ left # {}]

(* s: sse, w: ws, f: fetch; d: the transport was signalled disconnected;   *)
(* data: an observer counted bytes.                                        *)
Handle(o, e) ==
    CASE e.kind = "sse" ->
           [o EXCEPT !.s = OnSSEResponse(@, e.id),
                     !.f.ids = @ \cup {e.id}, !.f.active = TRUE]
      [] e.kind = "chunked" -> [o EXCEPT !.f.ids = @ \cup {e.id}, !.f.active = TRUE]
      [] e.kind = "data" ->
           [o EXCEPT !.f = OnFetchData(@, e.id), !.data = @ \/ e.id \in o.f.ids]
      [] e.kind \in {"message", "done"} ->
           [o EXCEPT !.s = OnSSEMessage(@, e.id, e.kind = "done"),
                     !.data = @ \/ e.id \in o.s.ids]
      [] e.kind = "finished" ->
           [o EXCEPT !.s = OnSSEOver(@, e.id, FALSE), !.f = OnFetchOver(@, e.id, FALSE)]
      [] e.kind = "failed" ->
           [o EXCEPT !.s = OnSSEOver(@, e.id, TRUE), !.f = OnFetchOver(@, e.id, TRUE),
                     !.d = TRUE]
      [] e.kind = "ws_created" ->
           [o EXCEPT !.w = OnSocketCreated(@, e.id), !.d = FALSE]
      [] e.kind = "ws_closed" -> [o EXCEPT !.w = OnSocketClosed(@, e.id), !.d = TRUE]
      [] e.kind \in {"frame", "ws_done"} ->
           [o EXCEPT !.w = OnSocketFrame(@, e.kind = "ws_done"), !.data = TRUE]

(* What the observers hold after the first n events of the queue.          *)
Observed ==
    LET after[n \in 0..Len(queue)] ==
            IF n = 0
            THEN [s |-> sse, w |-> ws, f |-> fetch, d |-> parser.disconnected, data |-> FALSE]
            ELSE Handle(after[n - 1], queue[n])
    IN  after[Len(queue)]

-----------------------------------------------------------------------------
(* sense(): the drain, one await per finished body, the evaluation.        *)
Drain ==
    /\ sensing = "no"
    /\ LET o == Observed IN
          /\ sse' = o.s /\ ws' = o.w /\ fetch' = o.f
          /\ parser' = [parser EXCEPT !.disconnected = o.d]
          /\ sensing' = IF o.data THEN "data" ELSE "bodies"
          /\ silence' = IF o.data THEN 0 ELSE silence
    /\ queue' = <<>>
    /\ UNCHANGED <<browser, sockets, generation>>

(* The body of any finished request counts as text of a stream, unless it  *)
(* is short or gone.                                                       *)
FetchBody ==
    /\ sensing \in {"data", "bodies"} /\ fetch.bodies > 0
    /\ fetch' = [fetch EXCEPT !.bodies = @ - 1]
    /\ \/ sensing' = "data" /\ silence' = 0
       \/ UNCHANGED <<sensing, silence>>
    /\ UNCHANGED <<browser, sockets, queue, sse, ws, parser, generation>>

Fed ==
    [parser EXCEPT !.any = @ \/ sensing = "data",
                   !.idle = IF sensing = "data" THEN 0 ELSE @,
                   !.disconnected = @ \/ (sse.done /\ ~sse.active) \/ (ws.done /\ ~ws.open)]

StreamClosedByTransport(p) ==  \* mutant: without the hard timeout
    p.any /\ p.idle > IDLE_THRESHOLD_STREAM_END /\ p.disconnected

StreamClosedAtOnce(p) ==  \* mutant: a stream whose transport is gone is over
    p.any /\ (p.idle > IDLE_THRESHOLD_HARD_TIMEOUT \/ p.disconnected)

StreamClosed(p) ==
    p.any /\ \/ p.idle > IDLE_THRESHOLD_HARD_TIMEOUT
             \/ p.idle > IDLE_THRESHOLD_STREAM_END /\ p.disconnected

Evaluate ==
    /\ sensing \in {"data", "bodies"} /\ fetch.bodies = 0
    /\ parser' = Fed
    /\ LET started == generation.started \/ Fed.any IN
       generation' = [started |-> started,
                      completed |-> generation.completed \/ (started /\ StreamClosed(Fed))]
    /\ sensing' = "no"
    /\ UNCHANGED <<browser, sockets, queue, sse, ws, fetch, silence>>

(* reset() keeps the queue of bodies.                                      *)
ResetSensor ==
    /\ sensing = "no"
    /\ queue' = <<>>
    /\ sse' = SSE0 /\ ws' = WS0 /\ fetch' = [Fetch0 EXCEPT !.bodies = fetch.bodies]
    /\ parser' = Parser0
    /\ generation' = [started |-> FALSE, completed |-> FALSE]
    /\ silence' = Quiet
    /\ UNCHANGED <<browser, sockets, sensing>>

Older(age, last) == IF age = last THEN last ELSE age + 1

SensorClock ==
    /\ <<parser.idle, silence>> # <<Old, Quiet>>
    /\ parser' = [parser EXCEPT !.idle = Older(@, Old)]
    /\ silence' = Older(silence, Quiet)
    /\ UNCHANGED <<browser, sockets, queue, sse, ws, fetch, sensing, generation>>

Traffic ==
    \/ \E r \in Stream : \/ \E k \in Kinds : Responds(r, k)
                         \/ \E what \in {"data", "message", "done"} : Delivers(r, what)
                         \/ \E how \in {"finished", "failed"} : Ends(r, how)
    \/ \E u \in Url : \/ SocketOpens(u)
                      \/ \E what \in {"frame", "ws_done"} : SocketReceives(u, what)
                      \/ \E named \in {u, NoUrl} : SocketCloses(u, named)

Sense == Drain \/ FetchBody \/ Evaluate

SensorNext == Traffic \/ Sense \/ ResetSensor \/ SensorClock

SensorSpec == SensorInit /\ [][SensorNext]_sensorVars

-----------------------------------------------------------------------------
Waiting(r, kinds) == \E i \in DOMAIN queue : queue[i].id = r /\ queue[i].kind \in kinds

(* A transport that is said to be streaming has a stream that the browser  *)
(* still delivers, or whose end is queued: no order of responses,          *)
(* messages, ends and failures leaves an observer active for nothing.  The *)
(* fetch observer is exempt until the first chunk: it does not close       *)
(* before (on_loading_finished).                                           *)
ActiveIsLive ==
    LET Live(r) == browser[r] \in Kinds \/ Waiting(r, {"finished", "failed"}) IN
    /\ sse.active => \E r \in sse.ids : Live(r)
    /\ fetch.active /\ fetch.any => \E r \in fetch.ids : Live(r)

(* The sensor reports the end of the generation only when it has drained   *)
(* no data for longer than IDLE_THRESHOLD_STREAM_END: neither a failed     *)
(* request of another stream, nor [DONE], nor a late body ends an answer   *)
(* that is still arriving.                                                 *)
CompletesInSilence ==
    [][generation'.completed /\ ~generation.completed => silence > IDLE_THRESHOLD_STREAM_END]_sensorVars

(* A generation that began and is not reset is reported as completed when  *)
(* the page falls silent, whatever became of the transport: no closing     *)
(* event is needed (the hard timeout of evaluate).                         *)
SilenceCompletes ==
    <>[][~Traffic /\ ~ResetSensor]_sensorVars
        => (generation.started ~> (generation.completed \/ ~generation.started))
=============================================================================
