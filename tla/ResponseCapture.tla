--------------------------- MODULE ResponseCapture ---------------------------
(***************************************************************************)
(* How the engine of one page collects the answer to a prompt: the events  *)
(* of its CDP session fill ResponseCapture, tick drains the bodies of the  *)
(* responses that finished, and the adapter reads the text after each      *)
(* tick.  Ticks, the typing of the prompt and the events are coroutines    *)
(* and callbacks of one event loop: an action is what happens between two  *)
(* awaits.  While that gives no text, the adapter asks the page, where a   *)
(* hook keeps the bodies of the fetches it has read to their end, and, for *)
(* want of a body, takes what the page shows.                              *)
(*                                                                         *)
(* Left out: detach, which no adapter calls; _by_url, which nothing reads; *)
(* the published events; the reasoning.  When the answer is complete, and  *)
(* so when the page is asked, is the decision of the estimators, and is    *)
(* left open here; which of the bodies the page keeps looks most like the  *)
(* answer, and which the limit of twenty drops, are left open too.         *)
(***************************************************************************)
EXTENDS Integers, FiniteSets, Sequences, Functions

CONSTANTS
    Response,       \* request ids; one is used anew when nothing refers to it
    Hooked,         \* those of what scripts fetch: the page's hook reads it too
    None,           \* no response
    Dom,            \* the text the page shows
    MaxTracked,     \* _MAX_TRACKED_REQUESTS
    MaxClosed       \* _closed_max

ASSUME NoneAssumption == None \notin Response /\ Dom \notin Response /\ None # Dom
ASSUME HookedAssumption == Hooked \subseteq Response
ASSUME BoundsAssumption == MaxTracked \in Nat \ {0} /\ MaxClosed \in Nat \ {0}

VARIABLES
    loading,        \* responses the network is delivering
    tracked,        \* _by_request_id
    older,          \* its order: what was tracked when a response began
    chat,           \* responses classified as CHAT_RESPONSE
    frames,         \* ids made up for WebSocket frames
    withText,       \* responses whose text is not empty
    closed,         \* _closed
    pending,        \* _pending_capture_fetches
    fetching,       \* the response whose body _drain_capture_fetches awaits
    draining,       \* a tick is in _drain_capture_fetches
    unread,         \* responses the hook of the page is still reading
    bodies,         \* __engine_response_bodies__: those whose body it keeps
    phase,          \* how far the send is
    sincePrompt,    \* responses that began since the capture was reset
    overlapping,    \* earlier ones the hook still read when bodies was cleared
    answer,         \* the captured response `extracted` was taken from, or
    fromPage        \* the body, or Dom

capture == <<tracked, older, chat, frames, withText, closed>>
hook == <<unread, bodies>>
extracted == <<answer, fromPage>>
send == <<phase, overlapping, extracted>>
vars == <<loading, tracked, older, chat, frames, withText, closed, pending,
          fetching, draining, unread, bodies, phase, sincePrompt, overlapping,
          answer, fromPage>>

(* The buffers and the send keep their domains.                            *)
TypeOK ==
    /\ loading \subseteq Response
    /\ tracked \subseteq Response
    /\ older \in [Response -> SUBSET Response]
    /\ chat \subseteq Response
    /\ frames \subseteq Response
    /\ withText \subseteq Response
    /\ closed \in Seq(Response)
    /\ pending \in Seq(Response)
    /\ fetching \in Response \cup {None}
    /\ draining \in BOOLEAN
    /\ unread \subseteq Hooked
    /\ bodies \subseteq Hooked
    /\ phase \in {"readying", "typing", "typed", "waiting", "over"}
    /\ sincePrompt \subseteq Response
    /\ overlapping \subseteq Response
    /\ answer \in Response \cup {None}
    /\ fromPage \in Response \cup {None, Dom}

(* A new engine, attached to a page that is loaded. *)
Init ==
    /\ loading = {}
    /\ tracked = {}
    /\ older = [r \in Response |-> {}]
    /\ chat = {}
    /\ frames = {}
    /\ withText = {}
    /\ closed = <<>>
    /\ pending = <<>>
    /\ fetching = None
    /\ draining = FALSE
    /\ unread = {}
    /\ bodies = {}
    /\ phase = "readying"
    /\ sincePrompt = {}
    /\ overlapping = {}
    /\ answer = None
    /\ fromPage = None

-----------------------------------------------------------------------------
(* ResponseCapture. *)

Unused(r) ==
    r \notin loading \cup tracked \cup Range(closed) \cup Range(pending) \cup
             unread \cup bodies \cup {fetching, answer, fromPage}

(* The first n of S in the order of the dictionary. *)
First(S, n, before) == {r \in S : Cardinality(before[r] \cap S) < n}

TrimOldest(T, C, before) ==  \* mutant: the oldest goes, whatever it is
    T \ First(T, Cardinality(T) - MaxTracked, before)

(* _trim_tracked: pollution first, one more than needed; then the oldest.  *)
Trim(T, C, before) ==
    LET excess(S) == Cardinality(S) - MaxTracked
        chats == T \ First(T \ C, excess(T) + 1, before)
    IN  IF excess(T) <= 0 THEN T ELSE chats \ First(chats, excess(chats), before)

Newest(s) == IF Len(s) > MaxClosed THEN Tail(s) ELSE s

(* begin_response, for a response that c classifies, and close_response at *)
(* once when it has ended.                                                 *)
BeginResponse(r, c, ended) ==
    /\ chat' = IF c THEN chat \cup {r} ELSE chat \ {r}
    /\ older' = [q \in Response |->
                   IF q = r THEN tracked ELSE IF q \in tracked THEN older[q] \cap tracked ELSE {}]
    /\ tracked' = Trim(tracked \cup {r}, chat', older') \ (IF ended THEN {r} ELSE {})
    /\ closed' = IF ended THEN Newest(Append(closed, r)) ELSE closed
    /\ sincePrompt' = IF phase \in {"typing", "typed", "waiting"}
                      THEN sincePrompt \cup {r} ELSE sincePrompt \ {r}

(* append_chunk; the text is cut at its front, and so it never empties.    *)
AppendChunk(r) ==
    withText' = IF r \in tracked \cap chat THEN withText \cup {r} ELSE withText

(* close_response. *)
CloseResponse(r) ==
    /\ closed' = IF r \in tracked \cap chat THEN Newest(Append(closed, r)) ELSE closed
    /\ tracked' = tracked \ {r}

-----------------------------------------------------------------------------
(* The callbacks of the CDP session. *)

(* on_response; the hook of the page begins to read the body. *)
OnResponse(r) ==
    /\ Unused(r)
    /\ loading' = loading \cup {r}
    /\ unread' = unread \cup ({r} \cap Hooked)
    /\ frames' = frames \ {r}
    /\ withText' = withText \ {r}
    /\ \E c \in BOOLEAN : BeginResponse(r, c, FALSE)
    /\ UNCHANGED <<bodies, pending, fetching, draining, send>>

(* on_chunk, on_event_source_message *)
OnChunk(r) ==
    /\ r \in loading
    /\ AppendChunk(r)
    /\ UNCHANGED <<loading, tracked, older, chat, frames, closed, pending, fetching,
                   draining, hook, sincePrompt, send>>

(* on_loading_finished: queued whether it is tracked or not. *)
OnLoadingFinished(r) ==
    /\ r \in loading
    /\ loading' = loading \ {r}
    /\ pending' = Append(pending, r)
    /\ UNCHANGED <<capture, fetching, draining, hook, sincePrompt, send>>

(* on_loading_failed *)
OnLoadingFailed(r) ==
    /\ r \in loading
    /\ loading' = loading \ {r}
    /\ tracked' = tracked \ {r}
    /\ UNCHANGED <<older, chat, frames, withText, closed, pending, fetching, draining,
                   hook, sincePrompt, send>>

(* on_ws_frame: each frame is a response of its own, which nothing but a   *)
(* [DONE] in that frame ever closes.                                       *)
OnWsFrame(r) ==
    /\ Unused(r)
    /\ frames' = frames \cup {r}
    /\ \E c, done \in BOOLEAN :
          /\ withText' = IF c THEN withText \cup {r} ELSE withText \ {r}
          /\ BeginResponse(r, c, c /\ done)
    /\ UNCHANGED <<loading, pending, fetching, draining, hook, send>>

(* The hook of the page has read a body, at a time of its own, and keeps   *)
(* it unless it is short, or reading it failed.                            *)
HookReads(r) ==
    /\ r \in unread
    /\ unread' = unread \ {r}
    /\ bodies' \in {bodies, bodies \cup {r}}
    /\ UNCHANGED <<loading, capture, pending, fetching, draining, sincePrompt, send>>

-----------------------------------------------------------------------------
(* The engine and the adapter. *)

(* tick, up to the drain. *)
Tick ==
    /\ phase \in {"readying", "waiting"}
    /\ ~draining
    /\ draining' = TRUE
    /\ UNCHANGED <<loading, capture, pending, fetching, hook, sincePrompt, send>>

DrainLast ==  \* mutant: pop() for pop(0)
    /\ draining
    /\ fetching = None
    /\ pending # <<>>
    /\ fetching' = pending[Len(pending)]
    /\ pending' = SubSeq(pending, 1, Len(pending) - 1)
    /\ UNCHANGED <<loading, capture, draining, hook, sincePrompt, send>>

(* _drain_capture_fetches asks for the next body ... *)
DrainNext ==
    /\ draining
    /\ fetching = None
    /\ pending # <<>>
    /\ fetching' = Head(pending)
    /\ pending' = Tail(pending)
    /\ UNCHANGED <<loading, capture, draining, hook, sincePrompt, send>>

(* ... and gets it, or an exception, or one that is too short to count.    *)
Fetched ==
    /\ fetching # None
    /\ AppendChunk(fetching) \/ UNCHANGED withText
    /\ CloseResponse(fetching)
    /\ fetching' = None
    /\ UNCHANGED <<loading, older, chat, frames, pending, draining, hook, sincePrompt, send>>

(* latest_chat_response *)
Readable ==
    LET active == tracked \cap chat \cap withText
        texts == {i \in DOMAIN closed : closed[i] \in withText}
    IN  IF active # {}
        THEN {r \in active : active \ {r} \subseteq older[r]}
        ELSE {closed[i] : i \in {i \in texts : \A j \in texts : j <= i}}

(* get_response_text, kept when it is longer than what was read before:    *)
(* it may be nothing once status labels are left out.                      *)
Read ==
    \/ UNCHANGED extracted
    \/ answer' \in Readable /\ fromPage' = None

(* _extract_response_text, asked for only while there is no text.          *)
AskPage ==
    /\ answer = None /\ fromPage = None
    /\ fromPage' \in bodies \cup {Dom}
    /\ UNCHANGED answer

(* The drain is over, and with it the tick. *)
TickEnds ==
    /\ draining
    /\ fetching = None
    /\ pending = <<>>
    /\ draining' = FALSE
    /\ IF phase = "waiting" THEN Read ELSE UNCHANGED extracted
    /\ UNCHANGED <<loading, capture, pending, fetching, hook, sincePrompt, overlapping, phase>>

(* The stream is active, or the wait is about to end. *)
Look ==
    /\ phase = "waiting"
    /\ ~draining
    /\ AskPage
    /\ UNCHANGED <<loading, capture, pending, fetching, draining, hook, sincePrompt,
                   overlapping, phase>>

ClearActive ==  \* mutant: what was closed before is kept
    /\ tracked' = {}
    /\ older' = [r \in Response |-> {}]
    /\ frames' = {}
    /\ UNCHANGED <<closed, chat, withText>>

(* reset, and a new ResponseCapture. *)
Clear ==
    /\ tracked' = {}
    /\ older' = [r \in Response |-> {}]
    /\ chat' = {}
    /\ frames' = {}
    /\ withText' = {}
    /\ closed' = <<>>

(* The page is ready: the capture is reset, pending fetches are not, and   *)
(* the prompt is about to be typed.                                        *)
Reset ==
    /\ phase = "readying"
    /\ ~draining
    /\ Clear
    /\ phase' = "typing"
    /\ sincePrompt' = {}
    /\ UNCHANGED <<loading, pending, fetching, draining, hook, overlapping, extracted>>

KeepBodies ==  \* mutant: the bodies of earlier responses stay
    /\ phase = "typing"
    /\ phase' = "typed"
    /\ overlapping' = unread \ sincePrompt
    /\ UNCHANGED <<loading, capture, pending, fetching, draining, hook, sincePrompt, extracted>>

(* The prompt is in the input, and the bodies of the page are forgotten:   *)
(* those that are still being read are not.                                *)
ClearBodies ==
    /\ phase = "typing"
    /\ phase' = "typed"
    /\ bodies' = {}
    /\ overlapping' = unread \ sincePrompt
    /\ UNCHANGED <<loading, capture, pending, fetching, draining, unread, sincePrompt, extracted>>

(* Enter is pressed. *)
Submit ==
    /\ phase = "typed"
    /\ phase' = "waiting"
    /\ UNCHANGED <<loading, capture, pending, fetching, draining, hook, sincePrompt,
                   overlapping, extracted>>

(* The wait ends, with a last look when the stream closed or nothing was   *)
(* read yet, ...                                                           *)
Return ==
    /\ phase = "waiting"
    /\ ~draining
    /\ Read \/ AskPage
    /\ phase' = "over"
    /\ UNCHANGED <<loading, capture, pending, fetching, draining, hook, sincePrompt, overlapping>>

(* ... or the send fails before there is an answer to wait for. *)
Fail ==
    /\ phase \in {"readying", "typing", "typed"}
    /\ ~draining
    /\ phase' = "over"
    /\ UNCHANGED <<loading, capture, pending, fetching, draining, hook, sincePrompt,
                   overlapping, extracted>>

(* The next attempt attaches a new engine to the page, whose responses go  *)
(* on loading; a page that was reloaded has forgotten what it read.        *)
Attach ==
    /\ phase = "over"
    /\ Clear
    /\ pending' = <<>>
    /\ phase' = "readying"
    /\ UNCHANGED hook \/ (unread' = {} /\ bodies' = {})
    /\ sincePrompt' = {}
    /\ overlapping' = {}
    /\ answer' = None
    /\ fromPage' = None
    /\ UNCHANGED <<loading, fetching, draining>>

-----------------------------------------------------------------------------
Event(r) ==
    \/ OnResponse(r) \/ OnChunk(r) \/ OnLoadingFinished(r)
    \/ OnLoadingFailed(r) \/ OnWsFrame(r) \/ HookReads(r)

Ticking == Tick \/ DrainNext \/ Fetched \/ TickEnds

Next ==
    \/ \E r \in Response : Event(r)
    \/ Ticking
    \/ Reset \/ ClearBodies \/ Submit \/ Look \/ Return \/ Fail \/ Attach

Spec == Init /\ [][Next]_vars

(* A fetch returns or raises, and the adapter ticks until its wait ends.   *)
FairSpec == Spec /\ WF_vars(Ticking)

-----------------------------------------------------------------------------
(* Properties. *)

(* A captured answer began after the capture was reset for this prompt:    *)
(* it is not what the page loaded before, not what was queued then and is  *)
(* fetched now, and not the stream of an earlier attempt.                  *)
AnswersThePrompt ==
    /\ phase = "waiting" => Readable \subseteq sincePrompt
    /\ answer # None => answer \in sincePrompt

(* An answer that the page gave, as a body, began after that reset too, or *)
(* it is a stream of an earlier attempt that the hook had not read to its  *)
(* end when the bodies were cleared.  Of the text the page shows nothing   *)
(* is known.                                                               *)
PageAnswersThePrompt ==
    fromPage \in Response => fromPage \in sincePrompt \cup overlapping

(* No response is tracked whose end was missed: it is loading, or queued,  *)
(* or being fetched, unless it is a WebSocket frame.                       *)
TrackedWillClose ==
    tracked \subseteq loading \cup frames \cup Range(pending) \cup {fetching}

(* "Drop the oldest non-chat responses first" (_trim_tracked): a chat is   *)
(* lost to the limit only when nothing else is tracked; otherwise it goes  *)
(* because it closed, failed, or the buffers were cleared.                 *)
PollutionGoesFirst ==
    [][\A r \in (tracked \cap chat) \ tracked' :
          \/ r \in Range(closed') \/ r \in loading \ loading'
          \/ phase' \in {"typing", "readying"} /\ phase' # phase
          \/ tracked' \subseteq chat']_vars

(* While the adapter waits, each response that finished gets its turn,     *)
(* however many others finish meanwhile.                                   *)
FinishedIsFetched ==
    \A r \in Response :
        phase = "waiting" /\ r \in Range(pending)
            ~> phase # "waiting" \/ r \notin Range(pending)
=============================================================================
