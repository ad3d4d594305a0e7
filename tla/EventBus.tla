------------------------------ MODULE EventBus ------------------------------
(***************************************************************************)
(* EventBus: the bus of an engine.  publish calls the subscribers one      *)
(* after the other, on the stack of the publisher; a subscriber may        *)
(* subscribe, unsubscribe and publish in its turn, and may raise.  The     *)
(* list of subscribers is copied before the first call.  Subscribers that  *)
(* are coroutines are left to dispatch_async, which nothing calls.         *)
(***************************************************************************)
EXTENDS Lists

CONSTANTS
    Handler, Async,     \* subscribers; those that are coroutines
    HistoryLimit,
    MaxPublished,       \* bound: events ever published
    MaxSubscribed       \* bound: entries of the list

VARIABLES
    subscribers,    \* _subscribers, in the order of subscription
    publishing,        \* the publications under way, the innermost last
    history,        \* _history: the last events
    published       \* _emitted; events are numbered by it

busVars == <<subscribers, publishing, history, published>>

BusInit == subscribers = <<>> /\ publishing = <<>> /\ history = <<>> /\ published = 0

Top == publishing[Len(publishing)]
SetTop(p) == publishing' = [publishing EXCEPT ![Len(publishing)] = p]

(* The caller of the bus has the processor: the code around it, or the     *)
(* subscriber the innermost publication is calling.                        *)
CallerRuns == publishing # <<>> => Top.calling

-----------------------------------------------------------------------------
Subscribe(h) ==
    /\ CallerRuns
    /\ Len(subscribers) < MaxSubscribed
    /\ subscribers' = Append(subscribers, h)
    /\ UNCHANGED <<publishing, history, published>>

(* What subscribe returns takes out every entry of its handler.            *)
Unsubscribe(h) ==
    /\ CallerRuns
    /\ subscribers' = Outside(subscribers, {h})
    /\ UNCHANGED <<publishing, history, published>>

Recent(events) ==
    IF Len(events) <= HistoryLimit THEN events
    ELSE SubSeq(events, Len(events) - HistoryLimit + 1, Len(events))

Publish ==
    /\ CallerRuns
    /\ published < MaxPublished
    /\ published' = published + 1
    /\ history' = Recent(Append(history, published + 1))
    /\ publishing' = Append(publishing, [event |-> published + 1, copy |-> subscribers,
                                   next |-> 1, calling |-> FALSE, heard |-> <<>>])
    /\ UNCHANGED subscribers

RoundLive(p) == subscribers  \* mutant: the loop walks the list itself
Round(p) == p.copy

(* The loop skips a coroutine.                                             *)
Skip ==
    /\ publishing # <<>> /\ ~Top.calling
    /\ Top.next <= Len(Round(Top)) /\ Round(Top)[Top.next] \in Async
    /\ SetTop([Top EXCEPT !.next = @ + 1])
    /\ UNCHANGED <<subscribers, history, published>>

CallHandler ==
    /\ publishing # <<>> /\ ~Top.calling
    /\ Top.next <= Len(Round(Top)) /\ Round(Top)[Top.next] \notin Async
    /\ SetTop([Top EXCEPT !.calling = TRUE, !.heard = Append(@, Round(Top)[Top.next])])
    /\ UNCHANGED <<subscribers, history, published>>

(* It returns or raises; the loop goes on.                                 *)
HandlerEnds ==
    /\ publishing # <<>> /\ Top.calling
    /\ SetTop([Top EXCEPT !.calling = FALSE, !.next = @ + 1])
    /\ UNCHANGED <<subscribers, history, published>>

PublishReturns ==
    /\ publishing # <<>> /\ ~Top.calling
    /\ Top.next > Len(Round(Top))
    /\ publishing' = SubSeq(publishing, 1, Len(publishing) - 1)
    /\ UNCHANGED <<subscribers, history, published>>

(* Between publications the diagnostics may be cleared.                    *)
ClearHistory ==
    /\ publishing = <<>>
    /\ history' = <<>> /\ published' = 0
    /\ UNCHANGED <<subscribers, publishing>>

BusNext ==
    \/ \E h \in Handler : Subscribe(h) \/ Unsubscribe(h)
    \/ Publish \/ Skip \/ CallHandler \/ HandlerEnds \/ PublishReturns \/ ClearHistory

BusSpec == BusInit /\ [][BusNext]_busVars

-----------------------------------------------------------------------------
(* A publication that returns was heard by whoever was subscribed when it  *)
(* was made, once for each subscription and in their order, and by nobody  *)
(* else: neither a nested publication, nor a change of the list by a       *)
(* subscriber, nor one that raises comes between.                          *)
EveryoneHears ==
    [][Len(publishing') < Len(publishing)
         => Top.heard = Outside(Top.copy, Async)]_busVars
=============================================================================
