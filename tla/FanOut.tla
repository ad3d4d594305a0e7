------------------------------- MODULE FanOut -------------------------------
(***************************************************************************)
(* EngineUIAdapter.fan_out: calls that run at the same time keep the       *)
(* browser their adapters share, and its driver, in two attributes of the  *)
(* class.  Each attribute is tested before an await and assigned after it, *)
(* and each call cleans both up when its own adapters are done.            *)
(*                                                                         *)
(* The calls are coroutines of one event loop: an action is what happens   *)
(* between two awaits.  The sends themselves are ProviderSend's business.  *)
(***************************************************************************)
EXTENDS Integers, FiniteSets

CONSTANTS
    Call,       \* fan_out calls under way at one time
    Driver,     \* playwright drivers; an id is reused once its driver stopped
    Browser,    \* browsers, likewise
    None        \* an empty attribute

ASSUME NoneAssumption == None \notin Driver \cup Browser

VARIABLES
    sharedPlaywright,   \* cls._shared_playwright
    sharedBrowser,      \* cls._shared_browser
    playwrights,        \* drivers that run
    browsers,           \* browsers that run, each with its driver
    stage,              \* what each call awaits
    on                  \* the driver or browser that await is about

fanVars == <<sharedPlaywright, sharedBrowser, playwrights, browsers, stage, on>>

Phase == {"idle", "starting", "launching", "sending", "closing", "stopping"}

(* The attributes, processes and calls keep their domains.                 *)
FanTypeOK ==
    /\ sharedPlaywright \in Driver \cup {None}
    /\ sharedBrowser \in Browser \cup {None}
    /\ playwrights \subseteq Driver
    /\ browsers \subseteq Browser \X Driver
    /\ stage \in [Call -> Phase]
    /\ on \in [Call -> Driver \cup Browser \cup {None}]

FanInit ==
    /\ sharedPlaywright = None
    /\ sharedBrowser = None
    /\ playwrights = {}
    /\ browsers = {}
    /\ stage = [f \in Call |-> "idle"]
    /\ on = [f \in Call |-> None]

-----------------------------------------------------------------------------
Running == {b \in Browser : \E d \in Driver : <<b, d>> \in browsers}

Await(f, p, x) ==
    /\ stage' = [stage EXCEPT ![f] = p]
    /\ on' = [on EXCEPT ![f] = x]

(* With a driver d in the attribute, the call goes on to the browser.      *)
NeedBrowser(f, d) ==
    IF sharedBrowser = None
    THEN Await(f, "launching", d)
    ELSE Await(f, "sending", None)

EnterFan(f) ==
    /\ stage[f] = "idle"
    /\ IF sharedPlaywright = None
       THEN Await(f, "starting", None)
       ELSE NeedBrowser(f, sharedPlaywright)
    /\ UNCHANGED <<sharedPlaywright, sharedBrowser, playwrights, browsers>>

Started(f) ==
    /\ stage[f] = "starting"
    /\ \E d \in Driver \ playwrights :
          /\ playwrights' = playwrights \cup {d}
          /\ sharedPlaywright' = d
          /\ NeedBrowser(f, d)
    /\ UNCHANGED <<sharedBrowser, browsers>>

Launched(f) ==
    /\ stage[f] = "launching"
    /\ on[f] \in playwrights
    /\ \E b \in Browser \ Running :
          /\ browsers' = browsers \cup {<<b, on[f]>>}
          /\ sharedBrowser' = b
    /\ Await(f, "sending", None)
    /\ UNCHANGED <<sharedPlaywright, playwrights>>

(* Starting and launching come before the try: nothing is cleaned up when  *)
(* they raise.                                                             *)
Raises(f) ==
    /\ stage[f] \in {"starting", "launching"}
    /\ Await(f, "idle", None)
    /\ UNCHANGED <<sharedPlaywright, sharedBrowser, playwrights, browsers>>

(* The second half of the finally, entered with the browser seen to.       *)
StopOrReturn(f) ==
    IF sharedPlaywright = None
    THEN Await(f, "idle", None)
    ELSE Await(f, "stopping", sharedPlaywright)

(* The sends are done, or cancelled, and the finally begins.               *)
Sent(f) ==
    /\ stage[f] = "sending"
    /\ IF sharedBrowser = None
       THEN StopOrReturn(f)
       ELSE Await(f, "closing", sharedBrowser)
    /\ UNCHANGED <<sharedPlaywright, sharedBrowser, playwrights, browsers>>

ClosedKept(f) ==  \* mutant: the attribute keeps the closed browser
    /\ stage[f] = "closing"
    /\ browsers' = {p \in browsers : p[1] # on[f]}
    /\ StopOrReturn(f)
    /\ UNCHANGED <<sharedBrowser, sharedPlaywright, playwrights>>

(* Whatever the attribute holds when the browser is closed is forgotten.   *)
Closed(f) ==
    /\ stage[f] = "closing"
    /\ browsers' = {p \in browsers : p[1] # on[f]}
    /\ sharedBrowser' = None
    /\ StopOrReturn(f)
    /\ UNCHANGED <<sharedPlaywright, playwrights>>

StoppedKept(f) ==  \* mutant: the attribute keeps the stopped driver
    /\ stage[f] = "stopping"
    /\ playwrights' = playwrights \ {on[f]}
    /\ browsers' = {p \in browsers : p[2] # on[f]}
    /\ Await(f, "idle", None)
    /\ UNCHANGED <<sharedPlaywright, sharedBrowser>>

(* A driver takes its browsers with it. *)
Stopped(f) ==
    /\ stage[f] = "stopping"
    /\ playwrights' = playwrights \ {on[f]}
    /\ browsers' = {p \in browsers : p[2] # on[f]}
    /\ sharedPlaywright' = None
    /\ Await(f, "idle", None)
    /\ UNCHANGED sharedBrowser

-----------------------------------------------------------------------------
Resume(f) ==
    \/ Started(f) \/ Launched(f) \/ Raises(f)
    \/ Sent(f) \/ Closed(f) \/ Stopped(f)

FanNext == \E f \in Call : EnterFan(f) \/ Resume(f)

FanSpec == FanInit /\ [][FanNext]_fanVars

-----------------------------------------------------------------------------
(* Properties. *)

(* No call is handed a browser that a finished call left behind: while the *)
(* attribute holds one, the call that put it there, or another that will   *)
(* clear it, is still sending or cleaning up.                              *)
NoLeftoverBrowser ==
    sharedBrowser # None => \E f \in Call : stage[f] \in {"sending", "closing"}

(* The attribute never holds a driver that is gone for good: it runs, or   *)
(* the call that stops it is about to clear the attribute.                 *)
SharedDriverRuns ==
    \/ sharedPlaywright \in playwrights \cup {None}
    \/ \E f \in Call : stage[f] = "stopping" /\ on[f] = sharedPlaywright

=============================================================================
