--------------------------- MODULE RecoveryCascade ---------------------------
(***************************************************************************)
(* RecoveryCascade: run walks the steps in ascending cost, calls the       *)
(* handler of each that has one, and stops at a confident success.         *)
(* Handlers may be coroutines: while one is awaited other runs go on and   *)
(* handlers are registered.                                                *)
(***************************************************************************)
EXTENDS Integers, Sequences

CONSTANTS
    CascadeStep,    \* the steps of CASCADE_ORDER that come into play, by place
    Runner,         \* tasks that run the cascade
    MaxHistory      \* max_history

Last == 8   \* the number of steps

ASSUME CascadeAssumption == CascadeStep \subseteq 1..Last /\ MaxHistory \in Nat

VARIABLES
    handlers,   \* the handler of each step: "none", "builtin", or "custom"
    runs,       \* what each runner does
    outcomes    \* history: the outcomes recorded last

cascadeVars == <<handlers, runs, outcomes>>

(* The built-in handlers succeed when the context says that their means    *)
(* worked, with a fixed confidence in percent.                             *)
Confidence == <<95, 80, 70, 65, 85, 90, 95, 99>>
MinConfidence == 55

Results == [success : BOOLEAN, confidence : {MinConfidence - 1, MinConfidence}]

BuiltIn(s, context) ==
    IF s \in context THEN [success |-> TRUE, confidence |-> Confidence[s]]
    ELSE [success |-> FALSE, confidence |-> 0]

Raised == [success |-> FALSE, confidence |-> 0]
NoRun == [at |-> 0, awaiting |-> FALSE, context |-> {}, tried |-> <<>>, since |-> {}]

CascadeInit ==
    /\ \E built \in {{}, CascadeStep} :
          handlers = [s \in CascadeStep |-> IF s \in built THEN "builtin" ELSE "none"]
    /\ runs = [r \in Runner |-> NoRun]
    /\ outcomes = <<>>

Given == {s \in CascadeStep : handlers[s] # "none"}
Confident(o) == o.success /\ o.confidence >= MinConfidence

-----------------------------------------------------------------------------
Register(s) ==
    /\ handlers' = [handlers EXCEPT ![s] = "custom"]
    /\ UNCHANGED <<runs, outcomes>>

ResetHistory == outcomes' = <<>> /\ UNCHANGED <<handlers, runs>>

Run(r, context) ==
    /\ runs[r] = NoRun
    /\ runs' = [runs EXCEPT ![r] = [NoRun EXCEPT !.at = 1, !.context = context, !.since = Given]]
    /\ UNCHANGED <<handlers, outcomes>>

SkipStep(r) ==
    /\ runs[r].at \in 1..Last /\ ~runs[r].awaiting
    /\ runs[r].at \notin Given
    /\ runs' = [runs EXCEPT ![r].at = @ + 1]
    /\ UNCHANGED <<handlers, outcomes>>

(* What a handler's answer does to the run; the next step is Last + 1 when *)
(* the run breaks off.                                                     *)
Answered(r, o) ==
    [runs[r] EXCEPT !.tried = Append(@, [step |-> runs[r].at, outcome |-> o]),
                    !.awaiting = FALSE,
                    !.at = IF Confident(o) THEN Last + 1 ELSE @ + 1]

RecordOutcome(o) ==
    outcomes' = LET all == Append(outcomes, o) IN
                IF Len(all) > MaxHistory THEN Tail(all) ELSE all

TryBuiltIn(r) ==
    LET s == runs[r].at IN
    /\ s \in Given /\ ~runs[r].awaiting
    /\ handlers[s] = "builtin"
    /\ LET o == BuiltIn(s, runs[r].context) IN
          runs' = [runs EXCEPT ![r] = Answered(r, o)] /\ RecordOutcome(o)
    /\ UNCHANGED handlers

TryCustom(r) ==
    LET s == runs[r].at IN
    /\ s \in Given /\ ~runs[r].awaiting
    /\ handlers[s] = "custom"
    /\ runs' = [runs EXCEPT ![r].awaiting = TRUE]
    /\ UNCHANGED <<handlers, outcomes>>

CustomReturns(r) ==
    /\ runs[r].awaiting
    /\ \E o \in Results : runs' = [runs EXCEPT ![r] = Answered(r, o)] /\ RecordOutcome(o)
    /\ UNCHANGED handlers

CustomRaisesOut(r) ==  \* mutant: a handler that raises ends the run
    /\ runs[r].awaiting
    /\ runs' = [runs EXCEPT ![r] = [Answered(r, Raised) EXCEPT !.at = Last + 1]]
    /\ UNCHANGED <<handlers, outcomes>>

(* An exception is an outcome of the run that the history does not record. *)
CustomRaises(r) ==
    /\ runs[r].awaiting
    /\ runs' = [runs EXCEPT ![r] = Answered(r, Raised)]
    /\ UNCHANGED <<handlers, outcomes>>

RunReturns(r) ==
    /\ runs[r].at = Last + 1
    /\ runs' = [runs EXCEPT ![r] = NoRun]
    /\ UNCHANGED <<handlers, outcomes>>

CascadeNext ==
    \/ \E s \in CascadeStep : Register(s)
    \/ ResetHistory
    \/ \E r \in Runner : \/ \E context \in SUBSET CascadeStep : Run(r, context)
                         \/ SkipStep(r) \/ TryBuiltIn(r) \/ TryCustom(r)
                         \/ CustomReturns(r) \/ CustomRaises(r) \/ RunReturns(r)

CascadeSpec == CascadeInit /\ [][CascadeNext]_cascadeVars

-----------------------------------------------------------------------------
(* The cheapest valid recovery is taken: what a run tried before its last  *)
(* step was no confident success, it went up in cost, and every handler    *)
(* that was registered when the run began was tried, unless it is dearer   *)
(* than the confident success that ended the run.  Neither an exception    *)
(* nor a registration in between makes it skip one.                        *)
CheapestFirst ==
    \A r \in Runner :
        LET tried == runs[r].tried
            ended == tried # <<>> /\ Confident(tried[Len(tried)].outcome)
            reach == IF ended THEN tried[Len(tried)].step ELSE runs[r].at - 1
        IN  /\ \A i \in 1..(Len(tried) - 1) :
                  ~Confident(tried[i].outcome) /\ tried[i].step < tried[i + 1].step
            /\ ended => runs[r].at = Last + 1
            /\ \A s \in runs[r].since : s <= reach => \E i \in DOMAIN tried : tried[i].step = s
=============================================================================
