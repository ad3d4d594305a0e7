-------------------------- MODULE ReliabilityStore --------------------------
(***************************************************************************)
(* ProviderReliabilityStore: counts of successes and failures by target,   *)
(* kept in memory and saved to a file on demand.  save serialises all of   *)
(* them, writes a temporary file beside the old one and moves it over it;  *)
(* a new store reads the file and starts empty when it cannot be parsed.   *)
(* A process may crash between any two of these steps, and its writes may  *)
(* fail.  Left out: a start that cannot read a good file, which empties    *)
(* the store too.                                                          *)
(***************************************************************************)
EXTENDS Integers

CONSTANTS
    Target,     \* pairs of a kind and a key
    MaxCount,   \* bound: outcomes recorded of one target
    Absent, Half

Count == [successes : Nat, failures : Nat]
Table == [Target -> Count \cup {Absent}]

ASSUME FileAssumption ==
    /\ Absent # Half
    /\ Absent \notin Count /\ {Absent, Half} \cap Table = {}
    /\ MaxCount \in Nat

VARIABLES
    targets,    \* _targets: the counts of the targets known
    file, tmp,  \* what the two files hold: Absent, Half of a text, or counts
    saving,     \* Absent, or the counts that save has serialised
    up          \* the process is running

relVars == <<targets, file, tmp, saving, up>>

NoTargets == [t \in Target |-> Absent]
Fresh == [successes |-> 0, failures |-> 0]

RelInit ==
    /\ targets = NoTargets /\ saving = Absent /\ up = TRUE
    /\ file = Absent /\ tmp = Absent

Known(t) == IF targets[t] = Absent THEN Fresh ELSE targets[t]

-----------------------------------------------------------------------------
Get(t) ==
    /\ up /\ saving = Absent
    /\ targets' = [targets EXCEPT ![t] = Known(t)]
    /\ UNCHANGED <<file, tmp, saving, up>>

Record(t, success) ==
    /\ up /\ saving = Absent
    /\ Known(t).successes + Known(t).failures < MaxCount
    /\ targets' = [targets EXCEPT ![t] =
                       IF success THEN [Known(t) EXCEPT !.successes = @ + 1]
                       ELSE [Known(t) EXCEPT !.failures = @ + 1]]
    /\ UNCHANGED <<file, tmp, saving, up>>

Reset ==
    /\ up /\ saving = Absent
    /\ targets' = NoTargets
    /\ UNCHANGED <<file, tmp, saving, up>>

(* save opens the temporary file, which empties it, then writes.           *)
OpenInPlace ==  \* mutant: the file itself is written
    /\ up /\ saving = Absent
    /\ saving' = targets
    /\ file' = Half
    /\ UNCHANGED <<targets, tmp, up>>

OpenTmp ==
    /\ up /\ saving = Absent
    /\ saving' = targets
    /\ tmp' = Half
    /\ UNCHANGED <<targets, file, up>>

WriteTmp ==
    /\ up /\ saving # Absent /\ tmp # saving
    /\ tmp' = saving
    /\ UNCHANGED <<targets, file, saving, up>>

(* A full disk: save raises, the half it wrote stays.                      *)
WriteRaises ==
    /\ up /\ saving # Absent /\ tmp = Half
    /\ saving' = Absent
    /\ UNCHANGED <<targets, file, tmp, up>>

Replace ==
    /\ up /\ saving # Absent /\ tmp = saving
    /\ file' = tmp /\ tmp' = Absent /\ saving' = Absent
    /\ UNCHANGED <<targets, up>>

Crash ==
    /\ up
    /\ up' = FALSE /\ saving' = Absent /\ targets' = NoTargets
    /\ UNCHANGED <<file, tmp>>

(* A new store: a file that does not parse is as good as none.             *)
Loaded == IF file \in {Absent, Half} THEN NoTargets ELSE file

Start ==
    /\ ~up
    /\ up' = TRUE
    /\ targets' = Loaded
    /\ UNCHANGED <<file, tmp, saving>>

RelNext ==
    \/ \E t \in Target : Get(t) \/ Record(t, TRUE) \/ Record(t, FALSE)
    \/ Reset \/ OpenTmp \/ WriteTmp \/ WriteRaises \/ Replace \/ Crash \/ Start

RelSpec == RelInit /\ [][RelNext]_relVars

-----------------------------------------------------------------------------
(* What was learnt survives: whatever crashes or fails, the file holds     *)
(* nothing or all the counts of the last save that ended, as they were     *)
(* when it ended, and the next start finds them.                           *)
SavesSurvive ==
    [][/\ file' # file => file' = targets
       /\ ~up /\ up' => targets' = (IF file = Absent THEN NoTargets ELSE file)]_relVars
=============================================================================
