-------------------------- MODULE MCResponseCapture --------------------------
(* Small instances of ResponseCapture for TLC. *)
EXTENDS ResponseCapture

(* States that differ only in what is remembered of a response nothing     *)
(* holds any more have the same future: TLC takes them for one (VIEW).  An *)
(* id that is used again is in sincePrompt while the answer may be taken   *)
(* from it, and after that only where the answer came from still matters.  *)
Held == tracked \cup Range(closed)
Remembered == Held \cup unread \cup bodies \cup {answer, fromPage}

StillOverlapping ==
    (overlapping \ sincePrompt) \cap
        (IF phase \in {"typed", "waiting"} THEN Remembered ELSE {fromPage})

Essential ==
    <<loading, tracked, [r \in Response |-> older[r] \cap tracked], chat \cap Held,
      frames \cap tracked, withText \cap Held, closed, pending, fetching, draining,
      unread, bodies, phase, sincePrompt \cap Remembered, StillOverlapping,
      answer, fromPage>>
=============================================================================
