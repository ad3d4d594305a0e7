------------------------------- MODULE Lists -------------------------------
(***************************************************************************)
(* A list without some of its entries, as the list comprehensions of the   *)
(* code build it.  It is SelectSeq with the entries to leave out given as  *)
(* a set and the recursion as a function, so that it can be proved about.  *)
(***************************************************************************)
EXTENDS Integers, Sequences

(* What is kept of the first n entries of s.                               *)
Keeping(s, S) ==
    LET kept[n \in 0 .. Len(s)] ==
            IF n = 0 THEN <<>>
            ELSE IF s[n] \in S THEN kept[n - 1] ELSE Append(kept[n - 1], s[n])
    IN  kept

Outside(s, S) == Keeping(s, S)[Len(s)]
=============================================================================
