---------------------------- MODULE QueueProofs ----------------------------
(***************************************************************************)
(* What the parts that work through lists and queues keep, for every set   *)
(* of subscribers, streams, tasks, accounts and responses and for every    *)
(* bound: the event bus, the network sensor, the dead letter queue, the    *)
(* choice of an account, and the capture of responses.                     *)
(***************************************************************************)
EXTENDS EventBus, NetworkSensor, DeadLetterQueue, Routing, ResponseCapture,
        SequenceTheorems, FiniteSetTheorems, WellFoundedInduction, TLAPS

-----------------------------------------------------------------------------
(* What holds at 0 and is handed on from one number to the next holds up   *)
(* to n.                                                                   *)
LEMMA CountsUp ==
  ASSUME NEW n \in Nat, NEW Good, 0 \in Good,
         \A m \in 0 .. n : m < n /\ m \in Good => m + 1 \in Good
  PROVE  \A m \in 0 .. n : m \in Good
  <1> DEFINE Bad == {m \in 0 .. n : m \notin Good}
             R == OpToRel(<, Nat)
  <1> SUFFICES ASSUME Bad # {} PROVE FALSE
    OBVIOUS
  <1>1. Bad \subseteq Nat
    OBVIOUS
  <1>2. PICK x \in Bad : \A y \in Bad : ~(<<y, x>> \in R)
    <2> HIDE DEF Bad
    <2> QED
      BY <1>1, NatLessThanWellFounded, WFMin, Zenon
  <1>3. \A y \in Bad : ~(y < x)
    <2>1. \A y, z \in Nat : y < z => <<y, z>> \in R
      BY Zenon DEF OpToRel
    <2> HIDE DEF R, Bad
    <2> QED
      BY <1>1, <1>2, <2>1
  <1>4. x \in 0 .. n /\ x \notin Good /\ x # 0
    OBVIOUS
  <1>5. x - 1 \in 0 .. n /\ x - 1 < n /\ x - 1 < x
    BY <1>4
  <1>6. x - 1 \in Good
    BY <1>3, <1>5
  <1>7. (x - 1) + 1 \in Good
    BY <1>5, <1>6
  <1> QED
    BY <1>4, <1>7

(* The recursion of Keeping is well founded.                               *)
LEMMA KeepingIs ==
  ASSUME NEW s, Len(s) \in Nat, NEW S
  PROVE  /\ Keeping(s, S) = [n \in 0 .. Len(s) |->
                IF n = 0 THEN <<>>
                ELSE IF s[n] \in S THEN Keeping(s, S)[n - 1]
                     ELSE Append(Keeping(s, S)[n - 1], s[n])]
  <1> DEFINE Step(k, n) == IF s[n] \in S THEN k ELSE Append(k, s[n])
             Solves(f, m) == f = [n \in 0 .. m |-> IF n = 0 THEN <<>> ELSE Step(f[n - 1], n)]
             Good == {m \in 0 .. Len(s) : \E f : Solves(f, m)}
  <1>1. 0 \in Good
    <2>1. \E f : Solves(f, 0)
      <3>1. Solves([n \in 0 .. 0 |-> <<>>], 0)
        OBVIOUS
      <3> HIDE DEF Solves
      <3> QED
        BY <3>1, Zenon
    <2> HIDE DEF Solves
    <2> QED
      BY <2>1
  <1>2. ASSUME NEW m \in 0 .. Len(s), m < Len(s), m \in Good
        PROVE  m + 1 \in Good
    <2>1. PICK f : Solves(f, m)
      BY <1>2
    <2> DEFINE g == [n \in 0 .. m + 1 |-> IF n = m + 1 THEN Step(f[m], m + 1) ELSE f[n]]
    <2>2. ASSUME NEW n \in 0 .. m + 1 PROVE g[n] = IF n = 0 THEN <<>> ELSE Step(g[n - 1], n)
      <3> HIDE DEF Step
      <3>1. CASE n = 0
        BY <2>1, <3>1
      <3>2. CASE n # 0 /\ n < m + 1
        <4>1. n \in 0 .. m /\ n - 1 \in 0 .. m /\ n # m + 1 /\ n - 1 # m + 1
          BY <3>2
        <4>2. g[n] = f[n] /\ g[n - 1] = f[n - 1]
          BY <4>1
        <4>3. f[n] = Step(f[n - 1], n)
          BY <2>1, <4>1, <3>2
        <4> QED
          BY <4>2, <4>3, <3>2
      <3>3. CASE n = m + 1
        <4>1. g[n] = Step(f[m], n) /\ n # 0 /\ n - 1 = m /\ m \in 0 .. m + 1 /\ m # m + 1
          BY <3>3
        <4>2. g[m] = f[m]
          BY <4>1
        <4> QED
          BY <4>1, <4>2
      <3> QED
        BY <3>1, <3>2, <3>3
    <2>3. Solves(g, m + 1)
      <3> HIDE DEF Step
      <3> QED
        BY <2>2
    <2> HIDE DEF Solves, g
    <2>4. \E h : Solves(h, m + 1)
      BY <2>3, Zenon
    <2> QED
      BY <1>2, <2>4
  <1>3. Len(s) \in Good
    <2> HIDE DEF Good
    <2>1. \A m \in 0 .. Len(s) : m \in Good
      BY <1>1, <1>2, CountsUp
    <2> QED
      BY <2>1
  <1>4. PICK f : Solves(f, Len(s))
    BY <1>3
  <1> DEFINE Eq(k) == k = [n \in 0 .. Len(s) |->
                IF n = 0 THEN <<>>
                ELSE IF s[n] \in S THEN k[n - 1] ELSE Append(k[n - 1], s[n])]
  <1>5. Eq(f)
    BY <1>4
  <1>6. Keeping(s, S) = CHOOSE k : Eq(k)
    BY DEF Keeping
  <1>7. Eq(CHOOSE k : Eq(k))
    <2> HIDE DEF Eq
    <2> QED
      BY <1>5
  <1>8. Eq(Keeping(s, S))
    <2> HIDE DEF Eq
    <2> QED
      BY <1>6, <1>7
  <1> QED
    BY <1>8

(* What is kept of one more entry.                                         *)
LEMMA KeepingGrows ==
  ASSUME NEW s, Len(s) \in Nat, NEW S
  PROVE  /\ Keeping(s, S)[0] = <<>>
         /\ \A n \in 1 .. Len(s) :
              Keeping(s, S)[n] = IF s[n] \in S THEN Keeping(s, S)[n - 1]
                                 ELSE Append(Keeping(s, S)[n - 1], s[n])
  <1> DEFINE K == Keeping(s, S)
             Eq(k) == k = [n \in 0 .. Len(s) |->
                IF n = 0 THEN <<>>
                ELSE IF s[n] \in S THEN k[n - 1] ELSE Append(k[n - 1], s[n])]
  <1>1. Eq(K)
    BY KeepingIs, Zenon
  <1> HIDE DEF K
  <1>2. K[0] = <<>>
    BY <1>1
  <1>3. ASSUME NEW n \in 1 .. Len(s)
        PROVE  K[n] = IF s[n] \in S THEN K[n - 1] ELSE Append(K[n - 1], s[n])
    <2>1. n \in 0 .. Len(s) /\ n # 0
      OBVIOUS
    <2> QED
      BY <1>1, <2>1
  <1> QED
    BY <1>2, <1>3 DEF K

(* k holds the entries of s outside S among the first n, which stand in s  *)
(* at the places g.                                                        *)
KeptAt(k, s, n, S, g) ==
  /\ g \in [1 .. Len(k) -> 1 .. n]
  /\ \A i, j \in 1 .. Len(k) : i < j => g[i] < g[j]
  /\ \A i \in 1 .. Len(k) : k[i] = s[g[i]] /\ s[g[i]] \notin S
  /\ \A j \in 1 .. n : s[j] \notin S => \E i \in 1 .. Len(k) : g[i] = j

(* A list without the entries of S is what is left of it, in its order.    *)
LEMMA OutsideKeepsOrder ==
  ASSUME NEW E, NEW s \in Seq(E), NEW S
  PROVE  /\ Outside(s, S) \in Seq(E)
         /\ Len(Outside(s, S)) <= Len(s)
         /\ \E g : KeptAt(Outside(s, S), s, Len(s), S, g)
  <1> DEFINE K == Keeping(s, S)
             Holds(m) == /\ K[m] \in Seq(E)
                         /\ Len(K[m]) <= m
                         /\ \E g : KeptAt(K[m], s, m, S, g)
             Good == {m \in 0 .. Len(s) : Holds(m)}
  <1>0. Len(s) \in Nat /\ \A i \in 1 .. Len(s) : s[i] \in E
    OBVIOUS
  <1>1. /\ K[0] = <<>>
        /\ \A m \in 0 .. Len(s) : m < Len(s) =>
             K[m + 1] = IF s[m + 1] \in S THEN K[m] ELSE Append(K[m], s[m + 1])
    <2>1. K[0] = <<>> /\ \A n \in 1 .. Len(s) :
            K[n] = IF s[n] \in S THEN K[n - 1] ELSE Append(K[n - 1], s[n])
      BY <1>0, KeepingGrows
    <2> HIDE DEF K
    <2>2. ASSUME NEW m \in 0 .. Len(s), m < Len(s)
          PROVE  K[m + 1] = IF s[m + 1] \in S THEN K[m] ELSE Append(K[m], s[m + 1])
      <3>1. m + 1 \in 1 .. Len(s) /\ (m + 1) - 1 = m
        BY <1>0, <2>2
      <3> QED
        BY <2>1, <3>1
    <2> QED
      BY <2>1, <2>2
  <1> HIDE DEF K
  <1>2. 0 \in Good
    <2>1. KeptAt(<<>>, s, 0, S, <<>>)
      BY DEF KeptAt
    <2>2. \E g : KeptAt(K[0], s, 0, S, g)
      BY <1>1, <2>1, Zenon
    <2>3. K[0] \in Seq(E) /\ Len(K[0]) <= 0
      BY <1>1
    <2> QED
      BY <1>0, <2>2, <2>3
  <1>3. ASSUME NEW m \in 0 .. Len(s), m < Len(s), m \in Good
        PROVE  m + 1 \in Good
    <2>1. m + 1 \in 1 .. Len(s) /\ m \in Nat
      BY <1>3, <1>0
    <2>2. PICK g : KeptAt(K[m], s, m, S, g)
      BY <1>3
    <2>3. K[m] \in Seq(E) /\ Len(K[m]) <= m /\ Len(K[m]) \in Nat
      BY <1>3
    <2>4. CASE s[m + 1] \in S
      <3>1. K[m + 1] = K[m]
        BY <1>1, <1>3, <2>4
      <3>2. KeptAt(K[m], s, m + 1, S, g)
        BY <2>1, <2>2, <2>3, <2>4 DEF KeptAt
      <3> QED
        BY <2>1, <2>3, <3>1, <3>2
    <2>5. CASE s[m + 1] \notin S
      <3> DEFINE x == s[m + 1]
                 l == Len(K[m])
                 k == Append(K[m], x)
                 h == [i \in 1 .. l + 1 |-> IF i = l + 1 THEN m + 1 ELSE g[i]]
      <3>1. K[m + 1] = k
        BY <1>1, <1>3, <2>5
      <3>2. x \in E
        BY <1>0, <2>1
      <3>3. /\ k \in Seq(E) /\ Len(k) = l + 1 /\ k[l + 1] = x
            /\ \A i \in 1 .. l : k[i] = K[m][i]
        <4> HIDE DEF x
        <4> QED
          BY <2>3, <3>2
      <3>4. KeptAt(k, s, m + 1, S, h)
        <4> l \in Nat
          BY <2>3
        <4> HIDE DEF k, l
        <4>0. \A i \in 1 .. l : i \in 1 .. l + 1 /\ i # l + 1 /\ h[i] = g[i]
          OBVIOUS
        <4>1. \A i \in 1 .. l : h[i] = g[i] /\ g[i] \in 1 .. m /\ k[i] = s[g[i]] /\ s[g[i]] \notin S
          BY <2>2, <3>3, <4>0 DEF KeptAt, l
        <4>2. h[l + 1] = m + 1
          OBVIOUS
        <4>3. h \in [1 .. l + 1 -> 1 .. m + 1]
          <5>1. \A i \in 1 .. l + 1 : h[i] \in 1 .. m + 1
            <6> HIDE DEF h
            <6> QED
              BY <2>1, <4>1, <4>2
          <5> QED
            BY <5>1
        <4>4. \A i, j \in 1 .. l : i < j => h[i] < h[j]
          BY <2>2, <4>1 DEF KeptAt, l
        <4>5. \A j \in 1 .. m : s[j] \notin S => \E i \in 1 .. l : h[i] = j
          BY <2>2, <4>1 DEF KeptAt, l
        <4> HIDE DEF h
        <4>6. \A i, j \in 1 .. l + 1 : i < j => h[i] < h[j]
          BY <2>1, <4>1, <4>2, <4>4
        <4>7. \A i \in 1 .. l + 1 : k[i] = s[h[i]] /\ s[h[i]] \notin S
          BY <2>5, <3>3, <4>1, <4>2
        <4>8. \A j \in 1 .. m + 1 : s[j] \notin S => \E i \in 1 .. l + 1 : h[i] = j
          BY <2>1, <4>2, <4>5
        <4> QED
          BY <3>3, <4>3, <4>6, <4>7, <4>8 DEF KeptAt
      <3>5. \E f : KeptAt(k, s, m + 1, S, f)
        <4> HIDE DEF h, k
        <4> QED
          BY <3>4
      <3> HIDE DEF k
      <3> QED
        BY <2>1, <2>3, <3>1, <3>3, <3>5
    <2> QED
      BY <2>4, <2>5
  <1>4. Len(s) \in Good
    <2> HIDE DEF Good
    <2>1. \A m \in 0 .. Len(s) : m \in Good
      BY <1>0, <1>2, <1>3, CountsUp
    <2> QED
      BY <1>0, <2>1
  <1> QED
    BY <1>4 DEF Outside, K

-----------------------------------------------------------------------------
Publication ==
  [event : Nat, copy : Seq(Handler), next : Nat, calling : BOOLEAN, heard : Seq(Handler)]

(* A publication was heard by the subscribers of its copy up to where its  *)
(* loop is.                                                                *)
Heard(p) ==
  /\ p.next >= 1 /\ p.next <= Len(p.copy) + 1
  /\ p.calling => p.next <= Len(p.copy) /\ p.heard = Keeping(p.copy, Async)[p.next]
  /\ ~p.calling => p.heard = Keeping(p.copy, Async)[p.next - 1]

BusInv ==
  /\ subscribers \in Seq(Handler)
  /\ published \in Nat
  /\ publishing \in Seq(Publication)
  /\ \A i \in 1 .. Len(publishing) : Heard(publishing[i])

(* A step of the innermost publication.                                    *)
LEMMA TopMoves ==
  ASSUME BusInv, publishing # <<>>, NEW p \in Publication, Heard(p), SetTop(p),
         UNCHANGED <<subscribers, published>>
  PROVE  BusInv'
  BY DEF BusInv, SetTop

LEMMA TopIs == BusInv /\ publishing # <<>> => Top \in Publication /\ Heard(Top)
  BY DEF BusInv, Top

LEMMA BusStep == BusInv /\ [BusNext]_busVars => BusInv'
  <1> SUFFICES ASSUME BusInv, [BusNext]_busVars PROVE BusInv'
    OBVIOUS
  <1>1. ASSUME NEW h \in Handler, Subscribe(h) PROVE BusInv'
    BY <1>1 DEF Subscribe, BusInv
  <1>2. ASSUME NEW h \in Handler, Unsubscribe(h) PROVE BusInv'
    <2>1. Outside(subscribers, {h}) \in Seq(Handler)
      BY OutsideKeepsOrder DEF BusInv
    <2> QED
      BY <1>2, <2>1 DEF Unsubscribe, BusInv
  <1>3. CASE Publish
    <2> DEFINE p == [event |-> published + 1, copy |-> subscribers,
                     next |-> 1, calling |-> FALSE, heard |-> <<>>]
    <2>1. publishing' = Append(publishing, p) /\ subscribers' = subscribers /\ published' = published + 1
      BY <1>3 DEF Publish
    <2>2. p \in Publication
      BY DEF BusInv, Publication
    <2>3. Heard(p)
      <3>1. Keeping(subscribers, Async)[0] = <<>> /\ Len(subscribers) \in Nat
        BY KeepingGrows DEF BusInv
      <3> QED
        BY <3>1 DEF Heard
    <2> HIDE DEF p
    <2> QED
      BY <2>1, <2>2, <2>3 DEF BusInv
  <1>4. CASE Skip \/ CallHandler \/ HandlerEnds
    <2>1. publishing # <<>> /\ subscribers' = subscribers /\ published' = published
      BY <1>4 DEF Skip, CallHandler, HandlerEnds
    <2>2. Top \in Publication /\ Heard(Top)
      BY <2>1, TopIs
    <2> DEFINE c == Top.copy
               n == Top.next
    <2>3. c \in Seq(Handler) /\ Len(c) \in Nat /\ n \in Nat /\ n >= 1 /\ n <= Len(c) + 1
      BY <2>2 DEF Publication, Heard
    <2>4. n <= Len(c) => /\ n \in 1 .. Len(c)
                         /\ c[n] \in Handler
                         /\ Keeping(c, Async)[n] = IF c[n] \in Async THEN Keeping(c, Async)[n - 1]
                                                   ELSE Append(Keeping(c, Async)[n - 1], c[n])
      <3> HIDE DEF c, n
      <3> QED
        BY <2>3, KeepingGrows
    <2>5. CASE Skip
      <3> DEFINE p == [Top EXCEPT !.next = @ + 1]
      <3>1. SetTop(p) /\ ~Top.calling /\ n <= Len(c) /\ c[n] \in Async
        BY <2>5 DEF Skip, Round
      <3>2. p \in Publication
        BY <2>2 DEF Publication
      <3>3. Heard(p)
        BY <2>2, <2>3, <2>4, <3>1 DEF Heard, Publication
      <3> HIDE DEF p
      <3> QED
        BY <2>1, <3>1, <3>2, <3>3, TopMoves
    <2>6. CASE CallHandler
      <3> DEFINE p == [Top EXCEPT !.calling = TRUE, !.heard = Append(@, c[n])]
      <3>1. SetTop(p) /\ ~Top.calling /\ n <= Len(c) /\ c[n] \notin Async
        BY <2>6 DEF CallHandler, Round
      <3>2. p \in Publication
        <4>1. Append(Top.heard, c[n]) \in Seq(Handler)
          BY <2>2, <2>4, <3>1 DEF Publication
        <4> QED
          BY <2>2, <4>1 DEF Publication
      <3>3. Heard(p)
        BY <2>2, <2>3, <2>4, <3>1 DEF Heard, Publication
      <3> HIDE DEF p
      <3> QED
        BY <2>1, <3>1, <3>2, <3>3, TopMoves
    <2>7. CASE HandlerEnds
      <3> DEFINE p == [Top EXCEPT !.calling = FALSE, !.next = @ + 1]
      <3>1. SetTop(p) /\ Top.calling
        BY <2>7 DEF HandlerEnds
      <3>2. p \in Publication
        <4> DEFINE q == [Top EXCEPT !.calling = FALSE]
        <4>1. q \in Publication /\ q.next = n
          BY <2>2 DEF Publication
        <4>2. p = [q EXCEPT !.next = n + 1]
          BY <2>2 DEF Publication
        <4> HIDE DEF q, p
        <4> QED
          BY <2>3, <4>1, <4>2, SMTT(30) DEF Publication
      <3>3. /\ p.next = n + 1 /\ ~p.calling /\ p.copy = c /\ p.heard = Top.heard
            /\ n <= Len(c) /\ Top.heard = Keeping(c, Async)[n]
        BY <2>2, <3>1 DEF Heard, Publication
      <3>4. Heard(p)
        <4> HIDE DEF p, c, n
        <4>1. p.next - 1 = n /\ p.next >= 1 /\ p.next <= Len(c) + 1
          BY <2>3, <3>3
        <4> QED
          BY <3>3, <4>1 DEF Heard
      <3> HIDE DEF p
      <3> QED
        BY <2>1, <3>1, <3>2, <3>4, TopMoves
    <2> QED
      BY <1>4, <2>5, <2>6, <2>7
  <1>5. CASE PublishReturns
    <2>1. publishing # <<>> /\ publishing' = SubSeq(publishing, 1, Len(publishing) - 1)
      BY <1>5 DEF PublishReturns
    <2>2. publishing \in Seq(Publication) /\ Len(publishing) \in Nat /\ Len(publishing) > 0
      BY <2>1 DEF BusInv
    <2>3. /\ publishing' \in Seq(Publication) /\ Len(publishing') = Len(publishing) - 1
          /\ \A i \in 1 .. Len(publishing) - 1 : publishing'[i] = publishing[i]
      <3> DEFINE l == Len(publishing) - 1
      <3>1. l \in 0 .. Len(publishing) /\ 1 \in 1 .. Len(publishing) + 1
        BY <2>2
      <3>2. publishing' = SubSeq(publishing, 1, l)
        BY <2>1
      <3>3. \A i \in 1 .. l : 1 <= i /\ i <= l /\ publishing[i] \in Publication
        BY <2>2, <3>1
      <3> HIDE DEF l
      <3>4. /\ SubSeq(publishing, 1, l) = [i \in 1 .. l |-> publishing[i]]
        BY <2>2, <3>1, SubSeqProperties
      <3>5. SubSeq(publishing, 1, l) \in Seq(Publication) /\ Len(SubSeq(publishing, 1, l)) = l
        BY <2>2, <3>1, SubSeqProperties
      <3> QED
        BY <3>2, <3>4, <3>5 DEF l
    <2> QED
      BY <1>5, <2>2, <2>3 DEF PublishReturns, BusInv
  <1>6. CASE ClearHistory \/ UNCHANGED busVars
    BY <1>6 DEF ClearHistory, busVars, BusInv
  <1> QED
    BY <1>1, <1>2, <1>3, <1>4, <1>5, <1>6 DEF BusNext

(* A publication is heard by all its subscribers, in their order and by    *)
(* nobody else, however they use the bus meanwhile.                        *)
THEOREM PublicationsAreHeard == BusSpec => EveryoneHears
<1>1. BusInit => BusInv
  BY DEF BusInit, BusInv
<1>2. BusInv /\ [BusNext]_busVars =>
        [Len(publishing') < Len(publishing) => Top.heard = Outside(Top.copy, Async)]_busVars
  <2> SUFFICES ASSUME BusInv, BusNext, Len(publishing') < Len(publishing)
               PROVE  Top.heard = Outside(Top.copy, Async)
    BY DEF busVars
  <2>1. CASE PublishReturns
    <3>1. Top \in Publication /\ Heard(Top)
      BY <2>1, TopIs DEF PublishReturns
    <3>2. ~Top.calling /\ Top.next > Len(Top.copy)
      BY <2>1 DEF PublishReturns, Round
    <3>3. Len(Top.copy) \in Nat /\ Top.next \in Nat
      BY <3>1 DEF Publication
    <3>4. Top.next - 1 = Len(Top.copy)
      BY <3>1, <3>2, <3>3 DEF Heard
    <3> QED
      BY <3>1, <3>2, <3>4 DEF Heard, Outside
  <2>2. publishing \in Seq(Publication) /\ Len(publishing) \in Nat
    BY DEF BusInv
  <2>3. CASE Publish
    BY <2>2, <2>3 DEF Publish, BusInv, Publication
  <2>4. CASE Skip \/ CallHandler \/ HandlerEnds
    BY <2>2, <2>4 DEF Skip, CallHandler, HandlerEnds, SetTop
  <2>5. CASE ClearHistory
    BY <2>5 DEF ClearHistory
  <2>6. CASE \E h \in Handler : Subscribe(h) \/ Unsubscribe(h)
    BY <2>6 DEF Subscribe, Unsubscribe
  <2> QED
    BY <2>1, <2>2, <2>3, <2>4, <2>5, <2>6 DEF BusNext
<1> QED
  BY <1>1, <1>2, BusStep, PTL DEF BusSpec, EveryoneHears

-----------------------------------------------------------------------------
Failure == [task : DTask, no : Nat]

(* The queue, and that no push has a number yet to come.                   *)
QueueInv ==
  /\ entries \in Seq(Failure)
  /\ pushed \in Nat
  /\ latest \in [DTask -> 0 .. pushed]
  /\ OneEntryPerTask

(* A list that holds the last push of each of its tasks, in their order.   *)
OfTheQueue(list, last) ==
  /\ \A i \in DOMAIN list : list[i].no = last[list[i].task]
  /\ \A i, j \in DOMAIN list : i < j => list[i].no < list[j].no

(* Taking the entries of a task out of the queue keeps the others.         *)
LEMMA WithoutKeeps ==
  ASSUME QueueInv, NEW t \in DTask
  PROVE  /\ Without(entries, t) \in Seq(Failure)
         /\ Len(Without(entries, t)) <= MaxEntries
         /\ OfTheQueue(Without(entries, t), latest)
         /\ \A i \in DOMAIN Without(entries, t) : Without(entries, t)[i].task # t
  <1> DEFINE S == {entries[i] : i \in {i \in DOMAIN entries : entries[i].task = t}}
             k == Outside(entries, S)
  <1>1. Without(entries, t) = k
    BY DEF Without
  <1>2. entries \in Seq(Failure) /\ DOMAIN entries = 1 .. Len(entries)
    BY DEF QueueInv
  <1>3. \A i \in DOMAIN entries : entries[i] \notin S => entries[i].task # t
    OBVIOUS
  <1> HIDE DEF S
  <1>4. k \in Seq(Failure) /\ Len(k) <= Len(entries) /\ \E g : KeptAt(k, entries, Len(entries), S, g)
    BY <1>2, OutsideKeepsOrder
  <1> HIDE DEF k
  <1>5. PICK g : KeptAt(k, entries, Len(entries), S, g)
    BY <1>4
  <1>6. DOMAIN k = 1 .. Len(k) /\ Len(k) \in Nat /\ Len(entries) \in Nat
    BY <1>2, <1>4
  <1>7. \A i \in DOMAIN k : g[i] \in DOMAIN entries /\ k[i] = entries[g[i]] /\ k[i].task # t
    BY <1>2, <1>3, <1>5, <1>6 DEF KeptAt
  <1>8. \A i, j \in DOMAIN k : i < j => g[i] < g[j]
    BY <1>5, <1>6 DEF KeptAt
  <1>9. OfTheQueue(entries, latest) /\ Len(entries) <= MaxEntries
    BY DEF QueueInv, OneEntryPerTask, OfTheQueue
  <1>10. OfTheQueue(k, latest)
    BY <1>7, <1>8, <1>9 DEF OfTheQueue
  <1>11. Len(k) <= MaxEntries
    BY <1>4, <1>6, <1>9, QueueAssumption
  <1> QED
    BY <1>1, <1>4, <1>7, <1>10, <1>11

LEMMA QueueInitInv == QueueInit => QueueInv
  BY QueueAssumption DEF QueueInit, QueueInv, OneEntryPerTask

LEMMA QueueStep == QueueInv /\ [QueueNext]_dlqVars => QueueInv'
  <1> SUFFICES ASSUME QueueInv, [QueueNext]_dlqVars PROVE QueueInv'
    OBVIOUS
  <1>1. ASSUME NEW t \in DTask, PushFailed(t) PROVE QueueInv'
    <2> DEFINE k == Without(entries, t)
               e == [task |-> t, no |-> pushed + 1]
               q == Append(k, e)
    <2>1. /\ entries' = Trimmed(q) /\ pushed' = pushed + 1
          /\ latest' = [latest EXCEPT ![t] = pushed + 1]
      BY <1>1 DEF PushFailed, DLQEntry
    <2>2. /\ k \in Seq(Failure) /\ Len(k) <= MaxEntries /\ OfTheQueue(k, latest)
          /\ \A i \in DOMAIN k : k[i].task # t
      BY WithoutKeeps
    <2>3. pushed \in Nat /\ latest \in [DTask -> 0 .. pushed]
      BY DEF QueueInv
    <2>4. latest' \in [DTask -> 0 .. pushed'] /\ pushed' \in Nat
      BY <2>1, <2>3
    <2>5. e \in Failure /\ e.no = latest'[t] /\ e.task = t /\ e.no = pushed + 1
      BY <2>1, <2>3 DEF Failure
    <2> HIDE DEF k, e
    <2>6. /\ q \in Seq(Failure) /\ Len(q) = Len(k) + 1 /\ Len(k) \in Nat
          /\ DOMAIN k = 1 .. Len(k) /\ DOMAIN q = 1 .. Len(q)
          /\ q[Len(k) + 1] = e
          /\ \A i \in 1 .. Len(k) : q[i] = k[i]
      BY <2>2, <2>5
    <2> HIDE DEF q
    <2>7. \A i \in 1 .. Len(k) : /\ q[i].task \in DTask /\ q[i].task # t
                                 /\ q[i].no = latest[q[i].task] /\ q[i].no \in 0 .. pushed
      <3>1. \A i \in 1 .. Len(k) : k[i] \in Failure
        BY <2>2, <2>6
      <3>2. \A i \in 1 .. Len(k) : k[i].task \in DTask /\ k[i].task # t /\ k[i].no = latest[k[i].task]
        BY <2>2, <2>6, <3>1 DEF OfTheQueue, Failure
      <3>3. \A i \in 1 .. Len(k) : latest[k[i].task] \in 0 .. pushed
        BY <2>3, <3>2
      <3> QED
        BY <2>6, <3>2, <3>3
    <2>8. \A i \in DOMAIN q : q[i].no = latest'[q[i].task]
      <3>1. \A i \in 1 .. Len(k) : q[i].no = latest'[q[i].task]
        BY <2>1, <2>3, <2>7
      <3>2. q[Len(k) + 1].no = latest'[q[Len(k) + 1].task]
        BY <2>5, <2>6
      <3>3. \A i \in DOMAIN q : i \in 1 .. Len(k) \/ i = Len(k) + 1
        BY <2>6
      <3> QED
        BY <3>1, <3>2, <3>3
    <2>9. \A i, j \in DOMAIN q : i < j => q[i].no < q[j].no
      <3>1. \A i, j \in 1 .. Len(k) : i < j => q[i].no < q[j].no
        BY <2>2, <2>6 DEF OfTheQueue
      <3>2. \A i \in 1 .. Len(k) : q[i].no < e.no
        BY <2>3, <2>5, <2>7
      <3> QED
        BY <2>6, <3>1, <3>2
    <2>10. CASE Len(q) > MaxEntries
      <3>1. /\ entries' = Tail(q) /\ Tail(q) \in Seq(Failure) /\ Len(Tail(q)) = Len(k)
            /\ \A i \in 1 .. Len(k) : Tail(q)[i] = q[i + 1]
            /\ DOMAIN Tail(q) = 1 .. Len(k)
        BY <2>1, <2>6, <2>10 DEF Trimmed
      <3>2. \A i \in 1 .. Len(k) : i + 1 \in DOMAIN q
        BY <2>6
      <3>3. OneEntryPerTask'
        BY <2>2, <2>6, <2>8, <2>9, <3>1, <3>2 DEF OneEntryPerTask
      <3> QED
        BY <2>4, <3>1, <3>3 DEF QueueInv
    <2>11. CASE Len(q) <= MaxEntries
      <3>1. entries' = q
        BY <2>1, <2>6, <2>11, QueueAssumption DEF Trimmed
      <3> QED
        BY <2>4, <2>6, <2>8, <2>9, <2>11, <3>1 DEF QueueInv, OneEntryPerTask
    <2> QED
      BY <2>6, <2>10, <2>11, QueueAssumption
  <1>2. ASSUME NEW t \in DTask, PopFailed(t) PROVE QueueInv'
    <2>1. entries' = Without(entries, t) /\ latest' = latest /\ pushed' = pushed
      BY <1>2 DEF PopFailed
    <2> QED
      BY <2>1, WithoutKeeps DEF QueueInv, OneEntryPerTask, OfTheQueue
  <1>3. CASE ClearQueue
    BY <1>3, QueueAssumption DEF ClearQueue, QueueInv, OneEntryPerTask
  <1>4. CASE AlertEnds \/ PushReturns \/ RegisterAlert \/ UNCHANGED dlqVars
    BY <1>4 DEF AlertEnds, PushReturns, RegisterAlert, dlqVars, QueueInv, OneEntryPerTask
  <1> QED
    BY <1>1, <1>2, <1>3, <1>4 DEF QueueNext

(* Whatever the alerts do to it, the queue keeps the last failure of each  *)
(* task it holds, in the order of the failures, within its limit.          *)
THEOREM LastFailuresAreKept == QueueSpec => []OneEntryPerTask
<1>1. QueueInv => OneEntryPerTask
  BY DEF QueueInv
<1> QED
  BY <1>1, QueueInitInv, QueueStep, PTL DEF QueueSpec

-----------------------------------------------------------------------------
(* Of finitely many scores a highest one comes first.                      *)
LEMMA FirstBestExists ==
  ASSUME NEW n \in Nat, n > 0, NEW f, \A i \in 1 .. n : f[i] \in Int
  PROVE  \E i \in 1 .. n : \A j \in 1 .. n : f[j] <= f[i] /\ (f[j] = f[i] => i <= j)
  <1> DEFINE Best(i, m) == \A j \in 1 .. m : f[j] <= f[i] /\ (f[j] = f[i] => i <= j)
             Good == {m \in 0 .. n - 1 : \E i \in 1 .. m + 1 : Best(i, m + 1)}
  <1>1. 0 \in Good
    BY SMT
  <1>2. ASSUME NEW m \in 0 .. n - 1, m < n - 1, m \in Good PROVE m + 1 \in Good
    <2>1. PICK i \in 1 .. m + 1 : Best(i, m + 1)
      BY <1>2
    <2>2. m + 1 \in 0 .. n - 1 /\ m + 2 \in 1 .. n /\ f[m + 2] \in Int /\ f[i] \in Int /\ i \in 1 .. (m + 1) + 1
      BY <1>2
    <2>3. CASE f[m + 2] <= f[i]
      <3>1. Best(i, (m + 1) + 1)
        BY <2>1, <2>2, <2>3
      <3> QED
        BY <2>2, <3>1
    <2>4. CASE f[m + 2] > f[i]
      <3>1. Best(m + 2, (m + 1) + 1)
        BY <1>2, <2>1, <2>2, <2>4
      <3>2. m + 2 \in 1 .. (m + 1) + 1
        BY <2>2
      <3> QED
        BY <2>2, <3>1, <3>2
    <2> QED
      BY <2>2, <2>3, <2>4
  <1>3. n - 1 \in Good
    <2> HIDE DEF Good
    <2>1. n - 1 \in Nat /\ n - 1 \in 0 .. n - 1
      OBVIOUS
    <2>2. \A m \in 0 .. n - 1 : m \in Good
      BY <1>1, <1>2, <2>1, CountsUp
    <2> QED
      BY <2>1, <2>2
  <1> QED
    BY <1>3

AccountsOK == account \in [Account -> [drop : Nat, failures : Nat, latency : Nat, samples : Nat]]

LEMMA ScoresAreNumbers ==
  ASSUME AccountsOK, NEW a \in Account, NEW c \in Nat
  PROVE  ScoreAccount(a, c) \in Nat
  <1>1. /\ account[a].drop \in Nat /\ account[a].failures \in Nat /\ account[a].latency \in Nat
        /\ account[a].samples \in Nat /\ Capability[a] \in Nat /\ ContextLimit[a] \in Nat
    BY RoutingAssumption DEF AccountsOK
  <1>2. AverageLatency(a) \in Nat
    <2>1. CASE account[a].samples = 0
      BY <2>1 DEF AverageLatency
    <2>2. CASE account[a].samples # 0
      <3>1. account[a].latency \div account[a].samples \in Nat
        BY <1>1, <2>2
      <3> QED
        BY <2>2, <3>1 DEF AverageLatency
    <2> QED
      BY <2>1, <2>2
  <1>3. Penalty(a) \in Nat
    BY <1>1, <1>2 DEF Penalty, Least
  <1>4. Most(0, Capability[a] - Penalty(a)) \in Nat
    BY <1>1, <1>3 DEF Most
  <1> QED
    BY <1>1, <1>4 DEF ScoreAccount

(* select_account returns an account of the list no other scores above.    *)
LEMMA SelectedIsBest ==
  ASSUME AccountsOK, NEW seq \in Seq(Account), Len(seq) > 0, NEW c \in Nat
  PROVE  /\ \E i \in 1 .. Len(seq) : SelectAccount(seq, c) = seq[i]
         /\ \A i \in 1 .. Len(seq) : ScoreAccount(seq[i], c) <= ScoreAccount(SelectAccount(seq, c), c)
  <1> DEFINE f == [i \in 1 .. Len(seq) |-> ScoreAccount(seq[i], c)]
             best == {i \in DOMAIN seq : \A j \in DOMAIN seq : ScoreAccount(seq[j], c) <= ScoreAccount(seq[i], c)}
             Head1(i) == i \in best /\ \A j \in best : i <= j
  <1>1. Len(seq) \in Nat /\ DOMAIN seq = 1 .. Len(seq) /\ \A i \in 1 .. Len(seq) : seq[i] \in Account
    OBVIOUS
  <1>2. \A i \in 1 .. Len(seq) : f[i] = ScoreAccount(seq[i], c) /\ f[i] \in Nat
    BY <1>1, ScoresAreNumbers
  <1>3. PICK i \in 1 .. Len(seq) : \A j \in 1 .. Len(seq) : f[j] <= f[i] /\ (f[j] = f[i] => i <= j)
    <2> HIDE DEF f
    <2>1. \A i \in 1 .. Len(seq) : f[i] \in Int
      BY <1>2
    <2> QED
      BY <1>1, <2>1, FirstBestExists
  <1>4. i \in best
    <2> HIDE DEF f
    <2> QED
      BY <1>1, <1>2, <1>3
  <1>5. \A j \in best : i <= j
    <2> TAKE j \in best
    <2>1. j \in 1 .. Len(seq) /\ ScoreAccount(seq[i], c) <= ScoreAccount(seq[j], c)
      BY <1>1
    <2> HIDE DEF f
    <2>2. f[i] \in Nat /\ f[j] \in Nat /\ f[i] <= f[j] /\ f[j] <= f[i]
      BY <1>2, <1>3, <2>1
    <2> QED
      BY <1>3, <2>1, <2>2
  <1> DEFINE k == CHOOSE x \in best : \A j \in best : x <= j
  <1>6. k \in best
    <2> HIDE DEF best
    <2> QED
      BY <1>4, <1>5
  <1>7. SelectAccount(seq, c) = seq[k]
    BY DEF SelectAccount
  <1> HIDE DEF k
  <1> QED
    BY <1>1, <1>6, <1>7

(* The accounts of a provider, as select_provider is given them.           *)
LEMMA OfIs ==
  ASSUME NEW p
  PROVE  /\ Of(p) \in Seq(Account)
         /\ \A a \in Account : ProviderOf[a] = p => \E i \in 1 .. Len(Of(p)) : Of(p)[i] = a
  <1> DEFINE S == {a \in Account : ProviderOf[a] # p}
             k == Outside(Accounts, S)
  <1>1. Of(p) = k
    BY DEF Of
  <1>2. Accounts \in Seq(Account) /\ Len(Accounts) \in Nat
    BY RoutingAssumption
  <1>3. \A a \in Account : ProviderOf[a] = p => a \notin S
    OBVIOUS
  <1> HIDE DEF S
  <1>4. k \in Seq(Account) /\ \E g : KeptAt(k, Accounts, Len(Accounts), S, g)
    BY <1>2, OutsideKeepsOrder
  <1> HIDE DEF k
  <1>5. PICK g : KeptAt(k, Accounts, Len(Accounts), S, g)
    BY <1>4
  <1>6. ASSUME NEW a \in Account, ProviderOf[a] = p PROVE \E i \in 1 .. Len(k) : k[i] = a
    <2>1. PICK j \in 1 .. Len(Accounts) : Accounts[j] = a
      BY <1>2 DEF Account
    <2>2. Accounts[j] \notin S
      BY <1>3, <1>6, <2>1
    <2> QED
      BY <1>5, <2>1, <2>2 DEF KeptAt
  <1> QED
    BY <1>1, <1>4, <1>6

(* No account scores above it.                                             *)
Tops(best, need) ==
  best \in Account /\ \A a \in Account : ScoreAccount(a, need) <= ScoreAccount(best, need)

LEMMA ListIsRouted ==
  ASSUME AccountsOK, Accounts # <<>>, NEW c \in Nat
  PROVE  Tops(SelectAccount(Accounts, c), c)
  <1>1. Accounts \in Seq(Account) /\ Len(Accounts) > 0
    BY RoutingAssumption
  <1>2. /\ \E i \in 1 .. Len(Accounts) : SelectAccount(Accounts, c) = Accounts[i]
        /\ \A i \in 1 .. Len(Accounts) : ScoreAccount(Accounts[i], c) <= ScoreAccount(SelectAccount(Accounts, c), c)
    BY <1>1, SelectedIsBest
  <1>3. SelectAccount(Accounts, c) \in Account
    BY <1>1, <1>2
  <1>4. \A a \in Account : \E i \in 1 .. Len(Accounts) : a = Accounts[i]
    BY <1>1 DEF Account
  <1> QED
    BY <1>2, <1>3, <1>4 DEF Tops

(* The walk of select_provider, whose recursion is well founded, ends at   *)
(* one of the providers' best accounts that no other scores above.         *)
LEMMA WalkEndsAtTheBest ==
  ASSUME NEW c, NEW providers, NEW n \in Nat, n > 0, Len(providers) = n,
         \A i \in 1 .. n : BestOf(providers[i], c).score \in Nat
  PROVE  \E k \in 1 .. n :
           /\ SelectProvider(providers, c) = BestOf(providers[k], c).account
           /\ \A j \in 1 .. n : BestOf(providers[j], c).score <= BestOf(providers[k], c).score
  <1> DEFINE B(i) == BestOf(providers[i], c)
             Walk(f, m) == f = [i \in 1 .. m |-> IF i = 1 \/ B(i).score > f[i - 1].score
                                                THEN B(i) ELSE f[i - 1]]
             Solved == {m \in 0 .. n - 1 : \E f : Walk(f, m + 1)}
  <1>0. \A i \in 1 .. n : B(i).score \in Nat
    OBVIOUS
  <1>w. SelectProvider(providers, c) = (CHOOSE f : Walk(f, n))[n].account
    BY DEF SelectProvider
  <1> HIDE DEF B
  <1>1. 0 \in Solved
    <2>1. Walk([i \in 1 .. 1 |-> B(i)], 0 + 1)
      OBVIOUS
    <2> HIDE DEF Walk
    <2> QED
      BY <2>1
  <1>2. ASSUME NEW m \in 0 .. n - 1, m < n - 1, m \in Solved PROVE m + 1 \in Solved
    <2>1. PICK f : Walk(f, m + 1)
      BY <1>2
    <2> DEFINE e == IF B(m + 2).score > f[m + 1].score THEN B(m + 2) ELSE f[m + 1]
               g == [i \in 1 .. m + 2 |-> IF i = m + 2 THEN e ELSE f[i]]
    <2>2. ASSUME NEW i \in 1 .. m + 2
          PROVE  g[i] = IF i = 1 \/ B(i).score > g[i - 1].score THEN B(i) ELSE g[i - 1]
      <3> HIDE DEF e
      <3>1. CASE i = m + 2
        <4>1. i # 1 /\ i - 1 = m + 1 /\ m + 1 \in 1 .. m + 2 /\ m + 1 # m + 2
          BY <3>1
        <4>2. g[i] = e /\ g[i - 1] = f[m + 1]
          BY <3>1, <4>1
        <4>3. e = IF B(i).score > f[m + 1].score THEN B(i) ELSE f[m + 1]
          BY <3>1 DEF e
        <4> HIDE DEF g
        <4> QED
          BY <4>1, <4>2, <4>3
      <3>2. CASE i # m + 2 /\ i # 1
        <4>1. i \in 1 .. m + 1 /\ i - 1 \in 1 .. m + 2 /\ i - 1 # m + 2
          BY <3>2
        <4>2. g[i] = f[i] /\ g[i - 1] = f[i - 1]
          BY <3>2, <4>1
        <4>3. f[i] = IF B(i).score > f[i - 1].score THEN B(i) ELSE f[i - 1]
          BY <2>1, <3>2, <4>1
        <4> HIDE DEF g
        <4> QED
          BY <3>2, <4>2, <4>3
      <3>3. CASE i = 1
        <4>1. 1 \in 1 .. m + 1 /\ 1 # m + 2
          BY <1>2
        <4>2. g[i] = f[1]
          BY <3>3, <4>1
        <4>3. f[1] = B(1)
          BY <2>1, <4>1
        <4> HIDE DEF g
        <4> QED
          BY <3>3, <4>2, <4>3
      <3> QED
        BY <3>1, <3>2, <3>3
    <2>3. Walk(g, m + 2)
      <3> HIDE DEF e
      <3> QED
        BY <2>2
    <2>4. m + 1 \in 0 .. n - 1 /\ (m + 1) + 1 = m + 2
      BY <1>2
    <2> HIDE DEF Walk, g
    <2>5. \E h : Walk(h, m + 2)
      BY <2>3, Zenon
    <2> QED
      BY <2>4, <2>5
  <1>3. PICK f : Walk(f, n)
    <2>1. n - 1 \in Nat /\ n - 1 \in 0 .. n - 1 /\ (n - 1) + 1 = n
      OBVIOUS
    <2> HIDE DEF Solved
    <2>2. \A m \in 0 .. n - 1 : m \in Solved
      BY <1>1, <1>2, <2>1, CountsUp
    <2>3. n - 1 \in Solved
      BY <2>1, <2>2
    <2> HIDE DEF Walk
    <2> QED
      BY <2>1, <2>3 DEF Solved
  <1> DEFINE w == CHOOSE h : Walk(h, n)
  <1>4. Walk(w, n)
    <2> HIDE DEF Walk
    <2> QED
      BY <1>3
  <1> HIDE DEF w
  <1> DEFINE Best(m) == \E k \in 1 .. m + 1 :
                          w[m + 1] = B(k) /\ \A j \in 1 .. m + 1 : B(j).score <= B(k).score
             Good == {m \in 0 .. n - 1 : Best(m)}
  <1>5. 0 \in Good
    <2>1. w[1] = B(1)
      BY <1>4
    <2>2. \A j \in 1 .. 0 + 1 : j = 1 /\ B(1).score \in Nat
      BY <1>0
    <2> HIDE DEF Walk
    <2>3. Best(0)
      <3>1. 1 \in 1 .. 0 + 1 /\ w[0 + 1] = B(1)
        BY <2>1
      <3>2. \A j \in 1 .. 0 + 1 : B(j).score <= B(1).score
        BY <2>2
      <3> QED
        BY <3>1, <3>2
    <2> QED
      BY <2>3
  <1>6. ASSUME NEW m \in 0 .. n - 1, m < n - 1, m \in Good PROVE m + 1 \in Good
    <2>1. PICK k \in 1 .. m + 1 : w[m + 1] = B(k) /\ \A j \in 1 .. m + 1 : B(j).score <= B(k).score
      BY <1>6
    <2>2. /\ m + 2 \in 1 .. n /\ m + 2 # 1 /\ (m + 2) - 1 = m + 1 /\ (m + 1) + 1 = m + 2
          /\ m + 1 \in 0 .. n - 1 /\ k \in 1 .. n /\ k \in 1 .. m + 2 /\ m + 2 \in 1 .. m + 2
      BY <1>6
    <2>3. w[m + 2] = IF B(m + 2).score > w[m + 1].score THEN B(m + 2) ELSE w[m + 1]
      BY <1>4, <2>2
    <2> HIDE DEF Walk
    <2>4. B(m + 2).score \in Nat /\ B(k).score \in Nat /\ \A j \in 1 .. m + 1 : B(j).score \in Nat
      <3>1. \A j \in 1 .. m + 1 : j \in 1 .. n
        BY <1>6
      <3> QED
        BY <1>0, <2>2, <3>1
    <2>5. \A j \in 1 .. m + 2 : j \in 1 .. m + 1 \/ j = m + 2
      OBVIOUS
    <2>6. CASE B(m + 2).score > B(k).score
      <3>1. w[m + 2] = B(m + 2)
        BY <2>1, <2>3, <2>6
      <3>2. ASSUME NEW j \in 1 .. m + 2 PROVE B(j).score <= B(m + 2).score
        <4>1. CASE j \in 1 .. m + 1
          BY <2>1, <2>4, <2>6, <4>1
        <4>2. CASE j = m + 2
          BY <2>4, <4>2
        <4> QED
          BY <2>5, <4>1, <4>2
      <3>3. Best(m + 1)
        BY <2>2, <3>1, <3>2
      <3> QED
        BY <2>2, <3>3
    <2>7. CASE ~(B(m + 2).score > B(k).score)
      <3>1. w[m + 2] = B(k)
        BY <2>1, <2>3, <2>7
      <3>2. \A j \in 1 .. m + 2 : B(j).score <= B(k).score
        BY <2>1, <2>4, <2>5, <2>7
      <3>3. Best(m + 1)
        BY <2>2, <3>1, <3>2
      <3> QED
        BY <2>2, <3>3
    <2> QED
      BY <2>6, <2>7
  <1>7. Best(n - 1)
    <2>1. n - 1 \in Nat /\ n - 1 \in 0 .. n - 1
      OBVIOUS
    <2> HIDE DEF Good
    <2>2. \A m \in 0 .. n - 1 : m \in Good
      BY <1>5, <1>6, <2>1, CountsUp
    <2>3. n - 1 \in Good
      BY <2>1, <2>2
    <2> QED
      BY <2>3 DEF Good
  <1>8. (n - 1) + 1 = n
    OBVIOUS
  <1>9. PICK k \in 1 .. n : w[n] = B(k) /\ \A j \in 1 .. n : B(j).score <= B(k).score
    BY <1>7, <1>8
  <1>10. SelectProvider(providers, c) = B(k).account
    BY <1>9, <1>w DEF w
  <1> QED
    BY <1>9, <1>10 DEF B

LEMMA PoolIsRouted ==
  ASSUME AccountsOK, Accounts # <<>>, NEW c \in Nat, NEW providers \in Orders
  PROVE  Tops(SelectProvider(providers, c), c)
  <1> DEFINE n == Cardinality(Providers)
  <1>1. n \in Nat /\ n > 0 /\ providers \in [1 .. n -> Providers]
        /\ \A p \in Providers : \E i \in 1 .. n : providers[i] = p
    <2>1. IsFiniteSet(1 .. Len(Accounts)) /\ DOMAIN Accounts = 1 .. Len(Accounts) /\ Len(Accounts) > 0
      BY RoutingAssumption, FS_Interval
    <2>2. IsFiniteSet(Account)
      <3>1. Accounts \in Surjection(1 .. Len(Accounts), Account)
        BY <2>1, RoutingAssumption DEF Account, Surjection
      <3> QED
        BY <2>1, <3>1, FS_Surjection
    <2>3. IsFiniteSet(Providers)
      <3>1. [a \in Account |-> ProviderOf[a]] \in Surjection(Account, Providers)
        BY DEF Providers, Surjection
      <3> QED
        BY <2>2, <3>1, FS_Surjection
    <2>4. Accounts[1] \in Account
      BY <2>1, RoutingAssumption
    <2>5. ProviderOf[Accounts[1]] \in Providers
      BY <2>4 DEF Providers
    <2>6. n \in Nat /\ n # 0
      BY <2>3, <2>5, FS_CardinalityType, FS_EmptySet
    <2>7. providers \in [1 .. n -> Providers] /\ \A p \in Providers : \E i \in DOMAIN providers : providers[i] = p
      BY DEF Orders
    <2> HIDE DEF n
    <2> QED
      BY <2>6, <2>7
  <1> HIDE DEF n
  <1>2. Len(providers) = n
    BY <1>1
  <1>3. ASSUME NEW i \in 1 .. n
        PROVE  /\ BestOf(providers[i], c).account \in Account
               /\ BestOf(providers[i], c).score = ScoreAccount(BestOf(providers[i], c).account, c)
               /\ \A a \in Account : ProviderOf[a] = providers[i]
                                       => ScoreAccount(a, c) <= BestOf(providers[i], c).score
    <2> DEFINE q == Of(providers[i])
    <2>1. q \in Seq(Account) /\ \A a \in Account : ProviderOf[a] = providers[i] => \E k \in 1 .. Len(q) : q[k] = a
      BY OfIs
    <2>2. PICK b \in Account : ProviderOf[b] = providers[i]
      BY <1>1 DEF Providers
    <2>b. BestOf(providers[i], c) = [account |-> SelectAccount(q, c), score |-> ScoreAccount(SelectAccount(q, c), c)]
      BY DEF BestOf
    <2> HIDE DEF q
    <2>3. Len(q) > 0
      BY <2>1, <2>2
    <2>4. /\ \E k \in 1 .. Len(q) : SelectAccount(q, c) = q[k]
          /\ \A k \in 1 .. Len(q) : ScoreAccount(q[k], c) <= ScoreAccount(SelectAccount(q, c), c)
      BY <2>1, <2>3, SelectedIsBest
    <2>5. SelectAccount(q, c) \in Account
      BY <2>1, <2>4
    <2> QED
      BY <2>1, <2>4, <2>5, <2>b
  <1>4. \A i \in 1 .. n : BestOf(providers[i], c).score \in Nat
    BY <1>3, ScoresAreNumbers
  <1>5. PICK k \in 1 .. n :
           /\ SelectProvider(providers, c) = BestOf(providers[k], c).account
           /\ \A j \in 1 .. n : BestOf(providers[j], c).score <= BestOf(providers[k], c).score
    BY <1>1, <1>2, <1>4, WalkEndsAtTheBest
  <1>6. ASSUME NEW a \in Account
        PROVE  ScoreAccount(a, c) <= BestOf(providers[k], c).score
    <2>1. PICK i \in 1 .. n : providers[i] = ProviderOf[a]
      BY <1>1 DEF Providers
    <2>2. ScoreAccount(a, c) <= BestOf(providers[i], c).score /\ BestOf(providers[i], c).score <= BestOf(providers[k], c).score
      BY <1>3, <1>5, <2>1
    <2>3. ScoreAccount(a, c) \in Nat /\ BestOf(providers[i], c).score \in Nat /\ BestOf(providers[k], c).score \in Nat
      BY <1>4, ScoresAreNumbers
    <2> QED
      BY <2>2, <2>3
  <1> QED
    BY <1>3, <1>5, <1>6 DEF Tops

LEMMA AccountsStep == AccountsOK /\ [RoutingNext]_routingVars => AccountsOK'
  <1> SUFFICES ASSUME AccountsOK, [RoutingNext]_routingVars PROVE AccountsOK'
    OBVIOUS
  <1>1. ASSUME NEW a \in Account, NEW drop \in Nat, NEW n \in Nat, NEW ms \in Latency, Recorded(a, drop, n, ms)
        PROVE  AccountsOK'
    <2>1. account[a].latency + ms \in Nat /\ account[a].samples + (IF ms > 0 THEN 1 ELSE 0) \in Nat
      BY RoutingAssumption DEF AccountsOK
    <2> QED
      BY <1>1, <2>1 DEF Recorded, AccountsOK
  <1>2. ASSUME NEW a \in Account, NEW ms \in Latency, RecordSuccess(a, ms) \/ RecordFailure(a, ms)
        PROVE  AccountsOK'
    <2>1. account[a].drop \in Nat /\ account[a].failures \in Nat
      BY DEF AccountsOK
    <2>2. Most(0, account[a].drop - 50) \in Nat /\ Least(1000, account[a].drop + 150) \in Nat
          /\ account[a].failures + 1 \in Nat
      BY <2>1 DEF Most, Least
    <2> QED
      BY <1>1, <1>2, <2>2 DEF RecordSuccess, RecordFailure
  <1>3. CASE account' = account
    BY <1>3 DEF AccountsOK
  <1> QED
    BY <1>2, <1>3 DEF RoutingNext, SubmitTask, MemoryChanges, routingVars

(* select_provider, which walks the pool provider by provider, and         *)
(* select_account, which sorts the whole list, end at accounts of one and  *)
(* the same score: for any accounts, outcomes recorded and order of the    *)
(* pool.                                                                   *)
THEOREM RoutersAlwaysAgree == RoutingSpec => []RoutersAgree
<1>1. RoutingInit => AccountsOK
  BY DEF RoutingInit, AccountsOK
<1>2. AccountsOK => RoutersAgree
  <2> SUFFICES ASSUME AccountsOK, Accounts # <<>>, NEW c \in Context, NEW providers \in Orders
               PROVE  ScoreAccount(SelectProvider(providers, c), c) = ScoreAccount(SelectAccount(Accounts, c), c)
    BY DEF RoutersAgree
  <2>1. c \in Nat
    BY RoutingAssumption
  <2>2. Tops(SelectProvider(providers, c), c) /\ Tops(SelectAccount(Accounts, c), c)
    BY <2>1, ListIsRouted, PoolIsRouted
  <2>3. ScoreAccount(SelectProvider(providers, c), c) \in Nat /\ ScoreAccount(SelectAccount(Accounts, c), c) \in Nat
    BY <2>1, <2>2, ScoresAreNumbers DEF Tops
  <2> QED
    BY <2>2, <2>3 DEF Tops
<1> QED
  BY <1>1, <1>2, AccountsStep, PTL DEF RoutingSpec
-----------------------------------------------------------------------------

(* Trimming only drops. *)
LEMMA TrimDrops ==
    ASSUME NEW T, NEW C, NEW before PROVE Trim(T, C, before) \subseteq T
  BY DEF Trim, First

(* What the list of closed responses holds after one was appended. *)
LEMMA NewestHolds ==
    ASSUME NEW s \in Seq(Response), NEW r \in Response
    PROVE  /\ Newest(Append(s, r)) \in Seq(Response)
           /\ Range(Newest(Append(s, r))) \subseteq Range(s) \cup {r}
  <1> DEFINE t == Append(s, r)
  <1>1. t \in Seq(Response) /\ Len(t) = Len(s) + 1
    OBVIOUS
  <1>2. Range(t) \subseteq Range(s) \cup {r}
    BY DEF Range
  <1>3. Tail(t) \in Seq(Response) /\ t # <<>>
    <2>1. Len(t) > 0
      BY <1>1
    <2>2. t # <<>>
      BY <2>1
    <2> HIDE DEF t
    <2> QED
      BY <1>1, <2>2
  <1>4. Range(Tail(t)) \subseteq Range(t)
    <2> HIDE DEF t
    <2> QED
      BY <1>1, <1>3 DEF Range
  <1> QED
    BY <1>1, <1>2, <1>3, <1>4 DEF Newest

(* The queue of fetches, after an append and after a pop. *)
LEMMA QueueHolds ==
    ASSUME NEW s \in Seq(Response)
    PROVE  /\ \A r \in Response :
                 Append(s, r) \in Seq(Response) /\ Range(Append(s, r)) = Range(s) \cup {r}
           /\ s # <<>> => /\ Head(s) \in Response
                          /\ Tail(s) \in Seq(Response)
                          /\ Range(s) \subseteq Range(Tail(s)) \cup {Head(s)}
  <1>1. ASSUME NEW r \in Response
        PROVE  Append(s, r) \in Seq(Response) /\ Range(Append(s, r)) = Range(s) \cup {r}
    <2>1. Append(s, r) \in Seq(Response) /\ Len(Append(s, r)) = Len(s) + 1
      OBVIOUS
    <2>2. Range(Append(s, r)) \subseteq Range(s) \cup {r}
      BY DEF Range
    <2>3. r \in Range(Append(s, r))
      <3>1. Append(s, r)[Len(s) + 1] = r /\ Len(s) + 1 \in DOMAIN Append(s, r)
        OBVIOUS
      <3> QED
        BY <3>1 DEF Range
    <2>4. ASSUME NEW i \in DOMAIN s
          PROVE  s[i] \in Range(Append(s, r))
      <3>1. Append(s, r)[i] = s[i] /\ i \in DOMAIN Append(s, r)
        OBVIOUS
      <3> QED
        BY <3>1 DEF Range
    <2> QED
      BY <2>1, <2>2, <2>3, <2>4 DEF Range
  <1>2. ASSUME s # <<>>
        PROVE  /\ Head(s) \in Response
               /\ Tail(s) \in Seq(Response)
               /\ Range(s) \subseteq Range(Tail(s)) \cup {Head(s)}
    <2>1. Head(s) = s[1] /\ s[1] \in Response /\ Tail(s) \in Seq(Response)
      BY <1>2
    <2>2. ASSUME NEW i \in DOMAIN s, i # 1
          PROVE  s[i] \in Range(Tail(s))
      <3>1. i - 1 \in DOMAIN Tail(s) /\ Tail(s)[i - 1] = s[i]
        BY <1>2, <2>2
      <3> QED
        BY <3>1 DEF Range
    <2> QED
      BY <2>1, <2>2 DEF Range
  <1> QED
    BY <1>1, <1>2

(* What can be read is tracked or closed. *)
LEMMA ReadableIsHeld ==
    Readable \subseteq (tracked \cap withText) \cup Range(closed)
  BY DEF Readable, Range

-----------------------------------------------------------------------------
LEMMA TypeInit == Init => TypeOK
  <1> SUFFICES ASSUME Init PROVE TypeOK
    OBVIOUS
  <1>1. closed \in Seq(Response) /\ pending \in Seq(Response)
    BY DEF Init
  <1> QED
    BY <1>1 DEF Init, TypeOK

LEMMA BeginKeepsTypes ==
    ASSUME TypeOK, NEW r \in Response, NEW c \in BOOLEAN, NEW ended \in BOOLEAN,
           BeginResponse(r, c, ended)
    PROVE  /\ tracked' \in SUBSET Response
           /\ older' \in [Response -> SUBSET Response]
           /\ chat' \in SUBSET Response
           /\ closed' \in Seq(Response)
           /\ sincePrompt' \in SUBSET Response
  <1> USE DEF TypeOK
  <1>1. tracked' \subseteq tracked \cup {r}
    BY TrimDrops DEF BeginResponse
  <1>2. closed' \in Seq(Response)
    BY NewestHolds DEF BeginResponse
  <1> QED
    BY <1>1, <1>2 DEF BeginResponse

LEMMA TypeStep == TypeOK /\ [Next]_vars => TypeOK'
  <1> SUFFICES ASSUME TypeOK, [Next]_vars PROVE TypeOK'
    OBVIOUS
  <1> USE DEF TypeOK, capture, send, hook, extracted
  <1>1. ASSUME NEW r \in Response, OnResponse(r) PROVE TypeOK'
    <2>1. PICK c \in BOOLEAN : BeginResponse(r, c, FALSE)
      BY <1>1 DEF OnResponse
    <2> QED
      BY <1>1, <2>1, BeginKeepsTypes DEF OnResponse
  <1>2. ASSUME NEW r \in Response, OnChunk(r) PROVE TypeOK'
    BY <1>2 DEF OnChunk, AppendChunk
  <1>3. ASSUME NEW r \in Response, OnLoadingFinished(r) PROVE TypeOK'
    BY <1>3, QueueHolds DEF OnLoadingFinished
  <1>4. ASSUME NEW r \in Response, OnLoadingFailed(r) PROVE TypeOK'
    BY <1>4 DEF OnLoadingFailed
  <1>5. ASSUME NEW r \in Response, OnWsFrame(r) PROVE TypeOK'
    <2>1. PICK c \in BOOLEAN, done \in BOOLEAN :
             /\ withText' = IF c THEN withText \cup {r} ELSE withText \ {r}
             /\ BeginResponse(r, c, c /\ done)
      BY <1>5 DEF OnWsFrame
    <2>2. (c /\ done) \in BOOLEAN
      OBVIOUS
    <2> QED
      BY <1>5, <2>1, <2>2, BeginKeepsTypes DEF OnWsFrame
  <1>6. CASE Tick
    BY <1>6 DEF Tick
  <1>7. CASE DrainNext
    BY <1>7, QueueHolds DEF DrainNext
  <1>8. CASE Fetched
    <2>1. fetching \in Response
      BY <1>8 DEF Fetched
    <2>2. closed' \in Seq(Response)
      BY <1>8, <2>1, NewestHolds DEF Fetched, CloseResponse
    <2> QED
      BY <1>8, <2>1, <2>2 DEF Fetched, CloseResponse, AppendChunk
  <1>9. Readable \subseteq Response
    BY ReadableIsHeld DEF Range
  <1>10. CASE TickEnds
    BY <1>9, <1>10 DEF TickEnds, Read
  <1>11. CASE Reset
    BY <1>11 DEF Reset, Clear
  <1>12. CASE Submit
    BY <1>12 DEF Submit
  <1>13. CASE Return
    BY <1>9, <1>13, HookedAssumption DEF Return, Read, AskPage
  <1>14. CASE Fail
    BY <1>14 DEF Fail
  <1>15. CASE Attach
    BY <1>15 DEF Attach, Clear
  <1>16. CASE UNCHANGED vars
    BY <1>16 DEF vars
  <1>17. ASSUME NEW r \in Response, HookReads(r) PROVE TypeOK'
    BY <1>17 DEF HookReads
  <1>18. CASE ClearBodies
    BY <1>18, HookedAssumption DEF ClearBodies
  <1>19. CASE Look
    BY <1>19, HookedAssumption DEF Look, AskPage
  <1> QED
    BY <1>1, <1>2, <1>3, <1>4, <1>5, <1>6, <1>7, <1>8, <1>10, <1>11, <1>12, <1>13, <1>14,
       <1>15, <1>16, <1>17, <1>18, <1>19 DEF Next, Event, Ticking

(* The capture and the send keep their domains.                            *)
THEOREM TypeCorrect == Spec => []TypeOK
  BY TypeInit, TypeStep, PTL DEF Spec

-----------------------------------------------------------------------------
(* Once the prompt is on its way, the buffers hold only what began since.  *)
HeldSincePrompt ==
    /\ phase \in {"typing", "typed", "waiting"} =>
          tracked \cup Range(closed) \subseteq sincePrompt
    /\ answer # None => answer \in sincePrompt
    /\ phase \in {"readying", "typing", "typed"} => answer = None

(* Once its bodies were cleared, the page has bodies, and has bodies to    *)
(* read, only of what began since or was being read then.                  *)
PageSincePrompt ==
    /\ phase \in {"typed", "waiting"} =>
          unread \cup bodies \subseteq sincePrompt \cup overlapping
    /\ fromPage \in Response => fromPage \in sincePrompt \cup overlapping
    /\ phase \in {"readying", "typing", "typed"} => fromPage = None

LEMMA HeldInit == Init => HeldSincePrompt
  BY DEF Init, HeldSincePrompt

LEMMA BeginKeepsHeld ==
    ASSUME TypeOK, HeldSincePrompt, NEW r \in Response, Unused(r),
           NEW c \in BOOLEAN, NEW ended \in BOOLEAN, BeginResponse(r, c, ended),
           phase' = phase, answer' = answer
    PROVE  HeldSincePrompt'
  <1>1. tracked' \subseteq tracked \cup {r}
    BY TrimDrops DEF BeginResponse
  <1>2. Range(closed') \subseteq Range(closed) \cup {r}
    BY NewestHolds DEF BeginResponse, TypeOK
  <1>3. answer # r
    BY DEF Unused
  <1> QED
    BY <1>1, <1>2, <1>3 DEF BeginResponse, HeldSincePrompt

LEMMA HeldStep == TypeOK /\ HeldSincePrompt /\ [Next]_vars => HeldSincePrompt'
  <1> SUFFICES ASSUME TypeOK, HeldSincePrompt, [Next]_vars PROVE HeldSincePrompt'
    OBVIOUS
  <1> USE DEF capture, send, hook, extracted
  <1>1. ASSUME NEW r \in Response, OnResponse(r) PROVE HeldSincePrompt'
    BY <1>1, BeginKeepsHeld DEF OnResponse
  <1>2. ASSUME NEW r \in Response, OnChunk(r) PROVE HeldSincePrompt'
    BY <1>2 DEF OnChunk, HeldSincePrompt
  <1>3. ASSUME NEW r \in Response, OnLoadingFinished(r) PROVE HeldSincePrompt'
    BY <1>3 DEF OnLoadingFinished, HeldSincePrompt
  <1>4. ASSUME NEW r \in Response, OnLoadingFailed(r) PROVE HeldSincePrompt'
    BY <1>4 DEF OnLoadingFailed, HeldSincePrompt
  <1>5. ASSUME NEW r \in Response, OnWsFrame(r) PROVE HeldSincePrompt'
    <2>1. PICK c \in BOOLEAN, done \in BOOLEAN : BeginResponse(r, c, c /\ done)
      BY <1>5 DEF OnWsFrame
    <2>2. (c /\ done) \in BOOLEAN
      OBVIOUS
    <2> QED
      BY <1>5, <2>1, <2>2, BeginKeepsHeld DEF OnWsFrame
  <1>6. CASE Tick
    BY <1>6 DEF Tick, HeldSincePrompt
  <1>7. CASE DrainNext
    BY <1>7 DEF DrainNext, HeldSincePrompt
  <1>8. CASE Fetched
    <2>1. fetching \in Response
      BY <1>8 DEF Fetched, TypeOK
    <2>2. tracked' \cup Range(closed') \subseteq tracked \cup Range(closed)
      BY <1>8, <2>1, NewestHolds DEF Fetched, CloseResponse, TypeOK
    <2> QED
      BY <1>8, <2>2 DEF Fetched, HeldSincePrompt
  <1>9. ASSUME phase = "waiting", Read, sincePrompt' = sincePrompt
        PROVE  answer' # None => answer' \in sincePrompt'
    BY <1>9, ReadableIsHeld DEF Read, HeldSincePrompt
  <1>10. CASE TickEnds
    BY <1>9, <1>10 DEF TickEnds, HeldSincePrompt
  <1>11. CASE Reset
    <2>1. Range(<<>>) = {}
      BY DEF Range
    <2>2. answer = None
      BY <1>11 DEF Reset, HeldSincePrompt
    <2> QED
      BY <1>11, <2>1, <2>2 DEF Reset, Clear, HeldSincePrompt
  <1>12. CASE Submit
    BY <1>12 DEF Submit, HeldSincePrompt
  <1>13. CASE Return
    <2>1. CASE Read
      BY <1>9, <1>13, <2>1 DEF Return, HeldSincePrompt
    <2>2. CASE AskPage
      BY <1>13, <2>2 DEF Return, AskPage, HeldSincePrompt
    <2> QED
      BY <1>13, <2>1, <2>2 DEF Return
  <1>14. CASE Fail
    BY <1>14 DEF Fail, HeldSincePrompt
  <1>15. CASE Attach
    BY <1>15 DEF Attach, HeldSincePrompt
  <1>16. CASE UNCHANGED vars
    BY <1>16 DEF vars, HeldSincePrompt
  <1>17. ASSUME NEW r \in Response, HookReads(r) PROVE HeldSincePrompt'
    BY <1>17 DEF HookReads, HeldSincePrompt
  <1>18. CASE ClearBodies
    BY <1>18 DEF ClearBodies, HeldSincePrompt
  <1>19. CASE Look
    BY <1>19 DEF Look, AskPage, HeldSincePrompt
  <1> QED
    BY <1>1, <1>2, <1>3, <1>4, <1>5, <1>6, <1>7, <1>8, <1>10, <1>11, <1>12, <1>13, <1>14,
       <1>15, <1>16, <1>17, <1>18, <1>19 DEF Next, Event, Ticking

LEMMA PageInit == Init => PageSincePrompt
  BY NoneAssumption DEF Init, PageSincePrompt

LEMMA PageStep == TypeOK /\ PageSincePrompt /\ [Next]_vars => PageSincePrompt'
  <1> SUFFICES ASSUME TypeOK, PageSincePrompt, [Next]_vars PROVE PageSincePrompt'
    OBVIOUS
  <1> USE DEF capture, send, hook, extracted, PageSincePrompt
  <1>1. ASSUME NEW r \in Response, Unused(r), NEW c \in BOOLEAN, NEW ended \in BOOLEAN,
               BeginResponse(r, c, ended), unread' \subseteq unread \cup {r},
               UNCHANGED <<bodies, send>>
        PROVE  PageSincePrompt'
    <2>1. r \notin unread \cup bodies \cup {fromPage}
      BY <1>1 DEF Unused
    <2>2. /\ sincePrompt \ {r} \subseteq sincePrompt'
          /\ phase \in {"typed", "waiting"} => r \in sincePrompt'
      BY <1>1 DEF BeginResponse
    <2> QED
      BY <1>1, <2>1, <2>2
  <1>2. ASSUME NEW r \in Response, OnResponse(r) PROVE PageSincePrompt'
    BY <1>1, <1>2 DEF OnResponse
  <1>3. ASSUME NEW r \in Response, OnWsFrame(r) PROVE PageSincePrompt'
    <2>1. PICK c \in BOOLEAN, done \in BOOLEAN : BeginResponse(r, c, c /\ done)
      BY <1>3 DEF OnWsFrame
    <2>2. (c /\ done) \in BOOLEAN
      OBVIOUS
    <2> QED
      BY <1>1, <1>3, <2>1, <2>2 DEF OnWsFrame
  <1>4. ASSUME NEW r \in Response, OnChunk(r) \/ OnLoadingFinished(r) \/ OnLoadingFailed(r)
        PROVE  PageSincePrompt'
    BY <1>4 DEF OnChunk, OnLoadingFinished, OnLoadingFailed
  <1>5. ASSUME NEW r \in Response, HookReads(r) PROVE PageSincePrompt'
    BY <1>5 DEF HookReads
  <1>6. CASE Tick \/ DrainNext \/ Fetched
    BY <1>6 DEF Tick, DrainNext, Fetched
  <1>7. ASSUME phase = "waiting", Read \/ AskPage, UNCHANGED <<sincePrompt, overlapping>>
        PROVE  fromPage' \in Response => fromPage' \in sincePrompt' \cup overlapping'
    BY <1>7, NoneAssumption DEF Read, AskPage
  <1>8. CASE TickEnds
    BY <1>7, <1>8 DEF TickEnds
  <1>9. CASE Look \/ Return
    BY <1>7, <1>9 DEF Look, Return
  <1>10. CASE Reset
    BY <1>10, NoneAssumption DEF Reset
  <1>11. CASE ClearBodies
    BY <1>11, NoneAssumption DEF ClearBodies
  <1>12. CASE Submit \/ Fail
    BY <1>12 DEF Submit, Fail
  <1>13. CASE Attach
    BY <1>13, NoneAssumption DEF Attach
  <1>14. CASE UNCHANGED vars
    BY <1>14 DEF vars
  <1> QED
    BY <1>2, <1>3, <1>4, <1>5, <1>6, <1>8, <1>9, <1>10, <1>11, <1>12, <1>13, <1>14
    DEF Next, Event, Ticking

(* A captured answer began after the buffers were reset for its prompt,    *)
(* whatever the page loads and whenever its events come (engine.py).       *)
THEOREM AnswersAreFresh == Spec => []AnswersThePrompt
  <1>1. HeldSincePrompt => AnswersThePrompt
    BY ReadableIsHeld DEF HeldSincePrompt, AnswersThePrompt
  <1> QED
    BY <1>1, HeldInit, HeldStep, TypeCorrect, PTL DEF Spec

(* A body that the page gave for the answer is of a response that began    *)
(* since, or that the hook had not read to its end when the bodies were    *)
(* cleared (FETCH_INTERCEPT_SCRIPT, _extract_response_text).               *)
THEOREM PageAnswersAreFresh == Spec => []PageAnswersThePrompt
  <1>1. PageSincePrompt => PageAnswersThePrompt
    BY DEF PageSincePrompt, PageAnswersThePrompt
  <1> QED
    BY <1>1, PageInit, PageStep, TypeCorrect, PTL DEF Spec

-----------------------------------------------------------------------------
LEMMA CloseInit == Init => TrackedWillClose
  BY DEF Init, TrackedWillClose

LEMMA BeginKeepsClose ==
    ASSUME TrackedWillClose, NEW r \in Response, NEW c \in BOOLEAN, NEW ended \in BOOLEAN,
           BeginResponse(r, c, ended)
    PROVE  tracked' \subseteq loading \cup frames \cup Range(pending) \cup {fetching, r}
  BY TrimDrops DEF BeginResponse, TrackedWillClose

LEMMA CloseStep == TypeOK /\ TrackedWillClose /\ [Next]_vars => TrackedWillClose'
  <1> SUFFICES ASSUME TypeOK, TrackedWillClose, [Next]_vars PROVE TrackedWillClose'
    OBVIOUS
  <1> USE DEF capture, send, hook, extracted
  <1>1. ASSUME NEW r \in Response, OnResponse(r) PROVE TrackedWillClose'
    <2>1. tracked' \subseteq loading \cup frames \cup Range(pending) \cup {fetching, r}
      BY <1>1, BeginKeepsClose DEF OnResponse
    <2> QED
      BY <1>1, <2>1 DEF OnResponse, TrackedWillClose
  <1>2. ASSUME NEW r \in Response, OnChunk(r) PROVE TrackedWillClose'
    BY <1>2 DEF OnChunk, TrackedWillClose
  <1>3. ASSUME NEW r \in Response, OnLoadingFinished(r) PROVE TrackedWillClose'
    BY <1>3, QueueHolds DEF OnLoadingFinished, TrackedWillClose, TypeOK
  <1>4. ASSUME NEW r \in Response, OnLoadingFailed(r) PROVE TrackedWillClose'
    BY <1>4 DEF OnLoadingFailed, TrackedWillClose
  <1>5. ASSUME NEW r \in Response, OnWsFrame(r) PROVE TrackedWillClose'
    <2>1. PICK c \in BOOLEAN, done \in BOOLEAN : BeginResponse(r, c, c /\ done)
      BY <1>5 DEF OnWsFrame
    <2>2. (c /\ done) \in BOOLEAN
      OBVIOUS
    <2>3. tracked' \subseteq loading \cup frames \cup Range(pending) \cup {fetching, r}
      BY <2>1, <2>2, BeginKeepsClose
    <2> QED
      BY <1>5, <2>3 DEF OnWsFrame, TrackedWillClose
  <1>6. CASE DrainNext
    <2>1. fetching \notin tracked
      BY <1>6, NoneAssumption DEF DrainNext, TypeOK
    <2>2. Range(pending) \subseteq Range(pending') \cup {fetching'}
      BY <1>6, QueueHolds DEF DrainNext, TypeOK
    <2> QED
      BY <1>6, <2>1, <2>2 DEF DrainNext, TrackedWillClose
  <1>7. CASE Fetched
    BY <1>7 DEF Fetched, CloseResponse, TrackedWillClose
  <1>8. CASE Tick \/ TickEnds \/ ClearBodies \/ Submit \/ Look \/ Return \/ Fail
    BY <1>8 DEF Tick, TickEnds, ClearBodies, Submit, Look, Return, Fail, TrackedWillClose
  <1>11. ASSUME NEW r \in Response, HookReads(r) PROVE TrackedWillClose'
    BY <1>11 DEF HookReads, TrackedWillClose
  <1>9. CASE Reset \/ Attach
    BY <1>9 DEF Reset, Attach, Clear, TrackedWillClose
  <1>10. CASE UNCHANGED vars
    BY <1>10 DEF vars, TrackedWillClose
  <1> QED
    BY <1>1, <1>2, <1>3, <1>4, <1>5, <1>6, <1>7, <1>8, <1>9, <1>10, <1>11
    DEF Next, Event, Ticking

(* No end of a response falls between an event and a tick: what is tracked *)
(* is loading, queued, being fetched, or a WebSocket frame.                *)
THEOREM NothingIsMissed == Spec => []TrackedWillClose
  BY CloseInit, CloseStep, TypeCorrect, PTL DEF Spec

(* Every set of numbers has a least one. *)
LEMMA LeastExists ==
    ASSUME NEW N, N \subseteq Nat, N # {}
    PROVE  \E x \in N : \A y \in N : x <= y
  <1> DEFINE R == OpToRel(<, Nat)
  <1>1. PICK x \in N : \A y \in N : ~(<<y, x>> \in R)
    BY NatLessThanWellFounded, WFMin, Zenon
  <1>2. \A y, z \in Nat : y < z => <<y, z>> \in R
    BY Zenon DEF OpToRel
  <1> HIDE DEF R
  <1>3. \A y \in N : ~(y < x)
    BY <1>1, <1>2
  <1>4. \A y \in N : x \in Nat /\ y \in Nat
    OBVIOUS
  <1>5. \A y \in N : x <= y
    BY <1>3, <1>4
  <1> QED
    BY <1>5

(* before orders S: what a list that was built by appending keeps. *)
Ordered(before, S) ==
    \A a, b, c \in S : /\ a \notin before[a]
                       /\ a \in before[b] /\ b \in before[c] => a \in before[c]

(* The first n of a set are at least n, unless they are all of it: one     *)
(* that is left out has n before it, and those before the first that is    *)
(* left out are all among them.                                            *)
LEMMA FirstAreMany ==
    ASSUME NEW S, IsFiniteSet(S), NEW before, Ordered(before, S), NEW n \in Nat,
           ~(S \subseteq First(S, n, before))
    PROVE  n <= Cardinality(First(S, n, before))
  <1> DEFINE F == First(S, n, before)
             Rank(q) == Cardinality(before[q] \cap S)
             Ranks == {Rank(q) : q \in S \ F}
  <1>1. \A q \in S : IsFiniteSet(before[q] \cap S) /\ Rank(q) \in Nat
    <2> TAKE q \in S
    <2>1. before[q] \cap S \subseteq S
      OBVIOUS
    <2> QED
      BY <2>1, FS_Subset, FS_CardinalityType
  <1>2. F = {q \in S : Rank(q) < n}
    BY DEF First
  <1>3. PICK m \in S \ F : \A q \in S \ F : Rank(m) <= Rank(q)
    <2>1. Ranks \subseteq Nat /\ Ranks # {}
      BY <1>1
    <2> HIDE DEF Ranks
    <2>2. PICK x \in Ranks : \A y \in Ranks : x <= y
      BY <2>1, LeastExists, Zenon
    <2> USE DEF Ranks
    <2> HIDE DEF Rank, F
    <2> QED
      BY <2>2
  <1>4. before[m] \cap S \subseteq F
    <2> SUFFICES ASSUME NEW a \in S, a \in before[m] PROVE a \in F
      OBVIOUS
    <2> DEFINE A == before[a] \cap S
               M == before[m] \cap S
    <2>1. A \subseteq M /\ a \in M /\ a \notin A
      BY <1>3 DEF Ordered
    <2>2. IsFiniteSet(M) /\ Cardinality(M) \in Nat /\ Cardinality(A) \in Nat
      BY <1>1, <1>3
    <2>3. Cardinality(A) < Cardinality(M)
      <3> HIDE DEF A, M
      <3>1. A # M
        BY <2>1
      <3>2. Cardinality(A) <= Cardinality(M) /\ (Cardinality(A) = Cardinality(M) => A = M)
        BY <2>1, <2>2, FS_Subset
      <3> QED
        BY <2>2, <3>1, <3>2
    <2>4. Rank(a) < Rank(m)
      BY <2>3
    <2>5. Rank(a) \in Nat /\ Rank(m) \in Nat
      BY <1>1, <1>3
    <2>6. a \in S \ F => Rank(m) <= Rank(a)
      BY <1>3
    <2> HIDE DEF Rank, F
    <2> QED
      BY <2>4, <2>5, <2>6
  <1>5. n <= Rank(m)
    BY <1>1, <1>2, <1>3
  <1>6. IsFiniteSet(F) /\ Cardinality(F) \in Nat
    <2>1. F \subseteq S
      BY <1>2
    <2> HIDE DEF F
    <2> QED
      BY <2>1, FS_Subset, FS_CardinalityType
  <1>7. Cardinality(before[m] \cap S) <= Cardinality(F)
    <2> HIDE DEF F
    <2> QED
      BY <1>4, <1>6, FS_Subset
  <1>8. Cardinality(before[m] \cap S) \in Nat
    BY <1>1, <1>3
  <1> HIDE DEF F
  <1>9. n <= Cardinality(F)
    BY <1>5, <1>6, <1>7, <1>8
  <1> QED
    BY <1>9 DEF F

(* Trimming drops a chat only when nothing but chats is left. *)
LEMMA TrimDropsPollutionFirst ==
    ASSUME NEW T, IsFiniteSet(T), NEW C, NEW before, Ordered(before, T),
           NEW r \in T \cap C, r \notin Trim(T, C, before)
    PROVE  Trim(T, C, before) \subseteq C
  <1> DEFINE e == Cardinality(T) - MaxTracked
             F == First(T \ C, e + 1, before)
             chats == T \ F
             e2 == Cardinality(chats) - MaxTracked
  <1>1. MaxTracked \in Nat /\ Cardinality(T) \in Nat
    BY BoundsAssumption, FS_CardinalityType
  <1>2. e > 0 /\ Trim(T, C, before) = chats \ First(chats, e2, before)
    BY <1>1 DEF Trim
  <1>3. F \subseteq T \ C
    BY DEF First
  <1>4. r \in chats /\ r \in First(chats, e2, before)
    BY <1>2, <1>3
  <1>5. IsFiniteSet(chats) /\ IsFiniteSet(F) /\ IsFiniteSet(T \ C)
    BY <1>3, FS_Subset
  <1>6. Cardinality(chats) = Cardinality(T) - Cardinality(F)
    <2> HIDE DEF F
    <2>1. T \cap F = F
      BY <1>3
    <2> QED
      BY <1>5, <2>1, FS_Difference
  <1>7. e2 > 0
    <2>1. Cardinality(before[r] \cap chats) < e2
      BY <1>4 DEF First
    <2>2. Cardinality(before[r] \cap chats) \in Nat
      BY <1>5, FS_Subset, FS_CardinalityType
    <2>3. Cardinality(chats) \in Nat
      BY <1>5, FS_CardinalityType
    <2> QED
      BY <1>1, <2>1, <2>2, <2>3
  <1>8. T \ C \subseteq F
    <2> SUFFICES ASSUME ~(T \ C \subseteq F) PROVE FALSE
      OBVIOUS
    <2>1. e + 1 \in Nat
      BY <1>1, <1>2
    <2>2. Ordered(before, T \ C)
      BY DEF Ordered
    <2>3. e + 1 <= Cardinality(F)
      <3> HIDE DEF e
      <3> QED
        BY <1>5, <2>1, <2>2, FirstAreMany
    <2>4. Cardinality(F) \in Nat
      BY <1>5, FS_CardinalityType
    <2> QED
      BY <1>1, <1>6, <1>7, <2>3, <2>4
  <1> QED
    BY <1>2, <1>8

(* The response that was closed last is not the one that is forgotten. *)
LEMMA NewestHoldsTheLast ==
    ASSUME NEW s \in Seq(Response), NEW r \in Response
    PROVE  r \in Range(Newest(Append(s, r)))
  <1> DEFINE t == Append(s, r)
  <1>1. t \in Seq(Response) /\ Len(t) = Len(s) + 1 /\ t[Len(t)] = r /\ Len(t) > 0
    OBVIOUS
  <1> HIDE DEF t
  <1>2. r \in Range(t)
    BY <1>1 DEF Range
  <1>3. CASE Len(t) > MaxClosed
    <2>1. Len(t) >= 2 /\ t # <<>>
      BY <1>1, <1>3, BoundsAssumption
    <2>2. Len(t) - 1 \in DOMAIN Tail(t) /\ Tail(t)[Len(t) - 1] = r
      BY <1>1, <2>1
    <2>3. r \in Range(Tail(t))
      BY <2>2 DEF Range
    <2> QED
      BY <1>3, <2>3 DEF Newest, t
  <1> QED
    BY <1>2, <1>3 DEF Newest, t

(* What is tracked is finite, and older is the order in which it began. *)
InOrder == IsFiniteSet(tracked) /\ Ordered(older, tracked)

LEMMA BeginKeepsOrder ==
    ASSUME TypeOK, InOrder, NEW r \in Response, r \notin tracked,
           NEW c \in BOOLEAN, NEW ended \in BOOLEAN, BeginResponse(r, c, ended)
    PROVE  /\ InOrder'
           /\ IsFiniteSet(tracked \cup {r}) /\ Ordered(older', tracked \cup {r})
  <1>1. IsFiniteSet(tracked \cup {r})
    BY FS_AddElement DEF InOrder
  <1>2. Ordered(older', tracked \cup {r})
    <2>1. /\ older'[r] = tracked
          /\ \A b \in tracked : older'[b] = older[b] \cap tracked
      BY DEF BeginResponse, TypeOK
    <2>2. /\ \A a \in tracked : a \notin older[a]
          /\ \A a, b, d \in tracked : a \in older[b] /\ b \in older[d] => a \in older[d]
      BY DEF InOrder, Ordered
    <2> QED
      BY <2>1, <2>2 DEF Ordered
  <1>3. tracked' \subseteq tracked \cup {r}
    BY TrimDrops DEF BeginResponse
  <1>4. IsFiniteSet(tracked')
    BY <1>1, <1>3, FS_Subset
  <1>5. Ordered(older', tracked')
    BY <1>2, <1>3 DEF Ordered
  <1> QED
    BY <1>1, <1>2, <1>4, <1>5 DEF InOrder

LEMMA OrderStep == TypeOK /\ InOrder /\ [Next]_vars => InOrder'
  <1> SUFFICES ASSUME TypeOK, InOrder, [Next]_vars PROVE InOrder'
    OBVIOUS
  <1> USE DEF capture, send, hook, extracted
  <1>1. ASSUME tracked' \subseteq tracked, older' = older PROVE InOrder'
    <2>1. IsFiniteSet(tracked')
      BY <1>1, FS_Subset DEF InOrder
    <2> QED
      BY <1>1, <2>1 DEF InOrder, Ordered
  <1>2. ASSUME tracked' = {} PROVE InOrder'
    BY <1>2, FS_EmptySet DEF InOrder, Ordered
  <1>3. ASSUME NEW r \in Response, OnResponse(r) PROVE InOrder'
    BY <1>3, BeginKeepsOrder DEF OnResponse, Unused
  <1>4. ASSUME NEW r \in Response, OnWsFrame(r) PROVE InOrder'
    <2>1. PICK c \in BOOLEAN, done \in BOOLEAN : BeginResponse(r, c, c /\ done)
      BY <1>4 DEF OnWsFrame
    <2>2. (c /\ done) \in BOOLEAN /\ r \notin tracked
      BY <1>4 DEF OnWsFrame, Unused
    <2> QED
      BY <2>1, <2>2, BeginKeepsOrder
  <1>5. ASSUME NEW r \in Response, \/ OnChunk(r) \/ OnLoadingFinished(r)
                                     \/ OnLoadingFailed(r) \/ HookReads(r)
        PROVE  InOrder'
    BY <1>1, <1>5 DEF OnChunk, OnLoadingFinished, OnLoadingFailed, HookReads
  <1>6. CASE Ticking
    BY <1>1, <1>6 DEF Ticking, Tick, DrainNext, Fetched, CloseResponse, TickEnds
  <1>7. CASE Reset \/ Attach
    BY <1>2, <1>7 DEF Reset, Attach, Clear
  <1>8. CASE ClearBodies \/ Submit \/ Look \/ Return \/ Fail
    BY <1>1, <1>8 DEF ClearBodies, Submit, Look, Return, Fail
  <1>9. CASE UNCHANGED vars
    BY <1>1, <1>9 DEF vars
  <1> QED
    BY <1>3, <1>4, <1>5, <1>6, <1>7, <1>8, <1>9 DEF Next, Event

(* A chat is never dropped for the limit while pollution is tracked.       *)
THEOREM PollutionIsDroppedFirst == Spec => PollutionGoesFirst
<1> DEFINE Kept(r) == \/ r \in Range(closed') \/ r \in loading \ loading'
                      \/ phase' \in {"typing", "readying"} /\ phase' # phase
                      \/ tracked' \subseteq chat'
<1>1. Init => InOrder
  BY FS_EmptySet DEF Init, InOrder, Ordered
<1>2. TypeOK /\ InOrder /\ [Next]_vars =>
        [\A r \in (tracked \cap chat) \ tracked' : Kept(r)]_vars
  <2> SUFFICES ASSUME TypeOK, InOrder, Next, NEW r \in (tracked \cap chat) \ tracked'
               PROVE  Kept(r)
    BY DEF vars
  <2> USE DEF capture, send, hook, extracted
  <2>1. ASSUME NEW q \in Response, q \notin tracked, NEW c \in BOOLEAN, NEW ended \in BOOLEAN,
               BeginResponse(q, c, ended)
        PROVE  tracked' \subseteq chat'
    <3>1. IsFiniteSet(tracked \cup {q}) /\ Ordered(older', tracked \cup {q})
      BY <2>1, BeginKeepsOrder
    <3>2. /\ tracked' = Trim(tracked \cup {q}, chat', older') \ (IF ended THEN {q} ELSE {})
          /\ r \in chat' /\ r # q
      BY <2>1 DEF BeginResponse
    <3>3. r \notin Trim(tracked \cup {q}, chat', older')
      BY <3>2
    <3> QED
      BY <3>1, <3>2, <3>3, TrimDropsPollutionFirst
  <2>2. ASSUME NEW q \in Response, OnResponse(q) PROVE Kept(r)
    BY <2>1, <2>2 DEF OnResponse, Unused
  <2>3. ASSUME NEW q \in Response, OnWsFrame(q) PROVE Kept(r)
    <3>1. PICK c \in BOOLEAN, done \in BOOLEAN : BeginResponse(q, c, c /\ done)
      BY <2>3 DEF OnWsFrame
    <3>2. (c /\ done) \in BOOLEAN /\ q \notin tracked
      BY <2>3 DEF OnWsFrame, Unused
    <3> QED
      BY <2>1, <3>1, <3>2
  <2>4. ASSUME NEW q \in Response, OnLoadingFailed(q) PROVE Kept(r)
    BY <2>4 DEF OnLoadingFailed
  <2>5. CASE Fetched
    <3>1. r = fetching /\ closed' = Newest(Append(closed, r)) /\ r \in Response
      BY <2>5 DEF Fetched, CloseResponse, TypeOK
    <3>2. r \in Range(closed')
      BY <3>1, NewestHoldsTheLast DEF TypeOK
    <3> QED
      BY <3>2
  <2>6. CASE Reset \/ Attach
    BY <2>6 DEF Reset, Attach
  <2>7. ASSUME tracked' = tracked PROVE Kept(r)
    BY <2>7
  <2>8. ASSUME NEW q \in Response, OnChunk(q) \/ OnLoadingFinished(q) \/ HookReads(q)
        PROVE  Kept(r)
    BY <2>7, <2>8 DEF OnChunk, OnLoadingFinished, HookReads
  <2>9. CASE \/ Tick \/ DrainNext \/ TickEnds
             \/ ClearBodies \/ Submit \/ Look \/ Return \/ Fail
    BY <2>7, <2>9
    DEF Tick, DrainNext, TickEnds, ClearBodies, Submit, Look, Return, Fail
  <2> QED
    BY <2>2, <2>3, <2>4, <2>5, <2>6, <2>8, <2>9 DEF Next, Event, Ticking
<1> QED
  BY <1>1, <1>2, TypeInit, TypeStep, OrderStep, PTL DEF Spec, PollutionGoesFirst

-----------------------------------------------------------------------------
StreamKinds == {"sse", "chunked", "data", "message", "done", "finished", "failed"}
SocketKinds == {"ws_created", "ws_closed", "frame", "ws_done"}
NetworkEvent == [kind : StreamKinds, id : Stream] \cup [kind : SocketKinds, id : Url \cup {NoUrl}]

SSEState == [ids : SUBSET Stream, active : BOOLEAN, done : BOOLEAN]
WSState == [urls : SUBSET (Url \cup {NoUrl}), open : BOOLEAN, done : BOOLEAN]
FetchState == [ids : SUBSET Stream, active : BOOLEAN, any : BOOLEAN, bodies : Nat]
Observers == [s : SSEState, w : WSState, f : FetchState, d : BOOLEAN, data : BOOLEAN]

(* The browser b delivers r, or the end of r is queued after the first n   *)
(* events of q.                                                            *)
LiveAfter(b, q, r, n) ==
  \/ b[r] \in Kinds
  \/ \E i \in 1 .. Len(q) : n < i /\ q[i].id = r /\ q[i].kind \in {"finished", "failed"}

(* Whatever an observer follows is live, and one that is active follows    *)
(* something.                                                              *)
Follow(s, f, b, q, n) ==
  /\ \A r \in s.ids : LiveAfter(b, q, r, n)
  /\ \A r \in f.ids : LiveAfter(b, q, r, n)
  /\ s.active => s.ids # {}
  /\ f.active /\ f.any => f.ids # {}

Announced(b, q) ==
  \A i \in 1 .. Len(q) : q[i].kind \in Kinds => LiveAfter(b, q, q[i].id, i)

(* The silence is as long as the parser was idle, unless it waits to be    *)
(* told of data.                                                           *)
SilenceIsIdle == sensing # "data" => silence = Quiet \/ silence >= parser.idle

SensorTypes ==
  /\ browser \in [Stream -> {"new", "over"} \cup Kinds]
  /\ queue \in Seq(NetworkEvent)
  /\ sse \in SSEState /\ ws \in WSState /\ fetch \in FetchState
  /\ parser \in [any : BOOLEAN, idle : 0 .. Old, disconnected : BOOLEAN]
  /\ sensing \in {"no", "data", "bodies"}
  /\ generation \in [started : BOOLEAN, completed : BOOLEAN]
  /\ silence \in 0 .. Quiet

SensorInv ==
  /\ SensorTypes
  /\ Follow(sse, fetch, browser, queue, 0)
  /\ Announced(browser, queue)
  /\ SilenceIsIdle

Observers0 == [s |-> sse, w |-> ws, f |-> fetch, d |-> parser.disconnected, data |-> FALSE]

(* The recursion of Observed is well founded.                              *)
LEMMA ObservedIs ==
  ASSUME Len(queue) \in Nat
  PROVE  \E after : /\ after[0] = Observers0
                    /\ \A n \in 1 .. Len(queue) : after[n] = Handle(after[n - 1], queue[n])
                    /\ Observed = after[Len(queue)]
  <1> DEFINE L == Len(queue)
             Step(o, n) == Handle(o, queue[n])
             Solves(f, m) == f = [n \in 0 .. m |-> IF n = 0 THEN Observers0 ELSE Step(f[n - 1], n)]
             Good == {m \in 0 .. L : \E f : Solves(f, m)}
  <1> L \in Nat
    OBVIOUS
  <1> HIDE DEF L
  <1>1. 0 \in Good
    <2>1. \E f : Solves(f, 0)
      <3>1. Solves([n \in 0 .. 0 |-> Observers0], 0)
        <4> HIDE DEF Step
        <4> QED
          OBVIOUS
      <3> HIDE DEF Solves
      <3> QED
        BY <3>1, Zenon
    <2> HIDE DEF Solves
    <2> QED
      BY <2>1
  <1>2. ASSUME NEW m \in 0 .. L, m < L, m \in Good
        PROVE  m + 1 \in Good
    <2>1. PICK f : Solves(f, m)
      BY <1>2
    <2> DEFINE g == [n \in 0 .. m + 1 |-> IF n = m + 1 THEN Step(f[m], m + 1) ELSE f[n]]
    <2> HIDE DEF Step
    <2>2. ASSUME NEW n \in 0 .. m + 1 PROVE g[n] = IF n = 0 THEN Observers0 ELSE Step(g[n - 1], n)
      <3>1. CASE n = 0
        BY <2>1, <3>1
      <3>2. CASE n # 0 /\ n < m + 1
        <4>1. n \in 0 .. m /\ n - 1 \in 0 .. m /\ n # m + 1 /\ n - 1 # m + 1
          BY <3>2
        <4>2. g[n] = f[n] /\ g[n - 1] = f[n - 1]
          BY <4>1
        <4>3. f[n] = Step(f[n - 1], n)
          BY <2>1, <4>1, <3>2
        <4> QED
          BY <4>2, <4>3, <3>2
      <3>3. CASE n = m + 1
        <4>1. g[n] = Step(f[m], n) /\ n # 0 /\ n - 1 = m /\ m \in 0 .. m + 1 /\ m # m + 1
          BY <3>3
        <4>2. g[m] = f[m]
          BY <4>1
        <4> QED
          BY <4>1, <4>2
      <3> QED
        BY <3>1, <3>2, <3>3
    <2>3. Solves(g, m + 1)
      BY <2>2
    <2> HIDE DEF Solves, g
    <2>4. \E h : Solves(h, m + 1)
      BY <2>3, Zenon
    <2> QED
      BY <1>2, <2>4
  <1>3. L \in Good
    <2> HIDE DEF Good
    <2>1. \A m \in 0 .. L : m \in Good
      BY <1>1, <1>2, CountsUp
    <2> QED
      BY <2>1
  <1> DEFINE Eq(k) == k = [n \in 0 .. L |->
                IF n = 0
                THEN [s |-> sse, w |-> ws, f |-> fetch, d |-> parser.disconnected, data |-> FALSE]
                ELSE Handle(k[n - 1], queue[n])]
  <1>4. PICK f : Eq(f)
    <2>1. PICK f : Solves(f, L)
      BY <1>3
    <2>2. Eq(f)
      BY <2>1, Zenon DEF Observers0
    <2> HIDE DEF Eq
    <2> QED
      BY <2>2
  <1> DEFINE after == CHOOSE k : Eq(k)
  <1>5. Eq(after)
    <2> HIDE DEF Eq
    <2> QED
      BY <1>4
  <1>6. Observed = after[L]
    BY Zenon DEF Observed, L
  <1> HIDE DEF after
  <1>7. after[0] = Observers0
    BY <1>5 DEF Observers0
  <1>8. ASSUME NEW n \in 1 .. L PROVE after[n] = Handle(after[n - 1], queue[n])
    <2>1. n \in 0 .. L /\ n # 0
      OBVIOUS
    <2> QED
      BY <1>5, <2>1
  <1> QED
    BY <1>6, <1>7, <1>8 DEF L

(* What an observer makes of one more event.                               *)
LEMMA HandleKeeps ==
  ASSUME NEW o \in Observers, NEW b, NEW q \in Seq(NetworkEvent), Announced(b, q),
         NEW n \in 1 .. Len(q), Follow(o.s, o.f, b, q, n - 1)
  PROVE  /\ Handle(o, q[n]) \in Observers
         /\ Follow(Handle(o, q[n]).s, Handle(o, q[n]).f, b, q, n)
  <1> DEFINE e == q[n]
             h == Handle(o, e)
  <1>1. /\ o.s \in SSEState /\ o.w \in WSState /\ o.f \in FetchState
        /\ o.d \in BOOLEAN /\ o.data \in BOOLEAN
        /\ DOMAIN o = {"s", "w", "f", "d", "data"}
    BY DEF Observers
  <1>2. e \in NetworkEvent /\ n \in Nat /\ Len(q) \in Nat
    OBVIOUS
  <1>3. e.kind \in Kinds => LiveAfter(b, q, e.id, n)
    BY DEF Announced
  <1>4. ASSUME NEW r, LiveAfter(b, q, r, n - 1), r # e.id \/ e.kind \notin {"finished", "failed"}
        PROVE  LiveAfter(b, q, r, n)
    BY <1>2, <1>4 DEF LiveAfter
  <1>5. \A s, f : Follow(s, f, b, q, n) <=>
           /\ \A r \in s.ids : LiveAfter(b, q, r, n)
           /\ \A r \in f.ids : LiveAfter(b, q, r, n)
           /\ s.active => s.ids # {}
           /\ f.active /\ f.any => f.ids # {}
    BY Zenon DEF Follow
  <1>6. /\ \A r \in o.s.ids : LiveAfter(b, q, r, n - 1)
        /\ \A r \in o.f.ids : LiveAfter(b, q, r, n - 1)
        /\ o.s.active => o.s.ids # {}
        /\ o.f.active /\ o.f.any => o.f.ids # {}
    BY DEF Follow
  <1> SUFFICES h \in Observers /\ Follow(h.s, h.f, b, q, n)
    OBVIOUS
  <1> HIDE DEF e
  <1>7. /\ o.s.ids \in SUBSET Stream /\ o.s.active \in BOOLEAN /\ o.s.done \in BOOLEAN
        /\ o.f.ids \in SUBSET Stream /\ o.f.active \in BOOLEAN /\ o.f.any \in BOOLEAN /\ o.f.bodies \in Nat
        /\ o.w.urls \in SUBSET (Url \cup {NoUrl}) /\ o.w.open \in BOOLEAN /\ o.w.done \in BOOLEAN
    BY <1>1 DEF SSEState, FetchState, WSState
  <1>8. CASE e.kind = "sse"
    <2> DEFINE s == OnSSEResponse(o.s, e.id)
               f == [o.f EXCEPT !.ids = @ \cup {e.id}, !.active = TRUE]
    <2>1. e.id \in Stream
      BY <1>2, <1>8 DEF NetworkEvent, StreamKinds, SocketKinds
    <2>2. h = [o EXCEPT !.s = s, !.f = f]
      BY <1>1, <1>7, <1>8 DEF Handle
    <2>3. s \in SSEState /\ s.ids = o.s.ids \cup {e.id}
      BY <1>7, <2>1 DEF OnSSEResponse, SSEState
    <2>4. f \in FetchState /\ f.ids = o.f.ids \cup {e.id}
      BY <1>1, <1>7, <2>1 DEF FetchState
    <2>5. LiveAfter(b, q, e.id, n)
      BY <1>3, <1>8 DEF Kinds
    <2> HIDE DEF s, f
    <2>6. Follow(s, f, b, q, n)
      BY <1>4, <1>5, <1>6, <1>8, <2>3, <2>4, <2>5
    <2>7. h \in Observers /\ h.s = s /\ h.f = f
      BY <1>1, <2>2, <2>3, <2>4 DEF Observers
    <2> QED
      BY <2>6, <2>7
  <1>9. CASE e.kind = "chunked"
    <2> DEFINE f == [o.f EXCEPT !.ids = @ \cup {e.id}, !.active = TRUE]
    <2>1. e.id \in Stream
      BY <1>2, <1>9 DEF NetworkEvent, StreamKinds, SocketKinds
    <2>2. h = [o EXCEPT !.f = f]
      BY <1>1, <1>7, <1>9 DEF Handle
    <2>4. f \in FetchState /\ f.ids = o.f.ids \cup {e.id}
      BY <1>1, <1>7, <2>1 DEF FetchState
    <2>5. LiveAfter(b, q, e.id, n)
      BY <1>3, <1>9 DEF Kinds
    <2> HIDE DEF f
    <2>6. Follow(o.s, f, b, q, n)
      BY <1>4, <1>5, <1>6, <1>9, <2>4, <2>5
    <2>7. h \in Observers /\ h.s = o.s /\ h.f = f
      BY <1>1, <2>2, <2>4 DEF Observers
    <2> QED
      BY <2>6, <2>7
  <1>10. CASE e.kind = "data"
    <2> DEFINE f == OnFetchData(o.f, e.id)
               d == o.data \/ e.id \in o.f.ids
    <2>2. h = [o EXCEPT !.f = f, !.data = d]
      BY <1>1, <1>7, <1>10 DEF Handle
    <2>3. d \in BOOLEAN
      OBVIOUS
    <2>4. f \in FetchState /\ f.ids = o.f.ids /\ (f.active /\ f.any => f.ids # {})
      BY <1>1, <1>6, <1>7 DEF FetchState, OnFetchData
    <2> HIDE DEF f, d
    <2>6. Follow(o.s, f, b, q, n)
      BY <1>4, <1>5, <1>6, <1>10, <2>4
    <2>7. h \in Observers /\ h.s = o.s /\ h.f = f
      BY <1>1, <2>2, <2>3, <2>4 DEF Observers
    <2> QED
      BY <2>6, <2>7
  <1>11. CASE e.kind \in {"message", "done"}
    <2> DEFINE dn == e.kind = "done"
               s == OnSSEMessage(o.s, e.id, dn)
               d == o.data \/ e.id \in o.s.ids
    <2>2. h = [o EXCEPT !.s = s, !.data = d]
      BY <1>1, <1>7, <1>11 DEF Handle
    <2>3. d \in BOOLEAN /\ dn \in BOOLEAN
      OBVIOUS
    <2> HIDE DEF dn, d
    <2>4. s \in SSEState /\ s.ids = o.s.ids /\ (s.active => s.ids # {})
      BY <1>1, <1>6, <1>7, <2>3 DEF SSEState, OnSSEMessage
    <2> HIDE DEF s
    <2>6. Follow(s, o.f, b, q, n)
      BY <1>4, <1>5, <1>6, <1>11, <2>4
    <2>7. h \in Observers /\ h.s = s /\ h.f = o.f
      BY <1>1, <2>2, <2>3, <2>4 DEF Observers
    <2> QED
      BY <2>6, <2>7
  <1>12. CASE e.kind \in {"finished", "failed"}
    <2> DEFINE fl == e.kind = "failed"
               s == OnSSEOver(o.s, e.id, fl)
               f == OnFetchOver(o.f, e.id, fl)
               d == o.d \/ fl
    <2>2. h = [o EXCEPT !.s = s, !.f = f, !.d = d]
      <3>1. CASE e.kind = "finished"
        <4>1. h = [o EXCEPT !.s = OnSSEOver(@, e.id, FALSE), !.f = OnFetchOver(@, e.id, FALSE)]
          BY <3>1 DEF Handle
        <4>2. fl = FALSE /\ d = o.d
          BY <1>1, <3>1
        <4>3. [o EXCEPT !.s = s, !.f = f, !.d = d] = [o EXCEPT !.s = s, !.f = f]
          <5> HIDE DEF s, f
          <5> QED
            BY <1>1, <4>2 DEF Observers
        <4> QED
          BY <4>1, <4>2, <4>3
      <3>2. CASE e.kind = "failed"
        <4>1. h = [o EXCEPT !.s = OnSSEOver(@, e.id, TRUE), !.f = OnFetchOver(@, e.id, TRUE), !.d = TRUE]
          BY <3>2 DEF Handle
        <4>2. fl = TRUE /\ d = TRUE
          BY <3>2
        <4> QED
          BY <4>1, <4>2
      <3> QED
        BY <1>12, <3>1, <3>2
    <2>3. d \in BOOLEAN /\ fl \in BOOLEAN
      OBVIOUS
    <2> HIDE DEF fl, d
    <2>4. s \in SSEState /\ s.ids \subseteq o.s.ids \ {e.id} /\ (s.active => s.ids # {})
      BY <1>1, <1>6, <1>7, <2>3, ZenonT(30) DEF SSEState, OnSSEOver
    <2>5. f \in FetchState /\ f.ids = o.f.ids \ {e.id} /\ (f.active /\ f.any => f.ids # {})
      <3> DEFINE left == o.f.ids \ {e.id}
                 act == o.f.active /\ ~(left = {} /\ o.f.any)
                 bd == IF fl THEN o.f.bodies ELSE o.f.bodies + 1
      <3>1. f = [o.f EXCEPT !.ids = left, !.active = act, !.bodies = bd]
        BY DEF OnFetchOver
      <3>2. act \in BOOLEAN /\ (act /\ o.f.any => left # {})
        OBVIOUS
      <3>3. left \in SUBSET Stream /\ bd \in Nat
        BY <1>7, <2>3
      <3> HIDE DEF act, bd
      <3>4. /\ f \in FetchState /\ f.ids = left /\ f.active = act /\ f.any = o.f.any
        <4> HIDE DEF left
        <4> QED
          BY <1>1, <3>1, <3>2, <3>3 DEF FetchState
      <3> HIDE DEF f
      <3> QED
        BY <3>2, <3>4
    <2> HIDE DEF s, f
    <2>6. Follow(s, f, b, q, n)
      BY <1>4, <1>5, <1>6, <2>4, <2>5
    <2>7. h \in Observers /\ h.s = s /\ h.f = f
      BY <1>1, <2>2, <2>3, <2>4, <2>5 DEF Observers
    <2> QED
      BY <2>6, <2>7
  <1>13. CASE e.kind \in SocketKinds
    <2> DEFINE dn == e.kind = "ws_done"
    <2>1. e.id \in Url \cup {NoUrl}
      BY <1>2, <1>13 DEF NetworkEvent, StreamKinds, SocketKinds
    <2>2. \E w \in WSState, d \in BOOLEAN, x \in BOOLEAN : h = [o EXCEPT !.w = w, !.d = d, !.data = x]
      <3>1. CASE e.kind = "ws_created"
        <4> DEFINE w == OnSocketCreated(o.w, e.id)
        <4>1. h = [o EXCEPT !.w = w, !.d = FALSE]
          BY <3>1 DEF Handle
        <4>2. w \in WSState
          BY <1>1, <1>7, <2>1 DEF WSState, OnSocketCreated
        <4> HIDE DEF w
        <4>3. h = [o EXCEPT !.w = w, !.d = FALSE, !.data = o.data]
          BY <1>1, <4>1 DEF Observers
        <4> QED
          BY <1>1, <4>2, <4>3
      <3>2. CASE e.kind = "ws_closed"
        <4> DEFINE w == OnSocketClosed(o.w, e.id)
        <4>1. h = [o EXCEPT !.w = w, !.d = TRUE]
          BY <1>1, <3>2 DEF Handle
        <4>2. w \in WSState
          BY <1>1, <1>7, <2>1 DEF WSState, OnSocketClosed
        <4> HIDE DEF w
        <4>3. h = [o EXCEPT !.w = w, !.d = TRUE, !.data = o.data]
          BY <1>1, <4>1 DEF Observers
        <4> QED
          BY <1>1, <4>2, <4>3
      <3>3. CASE e.kind \in {"frame", "ws_done"}
        <4> DEFINE w == OnSocketFrame(o.w, dn)
        <4>1. h = [o EXCEPT !.w = w, !.data = TRUE]
          BY <1>1, <3>3 DEF Handle
        <4>2. w \in WSState
          <5>1. dn \in BOOLEAN
            OBVIOUS
          <5> HIDE DEF dn
          <5> QED
            BY <1>1, <1>7, <5>1 DEF WSState, OnSocketFrame
        <4> HIDE DEF w
        <4>3. h = [o EXCEPT !.w = w, !.d = o.d, !.data = TRUE]
          BY <1>1, <4>1 DEF Observers
        <4> QED
          BY <1>1, <4>2, <4>3
      <3> QED
        BY <1>13, <3>1, <3>2, <3>3 DEF SocketKinds
    <2>3. PICK w \in WSState, d \in BOOLEAN, x \in BOOLEAN : h = [o EXCEPT !.w = w, !.d = d, !.data = x]
      BY <2>2
    <2>4. h \in Observers /\ h.s = o.s /\ h.f = o.f
      BY <1>1, <2>3 DEF Observers
    <2>5. e.kind \notin {"finished", "failed"}
      BY <1>13 DEF SocketKinds
    <2>6. Follow(o.s, o.f, b, q, n)
      BY <1>4, <1>5, <1>6, <2>5
    <2> QED
      BY <2>4, <2>6
  <1>14. e.kind \in StreamKinds \cup SocketKinds
    BY <1>2 DEF NetworkEvent
  <1> QED
    BY <1>8, <1>9, <1>10, <1>11, <1>12, <1>13, <1>14 DEF StreamKinds

(* What the drain leaves in the observers.                                 *)
LEMMA DrainKeeps ==
  ASSUME SensorInv
  PROVE  Observed \in Observers /\ Follow(Observed.s, Observed.f, browser, queue, Len(queue))
  <1>1. queue \in Seq(NetworkEvent) /\ Len(queue) \in Nat
    BY DEF SensorInv, SensorTypes
  <1>2. PICK after : /\ after[0] = Observers0
                     /\ \A n \in 1 .. Len(queue) : after[n] = Handle(after[n - 1], queue[n])
                     /\ Observed = after[Len(queue)]
    BY <1>1, ObservedIs
  <1> DEFINE Good == {n \in 0 .. Len(queue) : /\ after[n] \in Observers
                                              /\ Follow(after[n].s, after[n].f, browser, queue, n)}
  <1>3. 0 \in Good
    <2>1. Observers0 \in Observers /\ Observers0.s = sse /\ Observers0.f = fetch
      BY DEF SensorInv, SensorTypes, Observers0, Observers
    <2> QED
      BY <1>1, <1>2, <2>1 DEF SensorInv
  <1>4. ASSUME NEW m \in 0 .. Len(queue), m < Len(queue), m \in Good PROVE m + 1 \in Good
    <2> DEFINE n == m + 1
    <2>1. n \in 1 .. Len(queue) /\ n - 1 = m /\ n \in 0 .. Len(queue)
      BY <1>1, <1>4
    <2> HIDE DEF n
    <2>2. after[m] \in Observers /\ Follow(after[m].s, after[m].f, browser, queue, n - 1)
      BY <1>4, <2>1
    <2>3. after[n] = Handle(after[m], queue[n])
      BY <1>2, <2>1
    <2>4. Announced(browser, queue)
      BY DEF SensorInv
    <2>5. /\ Handle(after[m], queue[n]) \in Observers
          /\ Follow(Handle(after[m], queue[n]).s, Handle(after[m], queue[n]).f, browser, queue, n)
      BY <1>1, <2>1, <2>2, <2>4, HandleKeeps
    <2>6. n \in Good
      BY <2>1, <2>3, <2>5
    <2> QED
      BY <2>6 DEF n
  <1>5. \A m \in 0 .. Len(queue) : m \in Good
    <2> HIDE DEF Good
    <2> QED
      BY <1>1, <1>3, <1>4, CountsUp
  <1> QED
    BY <1>1, <1>2, <1>5

(* Events join the queue; the browser stops delivering a request only as   *)
(* its end is queued.                                                      *)
LEMMA TrafficKeeps ==
  ASSUME SensorInv, NEW e \in NetworkEvent, queue' = Append(queue, e),
         browser' \in [Stream -> {"new", "over"} \cup Kinds],
         \A r \in Stream : browser[r] \in Kinds =>
            browser'[r] \in Kinds \/ (e.id = r /\ e.kind \in {"finished", "failed"}),
         e.kind \in Kinds => browser'[e.id] \in Kinds,
         UNCHANGED <<sse, ws, fetch, parser, sensing, generation, silence>>
  PROVE  SensorInv'
  <1> DEFINE L == Len(queue)
  <1>1. queue \in Seq(NetworkEvent) /\ L \in Nat
    BY DEF SensorInv, SensorTypes
  <1>2. /\ queue' \in Seq(NetworkEvent) /\ Len(queue') = L + 1 /\ queue'[L + 1] = e
        /\ \A i \in 1 .. L : queue'[i] = queue[i]
    BY <1>1
  <1> HIDE DEF L
  <1>3. ASSUME NEW r \in Stream, NEW n \in 0 .. L, LiveAfter(browser, queue, r, n)
        PROVE  LiveAfter(browser', queue', r, n)
    <2>1. CASE browser[r] \in Kinds
      BY <1>1, <1>2, <2>1 DEF LiveAfter
    <2>2. CASE \E i \in 1 .. L : n < i /\ queue[i].id = r /\ queue[i].kind \in {"finished", "failed"}
      BY <1>1, <1>2, <2>2 DEF LiveAfter
    <2> QED
      BY <1>3, <2>1, <2>2 DEF LiveAfter, L
  <1>4. SensorTypes'
    BY <1>2 DEF SensorInv, SensorTypes
  <1>5. Follow(sse, fetch, browser', queue', 0)
    <2>1. sse.ids \subseteq Stream /\ fetch.ids \subseteq Stream /\ 0 \in 0 .. L
      BY <1>1 DEF SensorInv, SensorTypes, SSEState, FetchState
    <2> QED
      BY <1>3, <2>1 DEF SensorInv, Follow
  <1>6. Announced(browser', queue')
    <2> SUFFICES ASSUME NEW i \in 1 .. L + 1, queue'[i].kind \in Kinds
                 PROVE  LiveAfter(browser', queue', queue'[i].id, i)
      BY <1>2 DEF Announced
    <2>1. CASE i = L + 1
      BY <1>2, <2>1 DEF LiveAfter
    <2>2. CASE i \in 1 .. L
      <3>1. queue'[i] = queue[i] /\ queue[i] \in NetworkEvent /\ i \in 0 .. L
        BY <1>1, <1>2, <2>2 DEF L
      <3>2. queue[i].id \in Stream
        BY <3>1 DEF NetworkEvent, StreamKinds, SocketKinds, Kinds
      <3>3. LiveAfter(browser, queue, queue[i].id, i)
        BY <2>2, <3>1 DEF SensorInv, Announced, L
      <3>4. LiveAfter(browser', queue', queue[i].id, i)
        BY ONLY <1>3, <3>1, <3>2, <3>3
      <3> QED
        BY <3>1, <3>4
    <2>3. i \in 1 .. L \/ i = L + 1
      BY <1>1
    <2> QED
      BY <2>1, <2>2, <2>3
  <1>7. SilenceIsIdle'
    BY DEF SensorInv, SilenceIsIdle
  <1> QED
    BY <1>4, <1>5, <1>6, <1>7 DEF SensorInv

LEMMA SensorInitInv == SensorInit => SensorInv
  <1> SUFFICES ASSUME SensorInit PROVE SensorInv
    OBVIOUS
  <1>1. SensorTypes
    BY NetworkThresholds DEF SensorInit, SensorTypes, SSE0, WS0, Fetch0, Parser0, SSEState, WSState,
       FetchState, Old, Quiet
  <1> QED
    BY <1>1, NetworkThresholds
    DEF SensorInit, SensorInv, Follow, Announced, SilenceIsIdle, SSE0, Fetch0, Parser0, Quiet

LEMMA SensorStep == SensorInv /\ [SensorNext]_sensorVars => SensorInv'
  <1> SUFFICES ASSUME SensorInv, [SensorNext]_sensorVars PROVE SensorInv'
    OBVIOUS
  <1>1. CASE Traffic
    <2>1. PICK e \in NetworkEvent :
             /\ queue' = Append(queue, e)
             /\ browser' \in [Stream -> {"new", "over"} \cup Kinds]
             /\ \A r \in Stream : browser[r] \in Kinds =>
                  browser'[r] \in Kinds \/ (e.id = r /\ e.kind \in {"finished", "failed"})
             /\ e.kind \in Kinds => browser'[e.id] \in Kinds
             /\ UNCHANGED <<sse, ws, fetch, parser, sensing, generation, silence>>
      <3>0. browser \in [Stream -> {"new", "over"} \cup Kinds]
        BY DEF SensorInv, SensorTypes
      <3>1. ASSUME NEW r \in Stream, NEW k \in Kinds, Responds(r, k)
            PROVE  browser' = [browser EXCEPT ![r] = k] /\ Queued(k, r) /\ browser[r] = "new"
        BY <3>1 DEF Responds
      <3>2. ASSUME NEW r \in Stream, NEW what \in {"data", "message", "done"}, Delivers(r, what)
            PROVE  browser' = browser /\ Queued(what, r)
        BY <3>2 DEF Delivers
      <3>3. ASSUME NEW r \in Stream, NEW how \in {"finished", "failed"}, Ends(r, how)
            PROVE  browser' = [browser EXCEPT ![r] = "over"] /\ Queued(how, r)
        BY <3>3 DEF Ends
      <3>4. ASSUME NEW u \in Url, SocketOpens(u)
            PROVE  browser' = browser /\ Queued("ws_created", u)
        BY <3>4 DEF SocketOpens
      <3>5. ASSUME NEW u \in Url, NEW what \in {"frame", "ws_done"}, SocketReceives(u, what)
            PROVE  browser' = browser /\ Queued(what, u)
        BY <3>5 DEF SocketReceives
      <3>6. ASSUME NEW u \in Url, NEW named \in {u, NoUrl}, SocketCloses(u, named)
            PROVE  browser' = browser /\ Queued("ws_closed", named)
        BY <3>6 DEF SocketCloses
      <3> DEFINE Goal(e) ==
             /\ queue' = Append(queue, e)
             /\ browser' \in [Stream -> {"new", "over"} \cup Kinds]
             /\ \A r \in Stream : browser[r] \in Kinds =>
                  browser'[r] \in Kinds \/ (e.id = r /\ e.kind \in {"finished", "failed"})
             /\ e.kind \in Kinds => browser'[e.id] \in Kinds
             /\ UNCHANGED <<sse, ws, fetch, parser, sensing, generation, silence>>
                 NewEvent(k, i) == [kind |-> k, id |-> i]
      <3>7. CASE \E r \in Stream, k \in Kinds : Responds(r, k)
        <4>1. PICK r \in Stream, k \in Kinds : Responds(r, k)
          BY <3>7
        <4>2. NewEvent(k, r) \in NetworkEvent
          BY DEF NetworkEvent, StreamKinds, Kinds
        <4>3. Goal(NewEvent(k, r))
          BY <3>0, <3>1, <4>1 DEF Queued, Kinds
        <4> HIDE DEF Goal, NewEvent
        <4>4. \E e \in NetworkEvent : Goal(e)
          BY <4>2, <4>3
        <4> QED
          BY <4>4 DEF Goal
      <3>8. CASE \E r \in Stream : \E what \in {"data", "message", "done"} : Delivers(r, what)
        <4>1. PICK r \in Stream, k \in {"data", "message", "done"} : Delivers(r, k)
          BY <3>8
        <4>2. NewEvent(k, r) \in NetworkEvent
          BY DEF NetworkEvent, StreamKinds
        <4>3. Goal(NewEvent(k, r))
          BY <3>0, <3>2, <4>1 DEF Queued, Kinds
        <4> HIDE DEF Goal, NewEvent
        <4>4. \E e \in NetworkEvent : Goal(e)
          BY <4>2, <4>3
        <4> QED
          BY <4>4 DEF Goal
      <3>9. CASE \E r \in Stream : \E how \in {"finished", "failed"} : Ends(r, how)
        <4>1. PICK r \in Stream, k \in {"finished", "failed"} : Ends(r, k)
          BY <3>9
        <4>2. NewEvent(k, r) \in NetworkEvent
          BY DEF NetworkEvent, StreamKinds
        <4>3. Goal(NewEvent(k, r))
          BY <3>0, <3>3, <4>1 DEF Queued, Kinds
        <4> HIDE DEF Goal, NewEvent
        <4>4. \E e \in NetworkEvent : Goal(e)
          BY <4>2, <4>3
        <4> QED
          BY <4>4 DEF Goal
      <3>10. CASE \E u \in Url : \/ SocketOpens(u)
                                 \/ \E what \in {"frame", "ws_done"} : SocketReceives(u, what)
                                 \/ \E named \in {u, NoUrl} : SocketCloses(u, named)
        <4>1. PICK k \in SocketKinds, i \in Url \cup {NoUrl} : browser' = browser /\ Queued(k, i)
          BY <3>4, <3>5, <3>6, <3>10 DEF SocketKinds
        <4>2. NewEvent(k, i) \in NetworkEvent
          BY DEF NetworkEvent
        <4>3. Goal(NewEvent(k, i))
          BY <3>0, <4>1 DEF Queued, Kinds, SocketKinds
        <4> HIDE DEF Goal, NewEvent
        <4>4. \E e \in NetworkEvent : Goal(e)
          BY <4>2, <4>3
        <4> QED
          BY <4>4 DEF Goal
      <3> HIDE DEF Goal
      <3>11. \E e \in NetworkEvent : Goal(e)
        BY <1>1, <3>7, <3>8, <3>9, <3>10 DEF Traffic, Goal
      <3> QED
        BY <3>11 DEF Goal
    <2> QED
      BY <2>1, TrafficKeeps
  <1>2. CASE Drain
    <2>1. /\ queue' = <<>> /\ sse' = Observed.s /\ ws' = Observed.w /\ fetch' = Observed.f
          /\ parser' = [parser EXCEPT !.disconnected = Observed.d]
          /\ sensing' = IF Observed.data THEN "data" ELSE "bodies"
          /\ silence' = IF Observed.data THEN 0 ELSE silence
          /\ browser' = browser /\ generation' = generation /\ sensing = "no"
      BY <1>2 DEF Drain
    <2>2. Observed \in Observers /\ Follow(Observed.s, Observed.f, browser, queue, Len(queue))
      BY DrainKeeps
    <2> DEFINE o == Observed
    <2> HIDE DEF o
    <2>3. /\ o.s \in SSEState /\ o.w \in WSState /\ o.f \in FetchState /\ o.d \in BOOLEAN /\ o.data \in BOOLEAN
      BY <2>2 DEF o, Observers
    <2>4. parser \in [any : BOOLEAN, idle : 0 .. Old, disconnected : BOOLEAN] /\ silence \in 0 .. Quiet
      BY DEF SensorInv, SensorTypes
    <2>5. parser' \in [any : BOOLEAN, idle : 0 .. Old, disconnected : BOOLEAN] /\ parser'.idle = parser.idle
      BY <2>1, <2>3, <2>4 DEF o
    <2>6. silence' \in 0 .. Quiet
      BY <2>1, <2>3, <2>4, NetworkThresholds DEF Quiet
    <2>7. SensorTypes'
      BY <2>1, <2>3, <2>5, <2>6 DEF SensorInv, SensorTypes, o
    <2>8. Len(queue) \in Nat
      BY DEF SensorInv, SensorTypes
    <2>9. \A r : LiveAfter(browser, queue, r, Len(queue)) => LiveAfter(browser', queue', r, 0)
      BY <2>1, <2>8 DEF LiveAfter
    <2>10. Follow(sse', fetch', browser', queue', 0)
      BY <2>1, <2>2, <2>9 DEF Follow
    <2>11. Announced(browser', queue')
      BY <2>1 DEF Announced
    <2>12. SilenceIsIdle'
      BY <2>1, <2>5 DEF SensorInv, SilenceIsIdle
    <2> QED
      BY <2>7, <2>10, <2>11, <2>12 DEF SensorInv
  <1>3. CASE FetchBody
    <2>1. /\ fetch' = [fetch EXCEPT !.bodies = @ - 1] /\ fetch.bodies > 0
          /\ (sensing' = "data" /\ silence' = 0) \/ (sensing' = sensing /\ silence' = silence)
          /\ UNCHANGED <<browser, sockets, queue, sse, ws, parser, generation>>
      BY <1>3 DEF FetchBody
    <2>2. fetch' \in FetchState /\ fetch'.ids = fetch.ids /\ fetch'.active = fetch.active /\ fetch'.any = fetch.any
      BY <2>1, SMTT(30) DEF SensorInv, SensorTypes, FetchState
    <2>3. SensorTypes'
      BY <2>1, <2>2, NetworkThresholds DEF SensorInv, SensorTypes, Quiet
    <2>4. Follow(sse', fetch', browser', queue', 0)
      BY <2>1, <2>2 DEF SensorInv, Follow
    <2>5. Announced(browser', queue') /\ SilenceIsIdle'
      BY <2>1 DEF SensorInv, SilenceIsIdle
    <2> QED
      BY <2>3, <2>4, <2>5 DEF SensorInv
  <1>4. CASE Evaluate
    <2>1. /\ parser' = Fed /\ sensing' = "no"
          /\ generation' = [started |-> generation.started \/ Fed.any,
                            completed |-> generation.completed
                                          \/ ((generation.started \/ Fed.any) /\ StreamClosed(Fed))]
          /\ UNCHANGED <<browser, sockets, queue, sse, ws, fetch, silence>>
      BY <1>4 DEF Evaluate
    <2>2. parser \in [any : BOOLEAN, idle : 0 .. Old, disconnected : BOOLEAN] /\ silence \in 0 .. Quiet
      BY DEF SensorInv, SensorTypes
    <2>3. /\ Fed \in [any : BOOLEAN, idle : 0 .. Old, disconnected : BOOLEAN]
          /\ Fed.idle = IF sensing = "data" THEN 0 ELSE parser.idle
      <3> DEFINE i == IF sensing = "data" THEN 0 ELSE parser.idle
                 a == parser.any \/ sensing = "data"
                 d == parser.disconnected \/ (sse.done /\ ~sse.active) \/ (ws.done /\ ~ws.open)
      <3>1. Fed = [parser EXCEPT !.any = a, !.idle = i, !.disconnected = d]
        BY DEF Fed
      <3>2. a \in BOOLEAN /\ d \in BOOLEAN
        OBVIOUS
      <3>3. i \in 0 .. Old
        BY <2>2, NetworkThresholds DEF Old
      <3> HIDE DEF a, d, i
      <3>4. Fed \in [any : BOOLEAN, idle : 0 .. Old, disconnected : BOOLEAN] /\ Fed.idle = i
        BY <2>2, <3>1, <3>2, <3>3
      <3> QED
        BY <3>4 DEF i
    <2>4. generation' \in [started : BOOLEAN, completed : BOOLEAN]
      <3> DEFINE a == generation.started \/ Fed.any
                 c == generation.completed \/ ((generation.started \/ Fed.any) /\ StreamClosed(Fed))
      <3>1. a \in BOOLEAN /\ c \in BOOLEAN
        OBVIOUS
      <3>2. generation' = [started |-> a, completed |-> c]
        BY <2>1
      <3> HIDE DEF a, c
      <3> QED
        BY <3>1, <3>2
    <2>5. SensorTypes'
      BY <2>1, <2>3, <2>4 DEF SensorInv, SensorTypes
    <2>6. Follow(sse', fetch', browser', queue', 0) /\ Announced(browser', queue')
      BY <2>1 DEF SensorInv
    <2>7. SilenceIsIdle'
      BY <2>1, <2>2, <2>3 DEF SensorInv, SilenceIsIdle
    <2> QED
      BY <2>5, <2>6, <2>7 DEF SensorInv
  <1>5. CASE ResetSensor
    <2>1. SensorTypes'
      <3>1. /\ sse' = SSE0 /\ ws' = WS0 /\ parser' = Parser0 /\ queue' = <<>>
            /\ fetch' = [Fetch0 EXCEPT !.bodies = fetch.bodies]
            /\ generation' = [started |-> FALSE, completed |-> FALSE]
            /\ silence' = Quiet
            /\ UNCHANGED <<browser, sockets, sensing>>
        BY <1>5 DEF ResetSensor
      <3>2. fetch.bodies \in Nat
        BY DEF SensorInv, SensorTypes, FetchState
      <3>3. fetch' \in FetchState
        BY <3>1, <3>2 DEF Fetch0, FetchState
      <3>4. sse' \in SSEState /\ ws' \in WSState
        BY <3>1 DEF SSE0, WS0, SSEState, WSState
      <3>5. parser' \in [any : BOOLEAN, idle : 0 .. Old, disconnected : BOOLEAN]
        BY <3>1, NetworkThresholds DEF Parser0, Old
      <3>6. generation' \in [started : BOOLEAN, completed : BOOLEAN]
        BY <3>1
      <3>7. silence' \in 0 .. Quiet
        BY <3>1, NetworkThresholds DEF Quiet
      <3> QED
        BY <3>1, <3>3, <3>4, <3>5, <3>6, <3>7 DEF SensorInv, SensorTypes
    <2>2. Follow(sse', fetch', browser', queue', 0) /\ Announced(browser', queue') /\ SilenceIsIdle'
      BY <1>5 DEF ResetSensor, Follow, Announced, SilenceIsIdle, SSE0, Fetch0
    <2> QED
      BY <2>1, <2>2 DEF SensorInv
  <1>6. CASE SensorClock
    <2>1. /\ parser' = [parser EXCEPT !.idle = Older(parser.idle, Old)]
          /\ silence' = Older(silence, Quiet)
          /\ UNCHANGED <<browser, sockets, queue, sse, ws, fetch, sensing, generation>>
      BY <1>6 DEF SensorClock
    <2>2. parser \in [any : BOOLEAN, idle : 0 .. Old, disconnected : BOOLEAN] /\ silence \in 0 .. Quiet
      BY DEF SensorInv, SensorTypes
    <2>3. Older(parser.idle, Old) \in 0 .. Old /\ Older(silence, Quiet) \in 0 .. Quiet
      BY <2>2, NetworkThresholds DEF Older, Old, Quiet
    <2>4. /\ parser' \in [any : BOOLEAN, idle : 0 .. Old, disconnected : BOOLEAN]
          /\ parser'.idle = Older(parser.idle, Old)
      BY <2>1, <2>2, <2>3
    <2>5. SensorTypes'
      BY <2>1, <2>3, <2>4 DEF SensorInv, SensorTypes
    <2>6. Follow(sse', fetch', browser', queue', 0) /\ Announced(browser', queue')
      BY <2>1 DEF SensorInv
    <2>7. SilenceIsIdle'
      BY <2>1, <2>2, <2>4, NetworkThresholds DEF SensorInv, SilenceIsIdle, Older, Old, Quiet
    <2> QED
      BY <2>5, <2>6, <2>7 DEF SensorInv
  <1>7. CASE UNCHANGED sensorVars
    BY <1>7 DEF sensorVars, SensorInv, SensorTypes, SilenceIsIdle
  <1> QED
    BY <1>1, <1>2, <1>3, <1>4, <1>5, <1>6, <1>7 DEF SensorNext, Sense

LEMMA SensorAlways == SensorSpec => []SensorInv
  BY SensorInitInv, SensorStep, PTL DEF SensorSpec

(* No observer is active for nothing: what it follows is delivered still,  *)
(* or its end is queued.                                                   *)
THEOREM ObserversAreLive == SensorSpec => []ActiveIsLive
<1>1. SensorInv => ActiveIsLive
  <2> SUFFICES ASSUME SensorInv PROVE ActiveIsLive
    OBVIOUS
  <2>1. queue \in Seq(NetworkEvent) /\ DOMAIN queue = 1 .. Len(queue)
    BY DEF SensorInv, SensorTypes
  <2>2. \A r : LiveAfter(browser, queue, r, 0) =>
               browser[r] \in Kinds \/ Waiting(r, {"finished", "failed"})
    BY <2>1 DEF LiveAfter, Waiting
  <2> QED
    BY <2>2 DEF SensorInv, Follow, ActiveIsLive
<1> QED
  BY <1>1, SensorAlways, PTL

(* An answer is taken for complete only after a silence.                   *)
THEOREM AnswersEndInSilence == SensorSpec => CompletesInSilence
<1>1. SensorInv /\ [SensorNext]_sensorVars =>
        [generation'.completed /\ ~generation.completed => silence > IDLE_THRESHOLD_STREAM_END]_sensorVars
  <2> SUFFICES ASSUME SensorInv, SensorNext, generation'.completed, ~generation.completed
               PROVE  silence > IDLE_THRESHOLD_STREAM_END
    BY DEF sensorVars
  <2>1. CASE Evaluate
    <3>1. StreamClosed(Fed)
      BY <2>1 DEF Evaluate
    <3>2. parser \in [any : BOOLEAN, idle : 0 .. Old, disconnected : BOOLEAN] /\ silence \in 0 .. Quiet
      BY DEF SensorInv, SensorTypes
    <3>3. Fed.idle = IF sensing = "data" THEN 0 ELSE parser.idle
      BY <3>2 DEF Fed
    <3>4. Fed.idle > IDLE_THRESHOLD_STREAM_END
      BY <3>1, <3>2, <3>3, NetworkThresholds DEF StreamClosed, Old
    <3>5. sensing # "data" /\ parser.idle > IDLE_THRESHOLD_STREAM_END
      BY <3>3, <3>4, NetworkThresholds
    <3> QED
      BY <3>2, <3>5, NetworkThresholds DEF SensorInv, SilenceIsIdle, Quiet
  <2>2. CASE Traffic
    BY <2>2 DEF Traffic, Responds, Delivers, Ends, SocketOpens, SocketReceives, SocketCloses, Queued
  <2>3. CASE ResetSensor
    BY <2>3 DEF ResetSensor
  <2>4. CASE Drain \/ FetchBody \/ SensorClock
    BY <2>4 DEF Drain, FetchBody, SensorClock
  <2> QED
    BY <2>1, <2>2, <2>3, <2>4 DEF SensorNext, Sense
<1> QED
  BY <1>1, SensorAlways, PTL DEF SensorSpec, CompletesInSilence
=============================================================================
