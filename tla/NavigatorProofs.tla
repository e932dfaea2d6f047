---------------------------- MODULE NavigatorProofs ----------------------------
(***************************************************************************)
(* PagesAreAStack and OnlyCoveredPagesAreLeftOut for any number of pages   *)
(* and any length of their transitions.                                    *)
(***************************************************************************)
EXTENDS Navigator, SequenceTheorems, WellFoundedInduction, TLAPS

USE NavigatorAssumption

Entries == [object : 0..MaxEntries, route : Routes]

Transitions == [direction : {Forward, Backward}, progress : 0..FullProgress, ticking : BOOLEAN,
                fresh : BOOLEAN, dismissed : BOOLEAN, completed : BOOLEAN]

TypeOK == /\ history \in Seq(Entries)
          /\ historyIndex \in Nat
          /\ historyIndex < Len(history)
          /\ fullyOpaque \subseteq ToSet(history)
          /\ DOMAIN transitions \subseteq Entries
          /\ transitions \in [DOMAIN transitions -> Transitions]
          /\ navigator_dirty \in BOOLEAN
          /\ due \subseteq DOMAIN transitions
          /\ elapsed \in 0..FullProgress
          /\ pops_in_frames \in BOOLEAN

(* A history holds an entry once, and begins with the first route. *)
EntriesDiffer == \A i, j \in DOMAIN history : history[i] = history[j] => i = j

FirstRouteStands ==
    /\ \A i \in DOMAIN history : history[i].object = 0 <=> i = 1
    /\ \A e \in DOMAIN transitions : e.object # 0 /\ e.route # RouteState

OnStack(e) == \E i \in 1 .. historyIndex + 1 : history[i] = e

(* A transition that goes back is that of a page that was popped. *)
OnlyPoppedGoBack ==
    \A e \in DOMAIN transitions : transitions[e].direction = Backward => ~OnStack(e)

(* One that goes forward was that of a page on the stack when the navigator was built. *)
ForwardAreOnTheStack ==
    ~navigator_dirty \/ (InFrame /\ ~pops_in_frames) =>
        \A e \in DOMAIN transitions : transitions[e].direction = Forward => OnStack(e)

(* A transition whose page has left is at its end. *)
TickingAreInHistory ==
    \A e \in DOMAIN transitions :
        /\ e \in due => transitions[e].ticking
        /\ transitions[e].ticking => e \in ToSet(history)

ForwardTicksToTheEnd ==
    \A e \in DOMAIN transitions :
        transitions[e].direction = Forward =>
            /\ transitions[e].ticking <=> transitions[e].progress # FullProgress
            /\ transitions[e].fresh => transitions[e].progress = 0

PoppedAreNotOpaque ==
    ~pops_in_frames => \A i \in historyIndex + 2 .. Len(history) : history[i] \notin fullyOpaque

-----------------------------------------------------------------------------
(* Who arrives first. *)

(* The progress of a transition after the ticks that are left in this frame. *)
WillBe(e) == IF e \in due THEN Progressed(transitions[e]) ELSE transitions[e].progress

WillBeFresh(e) == e \notin due /\ transitions[e].fresh

Below(e, f) == \E i, j \in DOMAIN history : i < j /\ history[i] = e /\ history[j] = f

RightBelow(e, f) ==
    \E i \in 1 .. Len(history) - 1 : history[i] = e /\ history[i + 1] = f

(* Of two transitions that go forward, the one below is ahead. *)
LowerIsAhead ==
    \A e, f \in DOMAIN transitions :
        Below(e, f) /\ transitions[f].direction = Forward =>
            /\ transitions[e].direction = Forward
            /\ WillBe(e) >= WillBe(f)
            /\ WillBeFresh(e) => WillBeFresh(f)

(* What an opaque page covers has arrived, or will before the end of the frame. *)
CoveredArrive ==
    \A e \in DOMAIN transitions, f \in fullyOpaque :
        RightBelow(e, f) => transitions[e].direction = Forward /\ WillBe(e) = FullProgress

(* A page on the stack below one that has a transition has one too, or is covered. *)
NoGaps ==
    \A i, j \in 1 .. historyIndex + 1 :
        /\ 1 < i /\ i < j
        /\ history[i].route # RouteState
        /\ history[j] \in DOMAIN transitions
        => history[i] \in DOMAIN transitions \/ history[i + 1] \in fullyOpaque

IInv == /\ TypeOK /\ EntriesDiffer /\ FirstRouteStands
        /\ OnlyPoppedGoBack /\ ForwardAreOnTheStack /\ TickingAreInHistory
        /\ ForwardTicksToTheEnd /\ PoppedAreNotOpaque
        /\ LowerIsAhead /\ CoveredArrive /\ NoGaps

-----------------------------------------------------------------------------
(* What happens to the history. *)

(* A history g that is h with e in the place k, or without what is in the place k of h. *)
Inserts(h, k, e, g) ==
    /\ Len(g) = Len(h) + 1
    /\ \A i \in 1 .. Len(h) + 1 : g[i] = IF i < k THEN h[i] ELSE IF i = k THEN e ELSE h[i - 1]

Removes(h, k, g) ==
    /\ Len(g) = Len(h) - 1
    /\ \A i \in 1 .. Len(h) - 1 : g[i] = IF i < k THEN h[i] ELSE h[i + 1]

LEMMA InsertAtInserts ==
    ASSUME NEW S, NEW h \in Seq(S), NEW k \in 1 .. Len(h) + 1, NEW e \in S
    PROVE  /\ InsertAt(h, k, e) \in Seq(S)
           /\ Inserts(h, k, e, InsertAt(h, k, e))
<1>0. Len(h) \in Nat /\ k \in Int
  OBVIOUS
<1> DEFINE front == SubSeq(h, 1, k - 1)
           back == SubSeq(h, k, Len(h))
           most == front \o <<e>>
<1>1. /\ front \in Seq(S) /\ Len(front) = k - 1
      /\ \A i \in 1 .. k - 1 : front[i] = h[i]
  BY SubSeqProperties
<1>2. /\ back \in Seq(S) /\ Len(back) = Len(h) - k + 1
      /\ \A i \in 1 .. Len(h) - k + 1 : back[i] = h[k + i - 1]
  BY SubSeqProperties
<1> HIDE DEF front, back
<1>3. /\ most \in Seq(S) /\ Len(most) = k
      /\ \A i \in 1 .. k : most[i] = IF i < k THEN h[i] ELSE e
  BY <1>1
<1> HIDE DEF most
<1>4. most \o back \in Seq(S) /\ Len(most \o back) = Len(h) + 1
  <2>1. most \o back \in Seq(S) /\ Len(most \o back) = Len(most) + Len(back)
    BY <1>2, <1>3, ConcatProperties, Zenon
  <2>. QED  BY <1>0, <1>2, <1>3, <2>1
<1>5. ASSUME NEW i \in 1 .. Len(h) + 1
      PROVE  (most \o back)[i] = IF i < k THEN h[i] ELSE IF i = k THEN e ELSE h[i - 1]
  <2>0. i <= k \/ i > k
    BY <1>0
  <2>1. CASE i <= k
    BY <1>2, <1>3, <2>1
  <2>2. CASE i > k
    <3>1. (most \o back)[i] = back[i - k] /\ i - k \in 1 .. Len(h) - k + 1
      BY <1>2, <1>3, <2>2
    <3>. QED  BY <1>2, <2>2, <3>1
  <2>. QED  BY <2>0, <2>1, <2>2, Zenon
<1>6. InsertAt(h, k, e) = most \o back
  BY DEF InsertAt, most, front, back
<1>. QED  BY <1>4, <1>5, <1>6 DEF Inserts

LEMMA RemoveFirstRemoves ==
    ASSUME NEW S, NEW h \in Seq(S), NEW k \in 1 .. Len(h),
           \A i, j \in DOMAIN h : h[i] = h[j] => i = j
    PROVE  /\ RemoveFirst(h, h[k]) \in Seq(S)
           /\ Removes(h, k, RemoveFirst(h, h[k]))
<1>0. Len(h) \in Nat /\ k \in Int
  OBVIOUS
<1> DEFINE front == SubSeq(h, 1, k - 1)
           back == SubSeq(h, k + 1, Len(h))
<1>1. /\ front \in Seq(S) /\ Len(front) = k - 1
      /\ \A i \in 1 .. k - 1 : front[i] = h[i]
  BY SubSeqProperties
<1>2. /\ back \in Seq(S) /\ Len(back) = Len(h) - k
      /\ \A i \in 1 .. Len(h) - k : back[i] = h[k + i]
  BY SubSeqProperties
<1> HIDE DEF front, back
<1>3. front \o back \in Seq(S) /\ Len(front \o back) = Len(h) - 1
  <2>1. front \o back \in Seq(S) /\ Len(front \o back) = Len(front) + Len(back)
    BY <1>1, <1>2, ConcatProperties, Zenon
  <2>. QED  BY <1>0, <1>1, <1>2, <2>1
<1>4. ASSUME NEW i \in 1 .. Len(h) - 1
      PROVE  (front \o back)[i] = IF i < k THEN h[i] ELSE h[i + 1]
  <2>0. i < k \/ i >= k
    BY <1>0
  <2>1. CASE i < k
    BY <1>1, <1>2, <2>1
  <2>2. CASE i >= k
    <3>1. (front \o back)[i] = back[i - k + 1] /\ i - k + 1 \in 1 .. Len(h) - k
      BY <1>1, <1>2, <2>2
    <3>. QED  BY <1>2, <2>2, <3>1
  <2>. QED  BY <2>0, <2>1, <2>2, Zenon
<1>6. {i \in 1 .. Len(h) : h[i] = h[k]} = {k}
  OBVIOUS
<1>7. Min({k}) = k
  BY DEF Min
<1>8. SelectInSeq(h, LAMBDA v : v = h[k]) = k
  BY <1>6, <1>7 DEF SelectInSeq
<1>9. RemoveFirst(h, h[k]) = RemoveAt(h, k)
  BY <1>8 DEF RemoveFirst
<1>10. RemoveAt(h, k) = front \o back
  BY DEF RemoveAt, front, back
<1>. QED  BY <1>3, <1>4, <1>9, <1>10 DEF Removes

LEMMA LeastOfNumbers ==
    ASSUME NEW S \in SUBSET Nat, S # {}
    PROVE  Min(S) \in S
<1> DEFINE less == OpToRel(<, Nat)
<1>1. \A x, m \in Nat : x < m => <<x, m>> \in less
  BY DEF OpToRel
<1>2. IsWellFoundedOn(less, Nat)
  BY NatLessThanWellFounded
<1> HIDE DEF less
<1>3. PICK m \in S : \A x \in S : ~(<<x, m>> \in less)
  BY <1>2, WFMin
<1>4. ASSUME NEW x \in S PROVE m <= x
  <2>1. x \in Nat /\ m \in Nat /\ ~(x < m)
    BY <1>1, <1>3
  <2>. QED  BY <2>1
<1>. QED  BY <1>3, <1>4 DEF Min

(* The entry of a push is new, and goes on top of the current one. *)
LEMMA PushInserts ==
    ASSUME TypeOK, NEW route \in Routes, Push(route)
    PROVE  \E e \in Entries :
               /\ e.object # 0
               /\ e \notin ToSet(history) \cup DOMAIN transitions
               /\ Inserts(history, historyIndex + 2, e, history')
               /\ history' \in Seq(Entries)
<1> DEFINE o == Min(FreeObjects)
<1>1. o \in FreeObjects
  <2>1. FreeObjects # {} /\ FreeObjects \subseteq Nat
    BY DEF Push, CanPush, FreeObjects
  <2>. QED  BY <2>1, LeastOfNumbers
<1>2. o \in 1..MaxEntries /\ o \notin {e.object : e \in ToSet(history) \cup DOMAIN transitions}
  BY <1>1 DEF FreeObjects
<1> HIDE DEF o
<1>3. Entry(o, route) \in Entries /\ Entry(o, route).object = o
  BY <1>2 DEF Entry, Entries
<1>4. Entry(o, route) \notin ToSet(history) \cup DOMAIN transitions
  BY <1>2, <1>3
<1>5. history' = InsertAt(history, historyIndex + 2, Entry(o, route))
  BY DEF Push, o
<1>6. historyIndex + 2 \in 1 .. Len(history) + 1
  BY DEF TypeOK
<1>. QED  BY <1>2, <1>3, <1>4, <1>5, <1>6, InsertAtInserts DEF TypeOK

(* Push and Pop leave the transitions alone. *)
LEMMA TransitionsStay ==
    ASSUME UNCHANGED <<transitions, due, elapsed>>, NEW e
    PROVE  WillBe(e)' = WillBe(e) /\ WillBeFresh(e)' = WillBeFresh(e)
  BY DEF WillBe, WillBeFresh, Progressed

LEMMA HistoryIsTyped ==
    ASSUME TypeOK
    PROVE  /\ DOMAIN history = 1 .. Len(history)
           /\ Len(history) \in Nat
           /\ historyIndex + 1 \in 1 .. Len(history)
           /\ \A i \in 1 .. Len(history) : history[i] \in Entries /\ history[i] \in ToSet(history)
           /\ \A e \in ToSet(history) : \E i \in 1 .. Len(history) : history[i] = e
  BY DEF TypeOK, ToSet

-----------------------------------------------------------------------------

LEMMA PushKeeps ==
    ASSUME IInv, NEW route \in Routes, Push(route)
    PROVE  IInv'
<1> DEFINE k == historyIndex + 2
<1>1. PICK n \in Entries :
          /\ n.object # 0
          /\ n \notin ToSet(history) \cup DOMAIN transitions
          /\ Inserts(history, k, n, history')
          /\ history' \in Seq(Entries)
  BY PushInserts DEF IInv
<1>2. /\ historyIndex' = historyIndex + 1
      /\ navigator_dirty' = TRUE
      /\ UNCHANGED <<fullyOpaque, transitions, due, elapsed, pops_in_frames>>
  BY DEF Push, CanPush
<1>3. TypeOK
  BY DEF IInv
<1>4. /\ DOMAIN history = 1 .. Len(history) /\ Len(history) \in Nat
      /\ historyIndex \in Nat /\ k \in 2 .. Len(history) + 1
      /\ \A i \in 1 .. Len(history) : history[i] \in ToSet(history) /\ history[i] # n
  BY <1>1, <1>3, HistoryIsTyped DEF TypeOK
<1> DEFINE old(i) == IF i < k THEN i ELSE i - 1
<1>5. /\ DOMAIN history' = 1 .. Len(history') /\ Len(history') = Len(history) + 1
      /\ history'[k] = n
      /\ \A i \in 1 .. Len(history') : i # k =>
             /\ old(i) \in 1 .. Len(history)
             /\ history'[i] = history[old(i)]
             /\ history'[i] # n
  <2>1. DOMAIN history' = 1 .. Len(history') /\ Len(history') = Len(history) + 1
    BY <1>1 DEF Inserts
  <2>2. history'[k] = n
    BY <1>1, <1>4 DEF Inserts
  <2>3. ASSUME NEW i \in 1 .. Len(history'), i # k
        PROVE  /\ old(i) \in 1 .. Len(history)
               /\ history'[i] = history[old(i)]
    BY <1>1, <1>4, <2>1, <2>3 DEF Inserts
  <2>. QED  BY <1>4, <2>1, <2>2, <2>3
<1>6. \A i, j \in 1 .. Len(history') : i < j /\ i # k /\ j # k => old(i) < old(j)
  BY <1>4, <1>5
<1>7. \A i \in 1 .. historyIndex + 1 : history'[i] = history[i] /\ i \in 1 .. Len(history)
  BY <1>4, <1>5
<1> HIDE DEF k
<1>8. ToSet(history) \subseteq ToSet(history')
  <2> SUFFICES ASSUME NEW i \in 1 .. Len(history) PROVE history[i] \in ToSet(history')
    BY <1>3, HistoryIsTyped
  <2>1. CASE i < k
    <3>1. i \in 1 .. Len(history') /\ history'[i] = history[i]
      BY <1>4, <1>5, <2>1
    <3>. QED  BY <1>5, <3>1 DEF ToSet
  <2>2. CASE ~(i < k)
    <3>1. i + 1 \in 1 .. Len(history') /\ history'[i + 1] = history[i]
      BY <1>4, <1>5, <2>2
    <3>. QED  BY <1>5, <3>1 DEF ToSet
  <2>. QED  BY <2>1, <2>2
<1>9. TypeOK'
  <2>1. historyIndex' \in Nat /\ historyIndex' < Len(history')
    BY <1>2, <1>4, <1>5 DEF k
  <2>. QED  BY <1>1, <1>2, <1>3, <1>8, <2>1 DEF TypeOK
<1>10. \A e : e # n => (OnStack(e)' <=> OnStack(e))
  <2> SUFFICES ASSUME NEW e, e # n PROVE OnStack(e)' <=> OnStack(e)
    OBVIOUS
  <2>1. \A i \in 1 .. historyIndex' + 1 : i \in 1 .. historyIndex + 1 \/ history'[i] = n
    BY <1>2, <1>4, <1>5 DEF k
  <2>. QED  BY <1>2, <1>4, <1>7, <2>1 DEF OnStack
<1>11. EntriesDiffer'
  <2> SUFFICES ASSUME NEW i \in 1 .. Len(history'), NEW j \in 1 .. Len(history'),
                      history'[i] = history'[j]
               PROVE  i = j
    BY <1>5 DEF EntriesDiffer
  <2>1. CASE i = k \/ j = k
    BY <1>5, <2>1
  <2>2. CASE i # k /\ j # k
    <3>1. old(i) = old(j)
      BY <1>4, <1>5, <2>2 DEF IInv, EntriesDiffer
    <3>. QED  BY <1>4, <1>5, <2>2, <3>1
  <2>. QED  BY <2>1, <2>2
<1>12. FirstRouteStands'
  <2>1. ASSUME NEW i \in 1 .. Len(history') PROVE history'[i].object = 0 <=> i = 1
    <3>1. CASE i = k
      BY <1>1, <1>4, <1>5, <3>1
    <3>2. CASE i # k
      <4>1. old(i) = 1 <=> i = 1
        BY <1>4, <1>5, <3>2
      <4>2. history[old(i)].object = 0 <=> old(i) = 1
        BY <1>4, <1>5, <3>2 DEF IInv, FirstRouteStands
      <4>. QED  BY <1>5, <3>2, <4>1, <4>2
    <3>. QED  BY <3>1, <3>2
  <2>. QED  BY <1>2, <1>5, <2>1 DEF IInv, FirstRouteStands
<1>13. OnlyPoppedGoBack' /\ ForwardAreOnTheStack'
  BY <1>1, <1>2, <1>10 DEF IInv, OnlyPoppedGoBack, ForwardAreOnTheStack, InFrame
<1>14. TickingAreInHistory' /\ ForwardTicksToTheEnd'
  BY <1>2, <1>8 DEF IInv, TickingAreInHistory, ForwardTicksToTheEnd
<1>15. PoppedAreNotOpaque'
  <2> SUFFICES ASSUME ~pops_in_frames, NEW i \in historyIndex' + 2 .. Len(history')
               PROVE  history'[i] \notin fullyOpaque
    BY <1>2 DEF PoppedAreNotOpaque
  <2>1. old(i) \in historyIndex + 2 .. Len(history) /\ history'[i] = history[old(i)]
    BY <1>2, <1>4, <1>5 DEF k
  <2>. QED  BY <2>1 DEF IInv, PoppedAreNotOpaque
<1>16. LowerIsAhead'
  <2> SUFFICES ASSUME NEW e \in DOMAIN transitions, NEW f \in DOMAIN transitions, Below(e, f)'
               PROVE  Below(e, f)
    BY <1>2, TransitionsStay DEF IInv, LowerIsAhead
  <2>1. PICK i \in 1 .. Len(history'), j \in 1 .. Len(history') :
            i < j /\ history'[i] = e /\ history'[j] = f
    BY <1>5 DEF Below
  <2>2. i # k /\ j # k
    BY <1>1, <1>5, <2>1
  <2>. QED  BY <1>4, <1>5, <1>6, <2>1, <2>2 DEF Below
<1>17. CoveredArrive'
  <2> SUFFICES ASSUME NEW e \in DOMAIN transitions, NEW f \in fullyOpaque, RightBelow(e, f)'
               PROVE  RightBelow(e, f)
    BY <1>2, TransitionsStay DEF IInv, CoveredArrive
  <2>1. PICK i \in 1 .. Len(history') - 1 : history'[i] = e /\ history'[i + 1] = f
    BY DEF RightBelow
  <2>2. i # k /\ i + 1 # k /\ i + 1 \in 1 .. Len(history')
    BY <1>1, <1>3, <1>5, <2>1 DEF TypeOK
  <2>3. old(i) \in 1 .. Len(history) - 1 /\ old(i + 1) = old(i) + 1
    BY <1>4, <1>5, <2>2
  <2>. QED  BY <1>5, <2>1, <2>2, <2>3 DEF RightBelow
<1>18. NoGaps'
  <2> SUFFICES ASSUME NEW i \in 1 .. historyIndex' + 1, NEW j \in 1 .. historyIndex' + 1,
                      1 < i, i < j, history'[i].route # RouteState,
                      history'[j] \in DOMAIN transitions
               PROVE  history'[i] \in DOMAIN transitions \/ history'[i + 1] \in fullyOpaque
    BY <1>2 DEF NoGaps
  <2>1. j # k
    BY <1>1, <1>5
  <2>2. /\ i \in 1 .. historyIndex + 1 /\ j \in 1 .. historyIndex + 1
        /\ i + 1 \in 1 .. historyIndex + 1
    BY <1>2, <1>4, <2>1 DEF k
  <2>. QED  BY <1>7, <2>2 DEF IInv, NoGaps
<1>. QED  BY <1>9, <1>11, <1>12, <1>13, <1>14, <1>15, <1>16, <1>17, <1>18 DEF IInv

LEMMA PopKeeps ==
    ASSUME IInv, Pop
    PROVE  IInv'
<1>1. /\ historyIndex \in Nat \ {0} /\ historyIndex' = historyIndex - 1
      /\ fullyOpaque' = fullyOpaque \ {history[historyIndex + 1]}
      /\ navigator_dirty' = TRUE
      /\ InFrame => pops_in_frames \/ history[historyIndex + 1].route = RouteState
      /\ UNCHANGED <<history, transitions, due, elapsed, pops_in_frames>>
  BY DEF Pop, CurrentEntry, IInv, TypeOK
<1>2. /\ DOMAIN history = 1 .. Len(history) /\ Len(history) \in Nat
      /\ historyIndex + 1 \in 1 .. Len(history)
  BY HistoryIsTyped DEF IInv
<1>3. TypeOK'
  BY <1>1, <1>2 DEF IInv, TypeOK
<1>4. EntriesDiffer' /\ FirstRouteStands' /\ TickingAreInHistory' /\ ForwardTicksToTheEnd'
  BY <1>1 DEF IInv, EntriesDiffer, FirstRouteStands, TickingAreInHistory, ForwardTicksToTheEnd
<1>5. \A e : OnStack(e)' => OnStack(e)
  BY <1>1 DEF OnStack
<1>6. OnlyPoppedGoBack'
  BY <1>1, <1>5 DEF IInv, OnlyPoppedGoBack
<1>7. ForwardAreOnTheStack'
  <2> SUFFICES ASSUME InFrame, ~pops_in_frames, NEW e \in DOMAIN transitions,
                      transitions[e].direction = Forward
               PROVE  OnStack(e)'
    BY <1>1 DEF ForwardAreOnTheStack, InFrame
  <2>1. PICK i \in 1 .. historyIndex + 1 : history[i] = e
    BY DEF IInv, ForwardAreOnTheStack, OnStack
  <2>2. i # historyIndex + 1
    BY <1>1, <2>1 DEF IInv, FirstRouteStands
  <2>. QED  BY <1>1, <2>1, <2>2 DEF OnStack
<1>8. PoppedAreNotOpaque'
  <2> SUFFICES ASSUME ~pops_in_frames, NEW i \in historyIndex + 1 .. Len(history)
               PROVE  history[i] \notin fullyOpaque'
    BY <1>1 DEF PoppedAreNotOpaque
  <2>1. CASE i = historyIndex + 1
    BY <1>1, <2>1
  <2>2. CASE i # historyIndex + 1
    <3>1. i \in historyIndex + 2 .. Len(history)
      BY <1>1, <2>2
    <3>. QED  BY <1>1, <3>1 DEF IInv, PoppedAreNotOpaque
  <2>. QED  BY <2>1, <2>2
<1>9. LowerIsAhead'
  <2>1. \A e, f : Below(e, f)' <=> Below(e, f)
    BY <1>1 DEF Below
  <2>. QED  BY <1>1, <2>1, TransitionsStay DEF IInv, LowerIsAhead
<1>10. CoveredArrive'
  <2>1. \A e, f : RightBelow(e, f)' <=> RightBelow(e, f)
    BY <1>1 DEF RightBelow
  <2>. QED  BY <1>1, <2>1, TransitionsStay DEF IInv, CoveredArrive
<1>11. NoGaps'
  <2> SUFFICES ASSUME NEW i \in 1 .. historyIndex, NEW j \in 1 .. historyIndex,
                      1 < i, i < j, history[i].route # RouteState,
                      history[j] \in DOMAIN transitions
               PROVE  history[i] \in DOMAIN transitions \/ history[i + 1] \in fullyOpaque'
    BY <1>1 DEF NoGaps
  <2>1. history[i] \in DOMAIN transitions \/ history[i + 1] \in fullyOpaque
    BY <1>1 DEF IInv, NoGaps
  <2>2. history[i + 1] # history[historyIndex + 1]
    BY <1>1, <1>2 DEF IInv, EntriesDiffer
  <2>. QED  BY <1>1, <2>1, <2>2
<1>. QED  BY <1>3, <1>4, <1>6, <1>7, <1>8, <1>9, <1>10, <1>11 DEF IInv

-----------------------------------------------------------------------------

LEMMA StartFrameKeeps ==
    ASSUME IInv, StartFrame
    PROVE  IInv'
<1>1. /\ ~navigator_dirty /\ due = {}
      /\ due' = {e \in DOMAIN transitions : transitions[e].ticking}
      /\ elapsed' \in 1 .. FullProgress
      /\ UNCHANGED <<history, historyIndex, fullyOpaque, transitions, navigator_dirty,
                     pops_in_frames>>
  BY DEF StartFrame, InFrame
<1>2. TypeOK
  BY DEF IInv
<1>3. TypeOK'
  <2>1. elapsed' \in 0 .. FullProgress
    BY <1>1
  <2>2. due' \subseteq DOMAIN transitions
    BY <1>1
  <2>. QED  BY <1>1, <1>2, <2>1, <2>2 DEF TypeOK
<1>4. \A e : OnStack(e)' <=> OnStack(e)
  BY <1>1 DEF OnStack
<1>5. /\ EntriesDiffer' /\ FirstRouteStands' /\ OnlyPoppedGoBack' /\ ForwardAreOnTheStack'
      /\ TickingAreInHistory' /\ ForwardTicksToTheEnd' /\ PoppedAreNotOpaque'
  <2>1. EntriesDiffer' /\ FirstRouteStands' /\ ForwardTicksToTheEnd' /\ PoppedAreNotOpaque'
    BY <1>1 DEF IInv, EntriesDiffer, FirstRouteStands, ForwardTicksToTheEnd, PoppedAreNotOpaque
  <2>2. OnlyPoppedGoBack' /\ ForwardAreOnTheStack'
    BY <1>1, <1>4 DEF IInv, OnlyPoppedGoBack, ForwardAreOnTheStack
  <2>3. TickingAreInHistory'
    BY <1>1 DEF IInv, TickingAreInHistory
  <2>. QED  BY <2>1, <2>2, <2>3
<1>10. ~(FullProgress + elapsed' < FullProgress)
  <2>1. \A n \in Nat : ~(FullProgress + n < FullProgress)
    OBVIOUS
  <2>2. elapsed' \in Nat
    BY <1>1
  <2>. QED  BY <2>1, <2>2, Zenon
(* What goes forward by the same number of steps stays ahead. *)
<1>6. ASSUME NEW e \in DOMAIN transitions, transitions[e].direction = Forward
      PROVE  /\ WillBe(e) = transitions[e].progress
             /\ WillBeFresh(e) <=> transitions[e].fresh
             /\ ~WillBeFresh(e)'
             /\ transitions[e].fresh => WillBe(e)' = WillBe(e)
             /\ ~transitions[e].fresh =>
                    WillBe(e)' = IF WillBe(e) + elapsed' < FullProgress
                                 THEN WillBe(e) + elapsed' ELSE FullProgress
  <2> DEFINE t == transitions[e]
  <2>1. /\ t.progress \in 0 .. FullProgress
        /\ t.ticking <=> t.progress # FullProgress
        /\ t.fresh => t.progress = 0
    BY <1>2, <1>6 DEF IInv, ForwardTicksToTheEnd, TypeOK, Transitions
  <2>2. WillBe(e) = t.progress /\ (WillBeFresh(e) <=> t.fresh)
    BY <1>1 DEF WillBe, WillBeFresh
  <2>3. CASE t.ticking
    <3>1. e \in due' /\ transitions'[e] = t
      BY <1>1, <2>3
    <3>2. WillBe(e)' = IF t.fresh THEN t.progress
                       ELSE IF t.progress + elapsed' < FullProgress
                            THEN t.progress + elapsed' ELSE FullProgress
      BY <1>6, <3>1 DEF WillBe, Progressed
    <3>. QED  BY <2>2, <3>1, <3>2 DEF WillBeFresh
  <2>4. CASE ~t.ticking
    <3>1. e \notin due' /\ transitions'[e] = t /\ t.progress = FullProgress /\ ~t.fresh
      BY <1>1, <2>1, <2>4
    <3>2. WillBe(e)' = FullProgress /\ ~WillBeFresh(e)'
      BY <3>1 DEF WillBe, WillBeFresh
    <3>3. ~(t.progress + elapsed' < FullProgress)
      BY <1>10, <3>1
    <3>. QED  BY <2>2, <3>1, <3>2, <3>3
  <2>. QED  BY <2>3, <2>4
<1>7. LowerIsAhead'
  <2> SUFFICES ASSUME NEW e \in DOMAIN transitions, NEW f \in DOMAIN transitions, Below(e, f),
                      transitions[f].direction = Forward
               PROVE  /\ transitions[e].direction = Forward
                      /\ WillBe(e)' >= WillBe(f)'
                      /\ WillBeFresh(e)' => WillBeFresh(f)'
    BY <1>1 DEF LowerIsAhead, Below
  <2>1. /\ transitions[e].direction = Forward
        /\ WillBe(e) >= WillBe(f)
        /\ WillBeFresh(e) => WillBeFresh(f)
    BY DEF IInv, LowerIsAhead
  <2>2. WillBe(e) \in 0 .. FullProgress /\ WillBe(f) \in 0 .. FullProgress
    BY <1>2, <1>6, <2>1 DEF TypeOK, Transitions
  <2>3. WillBe(e)' >= WillBe(f)'
    <3>1. CASE transitions[e].fresh
      BY <1>6, <2>1, <2>2, <3>1
    <3>2. CASE ~transitions[e].fresh /\ transitions[f].fresh
      BY <1>1, <1>6, <2>1, <2>2, <3>2
    <3>3. CASE ~transitions[e].fresh /\ ~transitions[f].fresh
      BY <1>1, <1>6, <2>1, <2>2, <3>3
    <3>. QED  BY <3>1, <3>2, <3>3
  <2>. QED  BY <1>6, <2>1, <2>3
<1>8. CoveredArrive'
  <2> SUFFICES ASSUME NEW e \in DOMAIN transitions, NEW f \in fullyOpaque, RightBelow(e, f)
               PROVE  transitions[e].direction = Forward /\ WillBe(e)' = FullProgress
    BY <1>1 DEF CoveredArrive, RightBelow
  <2>1. transitions[e].direction = Forward /\ WillBe(e) = FullProgress
    BY DEF IInv, CoveredArrive
  <2>2. ~transitions[e].fresh
    BY <1>6, <2>1 DEF IInv, ForwardTicksToTheEnd
  <2>3. ~(FullProgress + elapsed' < FullProgress)
    BY <1>10
  <2>. QED  BY <1>6, <2>1, <2>2, <2>3
<1>9. NoGaps'
  BY <1>1 DEF IInv, NoGaps
<1>. QED  BY <1>3, <1>5, <1>7, <1>8, <1>9 DEF IInv

-----------------------------------------------------------------------------

LEMMA StartedIsTyped ==
    ASSUME NEW t \in Transitions, NEW d \in {Forward, Backward}
    PROVE  /\ Started(t, d) \in Transitions
           /\ Started(t, d).direction = d
           /\ Started(t, d).progress = t.progress
           /\ Started(t, d).fresh
           /\ Started(t, d).ticking <=> t.progress # Target(d)
  BY DEF Started, Transitions

LEMMA NewIsTyped ==
    ASSUME NEW d \in {Forward, Backward}
    PROVE  /\ NewTransition(d) \in Transitions
           /\ NewTransition(d).direction = d
           /\ d = Forward => /\ NewTransition(d).progress = 0
                             /\ NewTransition(d).fresh
                             /\ NewTransition(d).ticking
<1> DEFINE t == [direction |-> d, progress |-> FullProgress - Target(d), ticking |-> FALSE,
                 fresh |-> TRUE, dismissed |-> FALSE, completed |-> FALSE]
<1>1. FullProgress - Target(d) \in 0 .. FullProgress
  BY DEF Target, Forward, Backward
<1>2. t \in Transitions
  BY <1>1 DEF Transitions
<1>3. d = Forward => t.progress = 0 /\ t.progress # Target(d)
  BY DEF Target
<1> HIDE DEF t
<1>4. NewTransition(d) = Started(t, d)
  BY DEF NewTransition, t
<1>. QED  BY <1>2, <1>3, <1>4, StartedIsTyped

(* What the build makes of a transition: nothing new, if it goes on forward. *)
LEMMA SyncedTransitions ==
    ASSUME IInv, NEW e \in Entries
    PROVE  /\ Synced(e) \in Transitions
           /\ Synced(e).direction = Forward <=> OnStack(e)
           /\ OnStack(e) /\ e \in DOMAIN transitions =>
                  transitions[e].direction = Forward /\ Synced(e) = transitions[e]
           /\ OnStack(e) /\ e \notin DOMAIN transitions =>
                  Synced(e).progress = 0 /\ Synced(e).fresh /\ Synced(e).ticking
<1>1. DirectionOf(e) = IF OnStack(e) THEN Forward ELSE Backward
  BY DEF DirectionOf, OnStack
<1>2. DirectionOf(e) \in {Forward, Backward} /\ Forward # Backward
  BY <1>1 DEF Forward, Backward
<1>3. CASE e \notin DOMAIN transitions
  BY <1>1, <1>2, <1>3, NewIsTyped DEF Synced
<1>4. CASE e \in DOMAIN transitions
  <2>1. transitions[e] \in Transitions /\ transitions[e].direction \in {Forward, Backward}
    BY <1>4 DEF IInv, TypeOK, Transitions
  <2>2. OnStack(e) => transitions[e].direction = Forward
    BY <1>4, <2>1 DEF IInv, OnlyPoppedGoBack
  <2>3. CASE transitions[e].direction = DirectionOf(e)
    BY <1>1, <1>2, <1>4, <2>1, <2>2, <2>3 DEF Synced
  <2>4. CASE transitions[e].direction # DirectionOf(e)
    <3>1. Synced(e) = Started(transitions[e], DirectionOf(e))
      BY <1>4, <2>4 DEF Synced
    <3>2. ~OnStack(e)
      BY <1>1, <2>2, <2>4
    <3>. QED  BY <1>1, <1>2, <1>4, <2>1, <3>1, <3>2, StartedIsTyped
  <2>. QED  BY <2>3, <2>4
<1>. QED  BY <1>3, <1>4

LEMMA BuildKeeps ==
    ASSUME IInv, BuildNavigator
    PROVE  IInv'
<1>1. /\ due = {}
      /\ transitions' = [e \in Shown |-> Synced(e)]
      /\ UNCHANGED <<history, historyIndex, fullyOpaque, due, elapsed, pops_in_frames>>
      /\ navigator_dirty' = FALSE
  BY DEF BuildNavigator, InFrame
<1>2. TypeOK /\ EntriesDiffer
  BY DEF IInv
<1>3. /\ DOMAIN history = 1 .. Len(history) /\ Len(history) \in Nat
      /\ historyIndex + 1 \in 1 .. Len(history)
      /\ \A i \in 1 .. Len(history) : history[i] \in Entries /\ history[i] \in ToSet(history)
  BY <1>2, HistoryIsTyped
<1>4. \A i \in 1 .. Len(history) :
          history[i] \in Shown <=> /\ i # 1
                                   /\ i < Len(history) => history[i + 1] \notin fullyOpaque
                                   /\ history[i].route # RouteState
  BY <1>2, <1>3 DEF Shown, EntriesDiffer
<1>5. \A e \in Shown : e \in Entries /\ \E i \in 1 .. Len(history) : history[i] = e
  BY <1>3 DEF Shown
<1>6. /\ DOMAIN transitions' = Shown
      /\ \A e \in Shown : transitions'[e] = Synced(e)
  BY <1>1
<1>7. \A e : OnStack(e)' <=> OnStack(e)
  BY <1>1 DEF OnStack
<1>8. TypeOK'
  <2>1. transitions' \in [Shown -> Transitions]
    BY <1>1, <1>5, SyncedTransitions
  <2>2. Shown \subseteq Entries
    BY <1>5
  <2>3. due' \subseteq DOMAIN transitions'
    BY <1>1
  <2>. QED  BY <1>1, <1>2, <1>6, <2>1, <2>2, <2>3 DEF TypeOK
<1>9. EntriesDiffer' /\ PoppedAreNotOpaque'
  BY <1>1 DEF IInv, EntriesDiffer, PoppedAreNotOpaque
<1>10. FirstRouteStands'
  <2>1. \A e \in Shown : e.object # 0 /\ e.route # RouteState
    BY <1>3, <1>4, <1>5 DEF IInv, FirstRouteStands
  <2>. QED  BY <1>1, <1>6, <2>1 DEF IInv, FirstRouteStands
<1>11. OnlyPoppedGoBack' /\ ForwardAreOnTheStack'
  <2>1. Forward # Backward
    BY DEF Forward, Backward
  <2>2. \A e \in Shown : transitions'[e].direction = Forward <=> OnStack(e)
    BY <1>5, <1>6, SyncedTransitions
  <2>. QED  BY <1>6, <1>7, <2>1, <2>2 DEF OnlyPoppedGoBack, ForwardAreOnTheStack
<1>12. TickingAreInHistory'
  BY <1>1, <1>3, <1>5, <1>6 DEF TickingAreInHistory
<1>13. ForwardTicksToTheEnd'
  <2> SUFFICES ASSUME NEW e \in Shown, Synced(e).direction = Forward
               PROVE  /\ Synced(e).ticking <=> Synced(e).progress # FullProgress
                      /\ Synced(e).fresh => Synced(e).progress = 0
    BY <1>6 DEF ForwardTicksToTheEnd
  <2>1. OnStack(e)
    BY <1>5, SyncedTransitions
  <2>2. CASE e \in DOMAIN transitions
    BY <1>5, <2>1, <2>2, SyncedTransitions DEF IInv, ForwardTicksToTheEnd
  <2>3. CASE e \notin DOMAIN transitions
    BY <1>5, <2>1, <2>3, SyncedTransitions
  <2>. QED  BY <2>2, <2>3
<1>14. \A e \in Shown : WillBe(e)' = Synced(e).progress /\ (WillBeFresh(e)' <=> Synced(e).fresh)
  BY <1>1, <1>6 DEF WillBe, WillBeFresh
<1>15. LowerIsAhead'
  <2> SUFFICES ASSUME NEW e \in Shown, NEW f \in Shown, Below(e, f),
                      Synced(f).direction = Forward
               PROVE  /\ Synced(e).direction = Forward
                      /\ Synced(e).progress >= Synced(f).progress
                      /\ Synced(e).fresh => Synced(f).fresh
    BY <1>1, <1>6, <1>14 DEF LowerIsAhead, Below
  <2>1. PICK i \in 1 .. Len(history), j \in 1 .. Len(history) :
            i < j /\ history[i] = e /\ history[j] = f
    BY <1>3 DEF Below
  <2>2. OnStack(f)
    BY <1>5, SyncedTransitions
  <2>3. j \in 1 .. historyIndex + 1 /\ i \in 1 .. historyIndex + 1
    BY <1>2, <1>3, <2>1, <2>2 DEF OnStack, EntriesDiffer
  <2>4. OnStack(e)
    BY <2>1, <2>3 DEF OnStack
  <2>5. CASE f \notin DOMAIN transitions
    <3>1. Synced(e).progress \in Nat
      BY <1>5, SyncedTransitions DEF Transitions
    <3>. QED  BY <1>5, <2>2, <2>4, <2>5, <3>1, SyncedTransitions
  <2>6. CASE f \in DOMAIN transitions
    <3>1. i # 1 /\ history[i + 1] \notin fullyOpaque /\ history[i].route # RouteState
      BY <1>3, <1>4, <2>1
    <3>2. e \in DOMAIN transitions
      BY <2>1, <2>3, <2>6, <3>1 DEF IInv, NoGaps
    <3>3. /\ Synced(e) = transitions[e] /\ transitions[e].direction = Forward
          /\ Synced(f) = transitions[f] /\ transitions[f].direction = Forward
      BY <1>5, <2>2, <2>4, <2>6, <3>2, SyncedTransitions
    <3>4. WillBe(e) >= WillBe(f) /\ (WillBeFresh(e) => WillBeFresh(f))
      BY <2>6, <3>2, <3>3 DEF IInv, LowerIsAhead
    <3>. QED  BY <1>1, <3>3, <3>4 DEF WillBe, WillBeFresh
  <2>. QED  BY <2>5, <2>6
<1>16. CoveredArrive'
  <2>1. ASSUME NEW e \in Shown, NEW f \in fullyOpaque, RightBelow(e, f)
        PROVE  FALSE
    BY <1>3, <1>4, <2>1 DEF RightBelow
  <2>. QED  BY <1>1, <1>6, <2>1 DEF CoveredArrive, RightBelow
<1>17. NoGaps'
  <2> SUFFICES ASSUME NEW i \in 1 .. historyIndex + 1, NEW j \in 1 .. historyIndex + 1,
                      1 < i, i < j, history[i].route # RouteState
               PROVE  history[i] \in Shown \/ history[i + 1] \in fullyOpaque
    BY <1>1, <1>6 DEF NoGaps
  <2>. QED  BY <1>3, <1>4
<1>. QED  BY <1>8, <1>9, <1>10, <1>11, <1>12, <1>13, <1>15, <1>16, <1>17 DEF IInv

-----------------------------------------------------------------------------

Dismisses(e) ==
    /\ ~transitions[e].dismissed
    /\ transitions[e].direction = Backward
    /\ Progressed(transitions[e]) = 0

Completes(e) ==
    /\ ~transitions[e].completed
    /\ transitions[e].direction = Forward
    /\ Progressed(transitions[e]) = FullProgress

LEMMA ProgressIsBounded ==
    ASSUME TypeOK, NEW e \in DOMAIN transitions
    PROVE  /\ transitions[e] \in Transitions
           /\ Progressed(transitions[e]) \in 0 .. FullProgress
           /\ WillBe(e) \in 0 .. FullProgress
<1> DEFINE t == transitions[e]
<1>1. t \in Transitions /\ t.progress \in 0 .. FullProgress /\ elapsed \in 0 .. FullProgress
  BY DEF TypeOK, Transitions
<1> HIDE DEF t
<1>2. Progressed(t) \in 0 .. FullProgress
  <2>1. CASE t.fresh \/ t.direction = Forward
    BY <1>1, <2>1 DEF Progressed
  <2>2. CASE ~t.fresh /\ t.direction # Forward
    BY <1>1, <2>2 DEF Progressed
  <2>. QED  BY <2>1, <2>2
<1>. QED  BY <1>1, <1>2 DEF WillBe, t

(* A tick brings one transition to where it was to be, and leaves the others alone. *)
LEMMA TickTicks ==
    ASSUME TypeOK, NEW e \in due, TickTransition(e)
    PROVE  /\ due' = due \ {e}
           /\ DOMAIN transitions' = DOMAIN transitions
           /\ \A x \in DOMAIN transitions : x # e => transitions'[x] = transitions[x]
           /\ transitions'[e] \in Transitions
           /\ transitions'[e].direction = transitions[e].direction
           /\ transitions'[e].progress = Progressed(transitions[e])
           /\ transitions'[e].ticking <=>
                  Progressed(transitions[e]) # Target(transitions[e].direction)
           /\ ~transitions'[e].fresh
           /\ due' # {} => elapsed' = elapsed
           /\ elapsed' \in 0 .. FullProgress
           /\ UNCHANGED <<historyIndex, pops_in_frames>>
<1>1. e \in DOMAIN transitions
  BY DEF TypeOK
<1> DEFINE t == transitions[e]
           u == [t EXCEPT !.progress = Progressed(t),
                          !.fresh = FALSE,
                          !.ticking = (Progressed(t) # Target(t.direction)),
                          !.dismissed = t.dismissed \/ Dismisses(e),
                          !.completed = t.completed \/ Completes(e)]
<1>2. transitions' = [transitions EXCEPT ![e] = u]
  BY DEF TickTransition, Dismisses, Completes
<1>3. t \in Transitions /\ Progressed(t) \in 0 .. FullProgress
  BY <1>1, ProgressIsBounded
<1>4. /\ u \in Transitions
      /\ u.direction = t.direction
      /\ u.progress = Progressed(t)
      /\ u.ticking <=> Progressed(t) # Target(t.direction)
      /\ ~u.fresh
  BY <1>3 DEF Transitions
<1> HIDE DEF u
<1>5. transitions'[e] = u /\ DOMAIN transitions' = DOMAIN transitions
  BY <1>1, <1>2 DEF TypeOK
<1>6. \A x \in DOMAIN transitions : x # e => transitions'[x] = transitions[x]
  BY <1>1, <1>2 DEF TypeOK
<1>7. /\ due' = due \ {e}
      /\ elapsed' = IF due' = {} THEN 0 ELSE elapsed
      /\ UNCHANGED <<historyIndex, pops_in_frames>>
  BY DEF TickTransition
<1>8. elapsed' \in 0 .. FullProgress
  BY <1>7 DEF TypeOK
<1>. QED  BY <1>4, <1>5, <1>6, <1>7, <1>8

LEMMA TickBringsAbout ==
    ASSUME TypeOK, NEW e \in due, TickTransition(e)
    PROVE  /\ \A x \in DOMAIN transitions : transitions'[x].direction = transitions[x].direction
           /\ \A x \in DOMAIN transitions : WillBe(x)' = WillBe(x)
           /\ \A x \in DOMAIN transitions : WillBeFresh(x)' <=> WillBeFresh(x)
           /\ transitions' \in [DOMAIN transitions -> Transitions]
<1>1. e \in DOMAIN transitions
  BY DEF TypeOK
<1>2. ASSUME NEW x \in DOMAIN transitions, x # e
      PROVE  /\ transitions'[x].direction = transitions[x].direction
             /\ WillBe(x)' = WillBe(x)
             /\ WillBeFresh(x)' <=> WillBeFresh(x)
  <2>1. transitions'[x] = transitions[x] /\ (x \in due' <=> x \in due)
    BY <1>2, TickTicks
  <2>2. x \in due => elapsed' = elapsed
    BY <2>1, TickTicks
  <2>. QED  BY <2>1, <2>2 DEF WillBe, WillBeFresh, Progressed
<1>3. WillBe(e)' = WillBe(e) /\ (WillBeFresh(e)' <=> WillBeFresh(e))
  <2>1. e \notin due'
    BY TickTicks
  <2>. QED  BY <2>1, TickTicks DEF WillBe, WillBeFresh
<1>4. transitions' \in [DOMAIN transitions -> Transitions]
  <2>1. transitions' = [x \in DOMAIN transitions |-> transitions'[x]]
    BY DEF TickTransition, TypeOK
  <2>2. \A x \in DOMAIN transitions : transitions'[x] \in Transitions
    BY TickTicks DEF TypeOK
  <2>. QED  BY <2>1, <2>2
<1>. QED  BY <1>1, <1>2, <1>3, <1>4, TickTicks

LEMMA TickKeeps ==
    ASSUME IInv, NEW e \in due, TickTransition(e)
    PROVE  /\ IInv'
           /\ \A i \in 1 .. historyIndex + 1 : history'[i] = history[i]
<1>1. TypeOK /\ EntriesDiffer
  BY DEF IInv
<1>2. /\ DOMAIN history = 1 .. Len(history) /\ Len(history) \in Nat
      /\ historyIndex \in Nat /\ historyIndex + 1 \in 1 .. Len(history)
      /\ \A i \in 1 .. Len(history) : history[i] \in Entries /\ history[i] \in ToSet(history)
  BY <1>1, HistoryIsTyped DEF TypeOK
<1>3. /\ e \in DOMAIN transitions
      /\ transitions[e].direction \in {Forward, Backward}
      /\ Forward # Backward
      /\ InFrame
  BY <1>1 DEF TypeOK, Transitions, Forward, Backward, InFrame
<1>4. PICK k \in 1 .. Len(history) : history[k] = e
  <2>1. e \in ToSet(history)
    BY <1>3 DEF IInv, TickingAreInHistory
  <2>. QED  BY <1>1, <2>1, HistoryIsTyped
<1>5. /\ fullyOpaque' = IF Dismisses(e) THEN fullyOpaque \ {e}
                        ELSE IF Completes(e) /\ e.route = OpaqueRoute THEN fullyOpaque \cup {e}
                        ELSE fullyOpaque
      /\ navigator_dirty' = (navigator_dirty \/ Dismisses(e) \/ Completes(e))
      /\ history' = IF Dismisses(e) THEN RemoveFirst(history, e) ELSE history
  BY DEF TickTransition, Dismisses, Completes, RemoveEntry
<1>6. Dismisses(e) => ~OnStack(e) /\ k \in historyIndex + 2 .. Len(history) /\ ~Completes(e)
  <2>1. Dismisses(e) => ~OnStack(e) /\ ~Completes(e)
    BY <1>3 DEF IInv, OnlyPoppedGoBack, Dismisses, Completes
  <2>2. ~OnStack(e) => k \in historyIndex + 2 .. Len(history)
    BY <1>2, <1>4 DEF OnStack
  <2>. QED  BY <2>1, <2>2
(* Entries keep their order; the stack keeps its entries and their places. *)
<1> DEFINE old(i) == IF Dismisses(e) /\ ~(i < k) THEN i + 1 ELSE i
<1>7. /\ history' \in Seq(Entries)
      /\ Len(history') = IF Dismisses(e) THEN Len(history) - 1 ELSE Len(history)
      /\ \A i \in 1 .. Len(history') : history'[i] = history[old(i)]
  <2>1. CASE Dismisses(e)
    <3>1. history' \in Seq(Entries) /\ Removes(history, k, history')
      BY <1>1, <1>2, <1>4, <1>5, <2>1, RemoveFirstRemoves DEF TypeOK, EntriesDiffer
    <3>. QED  BY <2>1, <3>1 DEF Removes
  <2>2. CASE ~Dismisses(e)
    BY <1>1, <1>5, <2>2 DEF TypeOK
  <2>. QED  BY <2>1, <2>2
<1>8. DOMAIN history' = 1 .. Len(history') /\ Len(history') \in Nat
  BY <1>7
<1>9. Len(history') = IF Dismisses(e) THEN Len(history) - 1 ELSE Len(history)
  BY <1>7
<1>10. k \in 1 .. Len(history) /\ (Dismisses(e) => historyIndex + 2 <= k)
  BY <1>2, <1>6
<1>11. ASSUME NEW i \in 1 .. Len(history')
       PROVE  old(i) \in 1 .. Len(history) /\ (Dismisses(e) => old(i) # k)
  <2>1. CASE Dismisses(e)
    BY <1>2, <1>9, <2>1
  <2>2. CASE ~Dismisses(e)
    BY <1>2, <1>9, <2>2
  <2>. QED  BY <2>1, <2>2
<1>12. ASSUME NEW i \in 1 .. Len(history'), NEW j \in 1 .. Len(history'), i < j
       PROVE  old(i) < old(j)
  <2>1. i \in Int /\ j \in Int
    BY <1>8
  <2>. QED  BY <1>12, <2>1
<1>13. /\ DOMAIN history' = 1 .. Len(history') /\ Len(history') \in Nat
       /\ \A i \in 1 .. Len(history') : old(i) \in 1 .. Len(history)
       /\ \A i \in 1 .. Len(history') : Dismisses(e) => old(i) # k
       /\ \A i, j \in 1 .. Len(history') : i < j => old(i) < old(j)
  BY <1>8, <1>11, <1>12
<1>14. historyIndex + 1 \in 1 .. Len(history')
  <2>1. CASE Dismisses(e)
    BY <1>2, <1>9, <1>10, <2>1
  <2>2. CASE ~Dismisses(e)
    BY <1>2, <1>9, <2>2
  <2>. QED  BY <2>1, <2>2
<1>15. ASSUME NEW i \in 1 .. historyIndex + 1
       PROVE  i \in 1 .. Len(history') /\ old(i) = i
  <2>1. i \in 1 .. Len(history')
    BY <1>2, <1>8, <1>14
  <2>2. Dismisses(e) => i < k
    BY <1>2, <1>10
  <2>. QED  BY <2>1, <2>2
<1>16. /\ historyIndex + 1 \in 1 .. Len(history')
       /\ \A i \in 1 .. historyIndex + 1 : i \in 1 .. Len(history') /\ old(i) = i
  BY <1>14, <1>15
<1>17. \A i \in 1 .. historyIndex + 1 : history'[i] = history[i]
  BY <1>7, <1>16
<1>18. \A x \in ToSet(history) : ~Dismisses(e) \/ x # e => x \in ToSet(history')
  <2> SUFFICES ASSUME NEW i \in 1 .. Len(history), ~Dismisses(e) \/ history[i] # e
               PROVE  history[i] \in ToSet(history')
    BY <1>1, HistoryIsTyped
  <2>1. ~Dismisses(e) \/ i # k
    BY <1>4
  <2> DEFINE new == IF Dismisses(e) /\ i > k THEN i - 1 ELSE i
  <2>2. new \in 1 .. Len(history') /\ old(new) = i
    <3>1. CASE Dismisses(e)
      BY <1>2, <1>9, <2>1, <3>1
    <3>2. CASE ~Dismisses(e)
      BY <1>2, <1>9, <3>2
    <3>. QED  BY <3>1, <3>2
  <2>. QED  BY <1>7, <1>13, <2>2 DEF ToSet
<1> HIDE DEF old
<1>19. UNCHANGED <<historyIndex, pops_in_frames>> /\ due' = due \ {e}
       /\ DOMAIN transitions' = DOMAIN transitions
  BY <1>1, TickTicks
<1>20. \A x : OnStack(x)' <=> OnStack(x)
  BY <1>17, <1>19 DEF OnStack
<1>21. TypeOK'
  <2>1. fullyOpaque' \subseteq ToSet(history')
    BY <1>1, <1>2, <1>4, <1>5, <1>18 DEF TypeOK
  <2>2. transitions' \in [DOMAIN transitions' -> Transitions]
    BY <1>1, <1>19, TickBringsAbout
  <2>3. historyIndex' \in Nat /\ historyIndex' < Len(history')
    BY <1>2, <1>13, <1>16, <1>19
  <2>4. navigator_dirty' \in BOOLEAN
    BY <1>5
  <2>5. elapsed' \in 0 .. FullProgress
    BY <1>1, TickTicks
  <2>. QED  BY <1>1, <1>7, <1>19, <2>1, <2>2, <2>3, <2>4, <2>5 DEF TypeOK
<1>22. EntriesDiffer'
  <2> SUFFICES ASSUME NEW i \in 1 .. Len(history'), NEW j \in 1 .. Len(history'),
                      history'[i] = history'[j]
               PROVE  i = j
    BY <1>13 DEF EntriesDiffer
  <2>1. old(i) = old(j)
    BY <1>1, <1>2, <1>7, <1>13 DEF EntriesDiffer
  <2>2. ~(i < j) /\ ~(j < i)
    <3>1. old(i) \in Int /\ old(j) \in Int
      BY <1>13
    <3>. QED  BY <1>13, <2>1, <3>1
  <2>. QED  BY <2>2
<1>23. FirstRouteStands'
  <2>1. ASSUME NEW i \in 1 .. Len(history') PROVE history'[i].object = 0 <=> i = 1
    <3>1. history[old(i)].object = 0 <=> old(i) = 1
      BY <1>2, <1>13 DEF IInv, FirstRouteStands
    <3>2. old(i) = 1 <=> i = 1
      BY <1>2, <1>6 DEF old
    <3>. QED  BY <1>7, <3>1, <3>2
  <2>. QED  BY <1>13, <1>19, <2>1 DEF IInv, FirstRouteStands
<1>24. OnlyPoppedGoBack'
  BY <1>1, <1>19, <1>20, TickBringsAbout DEF IInv, OnlyPoppedGoBack
<1>25. ForwardAreOnTheStack'
  <2>1. ~navigator_dirty' => ~navigator_dirty
    BY <1>5
  <2>. QED  BY <1>1, <1>3, <1>19, <1>20, <2>1, TickBringsAbout
            DEF IInv, ForwardAreOnTheStack, InFrame
<1>26. TickingAreInHistory'
  <2>1. ASSUME NEW x \in DOMAIN transitions, x # e
        PROVE  /\ x \in due' => transitions'[x].ticking
               /\ transitions'[x].ticking => x \in ToSet(history')
    BY <1>1, <1>18, <1>19, <2>1, TickTicks DEF IInv, TickingAreInHistory
  <2>2. transitions'[e].ticking => e \in ToSet(history')
    <3>1. Dismisses(e) => ~transitions'[e].ticking
      BY <1>1, <1>3, TickTicks DEF Dismisses, Target
    <3>. QED  BY <1>2, <1>4, <1>18, <3>1
  <2>. QED  BY <1>19, <2>1, <2>2 DEF TickingAreInHistory
<1>27. ForwardTicksToTheEnd'
  <2>1. ASSUME NEW x \in DOMAIN transitions, x # e, transitions'[x].direction = Forward
        PROVE  /\ transitions'[x].ticking <=> transitions'[x].progress # FullProgress
               /\ transitions'[x].fresh => transitions'[x].progress = 0
    BY <1>1, <2>1, TickTicks DEF IInv, ForwardTicksToTheEnd
  <2>2. transitions'[e].direction = Forward =>
               /\ transitions'[e].ticking <=> transitions'[e].progress # FullProgress
               /\ ~transitions'[e].fresh
    BY <1>1, TickTicks DEF Target
  <2>. QED  BY <1>19, <2>1, <2>2 DEF ForwardTicksToTheEnd
<1>28. PoppedAreNotOpaque'
  <2> SUFFICES ASSUME ~pops_in_frames, NEW i \in historyIndex + 2 .. Len(history')
               PROVE  history'[i] \notin fullyOpaque'
    BY <1>19 DEF PoppedAreNotOpaque
  <2>0. i \in 1 .. Len(history')
    BY <1>2, <1>8
  <2>1. /\ old(i) \in historyIndex + 2 .. Len(history)
        /\ history'[i] = history[old(i)]
    <3>1. old(i) \in 1 .. Len(history) /\ history'[i] = history[old(i)]
      BY <1>7, <1>13, <2>0
    <3>2. old(i) >= i
      BY <1>8, <2>0 DEF old
    <3>. QED  BY <1>2, <3>1, <3>2
  <2>2. history[old(i)] \notin fullyOpaque
    BY <2>1 DEF IInv, PoppedAreNotOpaque
  <2>3. Completes(e) => history[old(i)] # e
    <3>1. Completes(e) => OnStack(e)
      BY <1>3 DEF IInv, ForwardAreOnTheStack, Completes
    <3>2. OnStack(e) => history[old(i)] # e
      BY <1>1, <1>2, <2>1 DEF OnStack, EntriesDiffer
    <3>. QED  BY <3>1, <3>2
  <2>. QED  BY <1>5, <2>1, <2>2, <2>3
<1>29. \A x, y : Below(x, y)' => Below(x, y)
  BY <1>2, <1>7, <1>13 DEF Below
<1>30. LowerIsAhead'
  <2> SUFFICES ASSUME NEW x \in DOMAIN transitions, NEW y \in DOMAIN transitions, Below(x, y),
                      transitions[y].direction = Forward
               PROVE  /\ transitions'[x].direction = Forward
                      /\ WillBe(x)' >= WillBe(y)'
                      /\ WillBeFresh(x)' => WillBeFresh(y)'
    BY <1>1, <1>19, <1>29, TickBringsAbout DEF LowerIsAhead
  <2>. QED  BY <1>1, TickBringsAbout DEF IInv, LowerIsAhead
<1>31. CoveredArrive'
  <2> SUFFICES ASSUME NEW x \in DOMAIN transitions, NEW y \in fullyOpaque', RightBelow(x, y)'
               PROVE  transitions[x].direction = Forward /\ WillBe(x) = FullProgress
    BY <1>1, <1>19, TickBringsAbout DEF CoveredArrive
  <2>1. PICK i \in 1 .. Len(history') - 1 : history'[i] = x /\ history'[i + 1] = y
    BY DEF RightBelow
  <2>2. /\ i \in 1 .. Len(history') /\ i + 1 \in 1 .. Len(history')
        /\ history[old(i)] = x /\ history[old(i + 1)] = y
    BY <1>7, <1>13, <2>1
  <2>3. CASE Dismisses(e) /\ old(i + 1) # old(i) + 1
    <3>1. k \in 1 .. Len(history) - 1 /\ history[k + 1] = y
      BY <1>2, <1>4, <1>7, <1>13, <2>2, <2>3 DEF old
    <3>2. RightBelow(e, y) /\ y \in fullyOpaque
      BY <1>4, <1>5, <2>3, <3>1 DEF RightBelow
    <3>3. transitions[e].direction = Forward
      BY <1>3, <3>2 DEF IInv, CoveredArrive
    <3>. QED  BY <1>3, <2>3, <3>3 DEF Dismisses
  <2>4. CASE ~Dismisses(e) \/ old(i + 1) = old(i) + 1
    <3>1. RightBelow(x, y) /\ Below(x, y)
      <4>1. old(i + 1) = old(i) + 1
        BY <2>1, <2>4 DEF old
      <4>2. old(i) \in 1 .. Len(history) - 1 /\ old(i) + 1 \in 1 .. Len(history)
        BY <1>2, <1>13, <2>2, <4>1
      <4>3. RightBelow(x, y)
        BY <2>2, <4>1, <4>2 DEF RightBelow
      <4>4. Below(x, y)
        <5>1. old(i) < old(i) + 1 /\ old(i) \in 1 .. Len(history)
          BY <4>2
        <5>. QED  BY <1>2, <2>2, <4>1, <4>2, <5>1 DEF Below
      <4>. QED  BY <4>3, <4>4
    <3>2. CASE y \in fullyOpaque
      BY <3>1, <3>2 DEF IInv, CoveredArrive
    <3>3. CASE y \notin fullyOpaque
      <4>1. y = e /\ Completes(e)
        BY <1>5, <3>3
      <4>2. WillBe(e) = FullProgress /\ transitions[e].direction = Forward
        BY <4>1 DEF Completes, WillBe
      <4>3. transitions[x].direction = Forward /\ WillBe(x) >= FullProgress
        BY <1>3, <3>1, <4>1, <4>2 DEF IInv, LowerIsAhead
      <4>4. WillBe(x) \in 0 .. FullProgress
        BY <1>1, ProgressIsBounded
      <4>. QED  BY <4>3, <4>4
    <3>. QED  BY <3>2, <3>3
  <2>. QED  BY <2>3, <2>4
<1>32. NoGaps'
  <2> SUFFICES ASSUME NEW i \in 1 .. historyIndex + 1, NEW j \in 1 .. historyIndex + 1,
                      1 < i, i < j, history[i].route # RouteState,
                      history[j] \in DOMAIN transitions
               PROVE  history[i] \in DOMAIN transitions \/ history[i + 1] \in fullyOpaque'
    <3>1. \A i \in 1 .. historyIndex + 1 : \A j \in 1 .. historyIndex + 1 :
              1 < i /\ i < j => i + 1 \in 1 .. historyIndex + 1
      BY <1>2
    <3>. QED  BY <1>17, <1>19, <3>1 DEF NoGaps
  <2>1. history[i] \in DOMAIN transitions \/ history[i + 1] \in fullyOpaque
    BY DEF IInv, NoGaps
  <2>2. OnStack(history[i + 1])
    BY <1>2 DEF OnStack
  <2>. QED  BY <1>5, <1>6, <2>1, <2>2
<1>. QED  BY <1>17, <1>21, <1>22, <1>23, <1>24, <1>25, <1>26, <1>27, <1>28, <1>30, <1>31, <1>32
          DEF IInv

-----------------------------------------------------------------------------

LEMMA InitEstablishes == NavigatorInit => IInv
<1> SUFFICES ASSUME NavigatorInit PROVE IInv
  OBVIOUS
<1> DEFINE first == Entry(0, OpaqueRoute)
<1>1. /\ history = <<first>> /\ Len(history) = 1 /\ history[1] = first /\ DOMAIN history = 1 .. 1
      /\ first \in Entries /\ first.object = 0
  BY DEF NavigatorInit, Entry, Entries, Routes
<1>2. /\ historyIndex = 0 /\ fullyOpaque = {} /\ DOMAIN transitions = {} /\ due = {} /\ elapsed = 0
      /\ transitions = [e \in {} |-> <<>>]
      /\ navigator_dirty = FALSE /\ pops_in_frames \in BOOLEAN
  BY DEF NavigatorInit
<1> HIDE DEF first
<1>3. TypeOK
  <2>1. transitions \in [DOMAIN transitions -> Transitions]
    BY <1>2
  <2>2. history \in Seq(Entries)
    BY <1>1
  <2>3. 0 \in 0 .. FullProgress
    OBVIOUS
  <2>4. historyIndex \in Nat /\ historyIndex < Len(history)
    BY <1>1, <1>2
  <2>5. fullyOpaque \subseteq ToSet(history) /\ DOMAIN transitions \subseteq Entries
    BY <1>2
  <2>6. /\ navigator_dirty \in BOOLEAN /\ due \subseteq DOMAIN transitions
        /\ elapsed \in 0 .. FullProgress /\ pops_in_frames \in BOOLEAN
    BY <1>2, <2>3
  <2>. QED  BY <2>1, <2>2, <2>4, <2>5, <2>6, Zenon DEF TypeOK
<1>4. EntriesDiffer /\ FirstRouteStands /\ PoppedAreNotOpaque /\ NoGaps
  BY <1>1, <1>2 DEF EntriesDiffer, FirstRouteStands, PoppedAreNotOpaque, NoGaps
<1>5. /\ OnlyPoppedGoBack /\ ForwardAreOnTheStack /\ TickingAreInHistory /\ ForwardTicksToTheEnd
      /\ LowerIsAhead /\ CoveredArrive
  BY <1>2 DEF OnlyPoppedGoBack, ForwardAreOnTheStack, TickingAreInHistory,
              ForwardTicksToTheEnd, LowerIsAhead, CoveredArrive
<1>. QED  BY <1>3, <1>4, <1>5 DEF IInv

LEMMA StutterKeeps ==
    ASSUME IInv, UNCHANGED navigator_vars
    PROVE  IInv'
<1>1. /\ UNCHANGED <<history, historyIndex, fullyOpaque, transitions>>
      /\ UNCHANGED <<navigator_dirty, due, elapsed, pops_in_frames>>
  BY DEF navigator_vars
<1>2. \A x : (OnStack(x)' <=> OnStack(x))
  BY <1>1 DEF OnStack
<1>3. \A x, y : (Below(x, y)' <=> Below(x, y)) /\ (RightBelow(x, y)' <=> RightBelow(x, y))
  BY <1>1 DEF Below, RightBelow
<1>4. TypeOK' /\ EntriesDiffer' /\ FirstRouteStands'
  BY <1>1 DEF IInv, TypeOK, EntriesDiffer, FirstRouteStands
<1>5. OnlyPoppedGoBack' /\ ForwardAreOnTheStack' /\ TickingAreInHistory' /\ ForwardTicksToTheEnd'
  BY <1>1, <1>2 DEF IInv, OnlyPoppedGoBack, ForwardAreOnTheStack, InFrame, TickingAreInHistory,
                    ForwardTicksToTheEnd
<1>6. PoppedAreNotOpaque' /\ NoGaps'
  BY <1>1 DEF IInv, PoppedAreNotOpaque, NoGaps
<1>7. LowerIsAhead' /\ CoveredArrive'
  BY <1>1, <1>3, TransitionsStay DEF IInv, LowerIsAhead, CoveredArrive
<1>. QED  BY <1>4, <1>5, <1>6, <1>7 DEF IInv

LEMMA StepPreserves == IInv /\ [NavigatorNext]_navigator_vars => IInv'
  BY PushKeeps, PopKeeps, BuildKeeps, StartFrameKeeps, TickKeeps, StutterKeeps
  DEF NavigatorNext, Frame

-----------------------------------------------------------------------------
(* The stack *)

StackIsPrefix ==
    /\ back_stack \in Seq(Entries)
    /\ Len(back_stack) = historyIndex + 1
    /\ \A i \in 1 .. historyIndex + 1 : back_stack[i] = history[i]

LEMMA StackIs == TypeOK => StackIsPrefix
<1> SUFFICES ASSUME TypeOK PROVE StackIsPrefix
  OBVIOUS
<1>1. historyIndex + 1 \in 1 .. Len(history) /\ 1 \in 1 .. Len(history) + 1
  BY DEF TypeOK
<1>. QED  BY <1>1, SubSeqProperties DEF TypeOK, back_stack, StackIsPrefix

LEMMA FrontIs ==
    ASSUME NEW S, NEW s \in Seq(S), Len(s) > 0
    PROVE  /\ Front(s) \in Seq(S)
           /\ Len(Front(s)) = Len(s) - 1
           /\ \A i \in 1 .. Len(s) - 1 : Front(s)[i] = s[i]
<1> DEFINE n == Len(s) - 1
<1>1. n \in Nat /\ n < Len(s)
  OBVIOUS
<1>2. \A i \in 1 .. n : s[i] \in S
  BY <1>1
<1> HIDE DEF n
<1>3. n - 1 + 1 = n /\ (n = IF 1 <= n THEN n - 1 + 1 ELSE 0)
  BY <1>1
<1>4. \A i \in 1 .. n : 1 + i - 1 = i
  BY <1>1
<1>5. /\ SubSeq(s, 1, n) \in Seq(S)
      /\ Len(SubSeq(s, 1, n)) = n
      /\ \A i \in 1 .. n : SubSeq(s, 1, n)[i] = s[i]
  BY <1>1, <1>2, <1>3, <1>4, SubSeqProperties
<1>. QED  BY <1>5 DEF Front, n

StackStep ==
    \/ back_stack' = back_stack
    \/ Front(back_stack') = back_stack /\ Last(back_stack') \notin ToSet(history)
    \/ back_stack' = Front(back_stack)

LEMMA StepsKeepAStack ==
    ASSUME IInv, [NavigatorNext]_navigator_vars
    PROVE  StackStep \/ UNCHANGED navigator_vars
<1>1. TypeOK /\ TypeOK'
  BY StepPreserves DEF IInv
<1>2. /\ back_stack \in Seq(Entries) /\ Len(back_stack) = historyIndex + 1
      /\ \A i \in 1 .. historyIndex + 1 : back_stack[i] = history[i]
      /\ historyIndex \in Nat
  BY <1>1, StackIs DEF TypeOK, StackIsPrefix
<1>3. /\ back_stack' \in Seq(Entries) /\ Len(back_stack') = historyIndex' + 1
      /\ \A i \in 1 .. historyIndex' + 1 : back_stack'[i] = history'[i]
  <2>1. TypeOK' => StackIsPrefix'
    BY StackIs, PTL
  <2>. QED  BY <1>1, <2>1 DEF StackIsPrefix
<1>4. ASSUME NEW route \in Routes, Push(route) PROVE StackStep
  <2>1. PICK n \in Entries : /\ n \notin ToSet(history)
                             /\ Inserts(history, historyIndex + 2, n, history')
    BY <1>1, <1>4, PushInserts
  <2>2. historyIndex' = historyIndex + 1 /\ historyIndex + 1 \in 1 .. Len(history)
    BY <1>1, <1>4 DEF Push, TypeOK
  <2>3. \A i \in 1 .. historyIndex + 1 : history'[i] = history[i]
    BY <1>2, <2>1, <2>2 DEF Inserts
  <2>4. history'[historyIndex + 2] = n
    BY <1>2, <2>1, <2>2 DEF Inserts
  <2>5. /\ Front(back_stack') \in Seq(Entries) /\ Len(Front(back_stack')) = historyIndex + 1
        /\ \A i \in 1 .. historyIndex + 1 : Front(back_stack')[i] = history[i]
    BY <1>2, <1>3, <2>2, <2>3, FrontIs
  <2>6. Front(back_stack') = back_stack
    BY <1>2, <2>5, SeqEqual
  <2>7. Last(back_stack') = n
    BY <1>2, <1>3, <2>2, <2>4 DEF Last
  <2>. QED  BY <2>1, <2>6, <2>7 DEF StackStep
<1>5. CASE Pop
  <2>1. historyIndex > 0 /\ historyIndex' = historyIndex - 1 /\ history' = history
    BY <1>5 DEF Pop
  <2>2. /\ Front(back_stack) \in Seq(Entries) /\ Len(Front(back_stack)) = historyIndex
        /\ \A i \in 1 .. historyIndex : Front(back_stack)[i] = history[i]
    BY <1>2, FrontIs
  <2>3. /\ Len(back_stack') = historyIndex
        /\ \A i \in 1 .. historyIndex : back_stack'[i] = history[i]
    BY <1>2, <1>3, <2>1
  <2>4. back_stack' = Front(back_stack)
    BY <1>3, <2>2, <2>3, SeqEqual
  <2>. QED  BY <2>4 DEF StackStep
<1>6. CASE BuildNavigator \/ StartFrame
  BY <1>6 DEF BuildNavigator, StartFrame, back_stack, StackStep
<1>7. ASSUME NEW e \in due, TickTransition(e) PROVE StackStep
  <2>1. /\ \A i \in 1 .. historyIndex + 1 : history'[i] = history[i]
        /\ historyIndex' = historyIndex
    BY <1>7, TickKeeps DEF TickTransition
  <2>2. back_stack' = back_stack
    BY <1>2, <1>3, <2>1, SeqEqual
  <2>. QED  BY <2>2 DEF StackStep
<1>. QED  BY <1>4, <1>5, <1>6, <1>7 DEF NavigatorNext, Frame

(***************************************************************************)
(* However many pages are pushed and popped, and in whatever order their   *)
(* transitions end, the entries up to NavigationState.historyIndex are a   *)
(* stack: push puts a new one on top, and onDismissed removes none of them.*)
(***************************************************************************)
THEOREM PagesStack == NavigatorSpec => PagesAreAStack
<1>1. IInv /\ [NavigatorNext]_navigator_vars => [StackStep]_navigator_vars
  BY StepsKeepAStack
<1>2. NavigatorSpec => [][StackStep]_navigator_vars
  BY <1>1, InitEstablishes, StepPreserves, PTL DEF NavigatorSpec
<1>. QED  BY <1>2 DEF PagesAreAStack, StackStep

(***************************************************************************)
(* Whichever pages are in the history, those that Navigator.build leaves   *)
(* out are covered by an opaque one, and their transitions have ended; and *)
(* it leaves out none that is on its way out, unless the program pops      *)
(* pages from frame callbacks.                                             *)
(***************************************************************************)
THEOREM CoveredPagesRest == NavigatorSpec => []OnlyCoveredPagesAreLeftOut
<1>1. ASSUME IInv PROVE OnlyCoveredPagesAreLeftOut
  <2>1. ~pops_in_frames =>
            \A i \in historyIndex + 2 .. Len(history) : history[i] \notin fullyOpaque
    BY <1>1 DEF IInv, PoppedAreNotOpaque
  <2>2. ASSUME ~InFrame, NEW e \in DOMAIN transitions \ Shown PROVE ~transitions[e].ticking
    <3>1. CASE e \notin ToSet(history)
      BY <1>1, <3>1 DEF IInv, TickingAreInHistory
    <3>2. CASE e \in ToSet(history)
      <4>1. PICK i \in 1 .. Len(history) : history[i] = e
        BY <1>1, <3>2, HistoryIsTyped DEF IInv
      <4>2. e.object # 0 /\ e.route # RouteState
        BY <1>1 DEF IInv, FirstRouteStands
      <4>3. i # 1
        BY <1>1, <4>1, <4>2, HistoryIsTyped DEF IInv, FirstRouteStands
      <4>4. i < Len(history) /\ history[i + 1] \in fullyOpaque
        BY <1>1, <2>2, <4>1, <4>2, <4>3, HistoryIsTyped DEF IInv, Shown
      <4>5. RightBelow(e, history[i + 1])
        BY <1>1, <4>1, <4>4, HistoryIsTyped DEF IInv, RightBelow
      <4>6. transitions[e].direction = Forward /\ WillBe(e) = FullProgress
        BY <1>1, <4>4, <4>5 DEF IInv, CoveredArrive
      <4>7. transitions[e].progress = FullProgress
        BY <2>2, <4>6 DEF WillBe, InFrame
      <4>. QED  BY <1>1, <4>6, <4>7 DEF IInv, ForwardTicksToTheEnd
    <3>. QED  BY <3>1, <3>2
  <2>. QED  BY <2>1, <2>2 DEF OnlyCoveredPagesAreLeftOut
<1>. QED  BY <1>1, InitEstablishes, StepPreserves, PTL DEF NavigatorSpec
=============================================================================
