------------------------- MODULE CaptureTableProofs -------------------------
(***************************************************************************)
(* Proofs about CaptureTable, for every size of the log, of the trims, of  *)
(* the container and of the overscan, every set of kinds of event and      *)
(* every number of events.                                                 *)
(***************************************************************************)
EXTENDS CaptureTable, SequenceTheorems, FiniteSetTheorems, WellFoundedInduction, TLAPS

-----------------------------------------------------------------------------
(* Induction.                                                              *)

(* The library's induction takes the property as an operator; this one     *)
(* takes the set of its numbers, and a smallest number missing from it is  *)
(* had from the finite sets 0..k, which inclusion orders well.             *)
LEMMA Smallest ==
  ASSUME NEW T \in SUBSET Nat, NEW n \in T
  PROVE  \E x \in T : x <= n /\ \A y \in T : x <= y
<1> DEFINE S == 0..n
           R == StrictSubsetOrdering(S)
           Upto == {k \in T : k <= n}
           I == {0..k : k \in Upto}
<1>1. IsWellFoundedOn(R, SUBSET S)
  <2>1. IsFiniteSet(S)
    BY FS_Interval
  <2> HIDE DEF S
  <2> QED
    BY <2>1, FS_StrictSubsetOrderingWellFounded, FS_FiniteSubsetsOfFinite
<1>2. I \subseteq SUBSET S /\ I # {}
  <2>1. n \in Nat /\ n \in Upto
    OBVIOUS
  <2>2. ASSUME NEW k \in Upto PROVE 0..k \subseteq 0..n
    BY <2>1
  <2> QED
    BY <2>1, <2>2
<1>3. \E X \in I : \A Y \in I : ~(<<Y, X>> \in R)
  <2> HIDE DEF S, R, I
  <2> QED
    BY <1>1, <1>2, WFMin
<1>4. PICK x \in Upto : \A Y \in I : ~(<<Y, 0..x>> \in R)
  BY <1>3
<1>5. ASSUME NEW y \in T, y < x PROVE FALSE
  <2>1. y \in Nat /\ x \in Nat /\ x <= n /\ y \in Upto
    BY <1>5
  <2>2. 0..y \in I
    BY <2>1
  <2>3. 0..y \subseteq 0..x /\ 0..y # 0..x
    <3>1. x \in 0..x /\ x \notin 0..y
      BY <2>1, <1>5
    <3>2. 0..y \subseteq 0..x
      BY <2>1, <1>5
    <3> QED
      BY <3>1, <3>2
  <2>4. 0..x \subseteq S
    BY <2>1
  <2>5. <<0..y, 0..x>> \in R
    BY <2>3, <2>4 DEF StrictSubsetOrdering
  <2> QED
    BY <2>2, <2>5, <1>4
<1> QED
  BY <1>4, <1>5

LEMMA Induction ==
  ASSUME NEW N \in Nat, NEW T, 0 \in T, \A n \in 0..(N - 1) : n \in T => n + 1 \in T
  PROVE  \A n \in 0..N : n \in T
<1> SUFFICES ASSUME NEW n \in 0..N, n \notin T PROVE FALSE
  OBVIOUS
<1> DEFINE Missing == {k \in 0..N : k \notin T}
<1>1. Missing \subseteq Nat /\ n \in Missing
  OBVIOUS
<1>2. PICK x \in Missing : \A y \in Missing : x <= y
  <2> HIDE DEF Missing
  <2> QED
    BY <1>1, Smallest
<1>3. x # 0 /\ x \in 0..N
  BY <1>2
<1>4. x - 1 \in 0..(N - 1) /\ x - 1 \in T
  BY <1>2, <1>3
<1> QED
  BY <1>2, <1>3, <1>4

-----------------------------------------------------------------------------
(* The events that pass a filter.                                          *)

(* The loop over the events, up to the i-th of them.                       *)
NextPassing(events, conditions, f, i) ==
  IF i = 0 THEN <<>>
  ELSE IF Matches(events[i], conditions) THEN Append(f[i - 1], events[i]) ELSE f[i - 1]

LEMMA LoopExists ==
  ASSUME NEW s \in Seq(Event), NEW c
  PROVE  \E f : f = [i \in 0..Len(s) |-> NextPassing(s, c, f, i)]
<1> DEFINE N == Len(s)
           T == {n \in 0..N : \E f : f = [i \in 0..n |-> NextPassing(s, c, f, i)]}
<1>1. 0 \in T
  <2>1. [i \in 0..0 |-> <<>>] = [i \in 0..0 |-> NextPassing(s, c, [j \in 0..0 |-> <<>>], i)]
    BY DEF NextPassing
  <2> QED
    BY <2>1
<1>2. ASSUME NEW n \in 0..(N - 1), n \in T PROVE n + 1 \in T
  <2>1. PICK f : f = [i \in 0..n |-> NextPassing(s, c, f, i)]
    BY <1>2
  <2> DEFINE g == [i \in 0..(n + 1) |-> IF i = n + 1 THEN NextPassing(s, c, f, i) ELSE f[i]]
  <2>2. ASSUME NEW i \in 0..(n + 1) PROVE g[i] = NextPassing(s, c, g, i)
    <3>1. i # 0 => i - 1 \in 0..n /\ g[i - 1] = f[i - 1]
      OBVIOUS
    <3>2. NextPassing(s, c, g, i) = NextPassing(s, c, f, i)
      BY <3>1 DEF NextPassing
    <3>3. i # n + 1 => i \in 0..n
      OBVIOUS
    <3> QED
      BY <2>1, <3>2, <3>3
  <2>3. g = [i \in 0..(n + 1) |-> NextPassing(s, c, g, i)]
    <3>1. g = [i \in 0..(n + 1) |-> g[i]]
      OBVIOUS
    <3> HIDE DEF g
    <3> QED
      BY <2>2, <3>1
  <2>4. \E h : h = [i \in 0..(n + 1) |-> NextPassing(s, c, h, i)]
    <3> HIDE DEF g
    <3> QED
      BY <2>3
  <2>5. n + 1 \in 0..N
    OBVIOUS
  <2> QED
    BY <2>4, <2>5
<1>3. N \in Nat /\ N \in 0..N
  OBVIOUS
<1>4. N \in T
  <2> HIDE DEF T, N
  <2> QED
    BY <1>1, <1>2, <1>3, Induction
<1> QED
  BY <1>4

(* The loop's results, in a form that needs no recursion: loop[i] is what  *)
(* the first i events leave.                                               *)
IsLoop(loop, s, c) ==
  /\ loop[0] = <<>>
  /\ \A i \in 1..Len(s) :
       loop[i] = IF Matches(s[i], c) THEN Append(loop[i - 1], s[i]) ELSE loop[i - 1]

LEMMA PassingLoop ==
  ASSUME NEW s \in Seq(Event), NEW c
  PROVE  \E loop : IsLoop(loop, s, c) /\ Passing(s, c) = loop[Len(s)]
<1>1. PICK f : f = [i \in 0..Len(s) |-> NextPassing(s, c, f, i)] /\ Passing(s, c) = f[Len(s)]
  BY LoopExists, Zenon DEF Passing, NextPassing
<1>2. f[0] = <<>>
  BY <1>1 DEF NextPassing
<1>3. ASSUME NEW i \in 1..Len(s)
      PROVE  f[i] = IF Matches(s[i], c) THEN Append(f[i - 1], s[i]) ELSE f[i - 1]
  <2>1. i \in 0..Len(s) /\ i # 0
    OBVIOUS
  <2>2. f[i] = NextPassing(s, c, f, i)
    BY <1>1, <2>1
  <2> QED
    BY <2>1, <2>2 DEF NextPassing
<1> QED
  BY <1>1, <1>2, <1>3 DEF IsLoop

LEMMA LoopType ==
  ASSUME NEW s \in Seq(Event), NEW c, NEW loop, IsLoop(loop, s, c)
  PROVE  \A n \in 0..Len(s) : loop[n] \in Seq(Event)
<1> DEFINE N == Len(s)
           T == {n \in 0..N : loop[n] \in Seq(Event)}
<1>1. 0 \in T
  <2>1. 0 \in 0..N /\ <<>> \in Seq(Event)
    OBVIOUS
  <2> QED
    BY <2>1 DEF IsLoop
<1>2. ASSUME NEW n \in 0..(N - 1), n \in T PROVE n + 1 \in T
  <2>1. n + 1 \in 0..N /\ n + 1 \in 1..N /\ (n + 1) - 1 = n
    OBVIOUS
  <2>2. loop[n + 1] = IF Matches(s[n + 1], c) THEN Append(loop[n], s[n + 1]) ELSE loop[n]
    BY <2>1 DEF IsLoop
  <2>3. loop[n] \in Seq(Event) /\ s[n + 1] \in Event
    BY <1>2, <2>1
  <2>4. Append(loop[n], s[n + 1]) \in Seq(Event)
    BY <2>3
  <2> QED
    BY <2>1, <2>2, <2>3, <2>4
<1>3. N \in Nat
  OBVIOUS
<1>4. \A n \in 0..N : n \in T
  <2> HIDE DEF T, N
  <2> QED
    BY <1>1, <1>2, <1>3, Induction
<1> QED
  BY <1>4

LEMMA PassingType ==
  ASSUME NEW s \in Seq(Event), NEW c PROVE Passing(s, c) \in Seq(Event)
<1>1. PICK loop : IsLoop(loop, s, c) /\ Passing(s, c) = loop[Len(s)]
  BY PassingLoop
<1>2. Len(s) \in 0..Len(s)
  OBVIOUS
<1> QED
  BY <1>1, <1>2, LoopType

(* Without conditions everything passes: apply may return its argument.    *)
LEMMA PassingAll ==
  ASSUME NEW s \in Seq(Event) PROVE Passing(s, {}) = s
<1>1. PICK loop : IsLoop(loop, s, {}) /\ Passing(s, {}) = loop[Len(s)]
  BY PassingLoop
<1> DEFINE N == Len(s)
           T == {n \in 0..N : loop[n] = SubSeq(s, 1, n)}
<1>2. 0 \in T
  <2>1. 0 \in 0..N /\ SubSeq(s, 1, 0) = <<>>
    OBVIOUS
  <2> QED
    BY <1>1, <2>1 DEF IsLoop
<1>3. ASSUME NEW n \in 0..(N - 1), n \in T PROVE n + 1 \in T
  <2>1. n + 1 \in 0..N /\ n + 1 \in 1..N /\ (n + 1) - 1 = n
    OBVIOUS
  <2>2. loop[n + 1] = Append(SubSeq(s, 1, n), s[n + 1])
    BY <1>1, <1>3, <2>1 DEF IsLoop, Matches
  <2>3. SubSeq(s, 1, n + 1) = Append(SubSeq(s, 1, n), s[n + 1])
    BY <2>1
  <2> QED
    BY <2>1, <2>2, <2>3
<1>4. N \in Nat /\ N \in 0..N
  OBVIOUS
<1>5. N \in T
  <2> HIDE DEF T, N
  <2> QED
    BY <1>2, <1>3, <1>4, Induction
<1>6. SubSeq(s, 1, Len(s)) = s
  OBVIOUS
<1> QED
  BY <1>1, <1>5, <1>6

LEMMA AppendToConcat ==
  ASSUME NEW s \in Seq(Event), NEW t \in Seq(Event), NEW e \in Event
  PROVE  Append(s \o t, e) = s \o Append(t, e)
<1>1. /\ Append(s \o t, e) \in Seq(Event) /\ s \o Append(t, e) \in Seq(Event)
      /\ Len(Append(s \o t, e)) = Len(s \o Append(t, e))
  OBVIOUS
<1>2. ASSUME NEW i \in 1..Len(s \o Append(t, e))
      PROVE  Append(s \o t, e)[i] = (s \o Append(t, e))[i]
  OBVIOUS
<1> QED
  BY <1>1, <1>2, SeqEqual

(* Filtering two stretches of events one after the other filters them both.*)
LEMMA PassingConcat ==
  ASSUME NEW s \in Seq(Event), NEW t \in Seq(Event), NEW c
  PROVE  Passing(s \o t, c) = Passing(s, c) \o Passing(t, c)
<1> DEFINE L == Len(s)
           M == Len(t)
<1>1. PICK f : IsLoop(f, s, c) /\ Passing(s, c) = f[L]
  BY PassingLoop
<1>2. PICK g : IsLoop(g, t, c) /\ Passing(t, c) = g[M]
  BY PassingLoop
<1>3. s \o t \in Seq(Event) /\ Len(s \o t) = L + M /\ L \in Nat /\ M \in Nat
  OBVIOUS
<1>4. PICK h : IsLoop(h, s \o t, c) /\ Passing(s \o t, c) = h[L + M]
  BY <1>3, PassingLoop
<1>5. /\ \A i \in 1..L : (s \o t)[i] = s[i]
      /\ \A i \in 1..M : (s \o t)[L + i] = t[i]
  OBVIOUS
<1>6. /\ \A n \in 0..L : f[n] \in Seq(Event)
      /\ \A n \in 0..M : g[n] \in Seq(Event)
  BY <1>1, <1>2, LoopType
<1>7. h[L] = f[L]
  <2> DEFINE T == {n \in 0..L : h[n] = f[n]}
  <2>1. 0 \in T
    BY <1>1, <1>3, <1>4 DEF IsLoop
  <2>2. ASSUME NEW n \in 0..(L - 1), n \in T PROVE n + 1 \in T
    <3>1. n + 1 \in 0..L /\ n + 1 \in 1..L /\ n + 1 \in 1..(L + M) /\ (n + 1) - 1 = n
      BY <1>3
    <3>2. f[n + 1] = IF Matches(s[n + 1], c) THEN Append(f[n], s[n + 1]) ELSE f[n]
      BY <1>1, <3>1 DEF IsLoop
    <3>3. h[n + 1] = IF Matches((s \o t)[n + 1], c) THEN Append(h[n], (s \o t)[n + 1]) ELSE h[n]
      BY <1>3, <1>4, <3>1 DEF IsLoop
    <3>4. h[n] = f[n] /\ (s \o t)[n + 1] = s[n + 1]
      BY <1>5, <2>2, <3>1
    <3> QED
      BY <3>1, <3>2, <3>3, <3>4
  <2>3. L \in 0..L
    BY <1>3
  <2>4. L \in T
    <3> HIDE DEF T, L
    <3> QED
      BY <1>3, <2>1, <2>2, <2>3, Induction
  <2> QED
    BY <2>4
<1>8. h[L + M] = f[L] \o g[M]
  <2> DEFINE T == {n \in 0..M : h[L + n] = f[L] \o g[n]}
  <2>1. 0 \in T
    <3>1. g[0] = <<>> /\ L + 0 = L /\ 0 \in 0..M /\ L \in 0..L
      BY <1>2, <1>3 DEF IsLoop
    <3>2. f[L] \o <<>> = f[L]
      BY <1>6, <3>1
    <3> QED
      BY <1>7, <3>1, <3>2
  <2>2. ASSUME NEW n \in 0..(M - 1), n \in T PROVE n + 1 \in T
    <3>1. /\ n + 1 \in 0..M /\ n + 1 \in 1..M /\ (n + 1) - 1 = n /\ n \in 0..M /\ L \in 0..L
          /\ L + (n + 1) \in 1..(L + M) /\ (L + (n + 1)) - 1 = L + n
      BY <1>3
    <3>2. g[n + 1] = IF Matches(t[n + 1], c) THEN Append(g[n], t[n + 1]) ELSE g[n]
      BY <1>2, <3>1 DEF IsLoop
    <3>3. h[L + (n + 1)] = IF Matches((s \o t)[L + (n + 1)], c)
                           THEN Append(h[L + n], (s \o t)[L + (n + 1)]) ELSE h[L + n]
      BY <1>3, <1>4, <3>1 DEF IsLoop
    <3>4. h[L + n] = f[L] \o g[n] /\ (s \o t)[L + (n + 1)] = t[n + 1]
      BY <1>5, <2>2, <3>1
    <3>5. f[L] \in Seq(Event) /\ g[n] \in Seq(Event) /\ t[n + 1] \in Event
      BY <1>6, <3>1
    <3>6. Append(f[L] \o g[n], t[n + 1]) = f[L] \o Append(g[n], t[n + 1])
      BY <3>5, AppendToConcat
    <3> QED
      BY <3>1, <3>2, <3>3, <3>4, <3>6
  <2>3. M \in 0..M
    BY <1>3
  <2>4. M \in T
    <3> HIDE DEF T, M
    <3> QED
      BY <1>3, <2>1, <2>2, <2>3, Induction
  <2> QED
    BY <2>4
<1> QED
  BY <1>1, <1>2, <1>4, <1>8

-----------------------------------------------------------------------------
(* Scrolling and drawing.                                                  *)

LEMMA MaxOfTwo ==
  ASSUME NEW a \in Int, NEW b \in Int
  PROVE  Max({a, b}) = IF a >= b THEN a ELSE b
BY DEF Max

LEMMA MinOfTwo ==
  ASSUME NEW a \in Int, NEW b \in Int
  PROVE  Min({a, b}) = IF a <= b THEN a ELSE b
BY DEF Min

(* Where the viewport may be over n rows: at the top, or full.             *)
InView(top, n) == top \in Nat /\ (top = 0 \/ top + Height <= n)

LEMMA ClampInView ==
  ASSUME NEW top \in Int, NEW n \in Nat PROVE InView(Clamp(top, n), n)
<1>1. Height \in Nat
  BY TableAssumption
<1>2. Min({top, n - Height}) = IF top <= n - Height THEN top ELSE n - Height
  BY <1>1, MinOfTwo
<1>3. Min({top, n - Height}) \in Int
  BY <1>1, <1>2
<1>4. Clamp(top, n) = IF 0 >= Min({top, n - Height}) THEN 0 ELSE Min({top, n - Height})
  BY <1>3, MaxOfTwo DEF Clamp
<1> QED
  BY <1>1, <1>2, <1>3, <1>4 DEF InView

(* The rows to draw are rows of the view, and those in the viewport are    *)
(* among them.                                                             *)
LEMMA RowBounds ==
  ASSUME NEW top \in Nat, NEW n \in Nat
  PROVE  /\ FirstRow(top) \in Nat \ {0} /\ LastRow(top, n) \in Nat /\ LastRow(top, n) <= n
         /\ \A i \in 1..n : i \in top + 1..top + Height => i \in FirstRow(top)..LastRow(top, n)
<1>1. Height \in Nat /\ Overscan \in Nat
  BY TableAssumption
<1>2. FirstRow(top) = IF 1 >= top - Overscan + 1 THEN 1 ELSE top - Overscan + 1
  BY <1>1, MaxOfTwo DEF FirstRow
<1>3. LastRow(top, n) = IF top + Height + Overscan + 1 <= n THEN top + Height + Overscan + 1 ELSE n
  BY <1>1, MinOfTwo DEF LastRow
<1> QED
  BY <1>1, <1>2, <1>3

(* The rows are those of _renderedRange.                                   *)
Drawn(drawn, range) == range = NoRange \/ DOMAIN drawn = range[1]..range[2]

(* The row drawn for an index of a view.                                   *)
TrueRow(view, i, sel) == [event |-> view[i], selected |-> i = sel]

(* A rendering draws the range, keeps the rows already there, and covers   *)
(* the viewport.                                                           *)
LEMMA RenderDraws ==
  ASSUME NEW view \in Seq(Event), NEW top \in Nat, NEW sel, NEW drawn, NEW range,
         Drawn(drawn, range), Render(view, top, sel, drawn, range)
  PROVE  /\ Drawn(rows, renderedRange)'
         /\ \A i \in DOMAIN rows' :
              /\ i \in 1..Len(view)
              /\ rows'[i] = IF i \in DOMAIN drawn THEN drawn[i]
                            ELSE TrueRow(view, i, sel)
         /\ \A i \in 1..Len(view) : i \in top + 1..top + Height => i \in DOMAIN rows'
<1> DEFINE a == FirstRow(top)
           b == LastRow(top, Len(view))
<1>0. Len(view) \in Nat
  OBVIOUS
<1>1. /\ a \in Nat \ {0} /\ b \in Nat /\ b <= Len(view) /\ Len(view) \in Nat
      /\ \A i \in 1..Len(view) : i \in top + 1..top + Height => i \in a..b
  BY <1>0, RowBounds
<1>2. /\ renderedRange' = <<a, b>>
      /\ rows' = IF <<a, b>> = range THEN drawn
                 ELSE [i \in a..b |-> IF i \in DOMAIN drawn THEN drawn[i]
                                      ELSE TrueRow(view, i, sel)]
  BY DEF Render, TrueRow
<1> HIDE DEF a, b
<1>3. /\ DOMAIN rows' = a..b
      /\ \A i \in a..b : rows'[i] = IF i \in DOMAIN drawn THEN drawn[i]
                                    ELSE TrueRow(view, i, sel)
  <2>1. CASE <<a, b>> = range
    <3>1. range # NoRange /\ range[1] = a /\ range[2] = b
      BY <1>1, <2>1 DEF NoRange
    <3>2. DOMAIN drawn = a..b /\ rows' = drawn
      BY <1>2, <2>1, <3>1 DEF Drawn
    <3> QED
      BY <3>2
  <2>2. CASE <<a, b>> # range
    BY <1>2, <2>2
  <2> QED
    BY <2>1, <2>2
<1>4. Drawn(rows, renderedRange)'
  BY <1>2, <1>3 DEF Drawn
<1>5. \A i \in a..b : i \in 1..Len(view)
  BY <1>1
<1> QED
  BY <1>1, <1>3, <1>4, <1>5

-----------------------------------------------------------------------------
(* The steps.                                                              *)

(* Types; the rows are those of _renderedRange; the view and the log are   *)
(* one array only without conditions.                                      *)
TableInv ==
  /\ TableTypeOK
  /\ Drawn(rows, renderedRange)
  /\ viewIsLog => filterConditions = {}

LEMMA DropSplits ==
  ASSUME NEW s \in Seq(Event), NEW k \in Nat
  PROVE  Drop(s, k) \in Seq(Event) /\ \E front \in Seq(Event) : s = front \o Drop(s, k)
<1>1. CASE k <= Len(s)
  <2>1. SubSeq(s, 1, k) \in Seq(Event) /\ SubSeq(s, k + 1, Len(s)) \in Seq(Event)
    BY <1>1
  <2>2. 1 \in 1..Len(s) + 1 /\ k \in 1 - 1..Len(s) /\ Len(s) \in k..Len(s)
    BY <1>1
  <2>3. SubSeq(s, 1, k) \o SubSeq(s, k + 1, Len(s)) = SubSeq(s, 1, Len(s))
    BY <2>2, ConcatAdjacentSubSeq, Zenon
  <2>4. SubSeq(s, 1, Len(s)) = s
    OBVIOUS
  <2> QED
    BY <2>1, <2>3, <2>4, Zenon DEF Drop
<1>2. CASE k > Len(s)
  <2>1. SubSeq(s, k + 1, Len(s)) = <<>> /\ <<>> \in Seq(Event) /\ s = s \o <<>>
    BY <1>2
  <2> QED
    BY <2>1 DEF Drop
<1>3. k <= Len(s) \/ k > Len(s)
  OBVIOUS
<1> QED
  BY <1>1, <1>2, <1>3, Zenon

(* addEvent and addEvents, whichever trim they make.                       *)
Adding(trimmed, new) ==
  /\ trimmed \in Seq(Event) /\ \E front \in Seq(Event) : allEvents = front \o trimmed
  /\ new \in Seq(Event) /\ new # <<>> /\ received + Len(new) <= MaxReceived
  /\ Push(trimmed, new)

LEMMA NewAreEvents ==
  ASSUME NEW n \in Nat \ {0}, NEW new \in NewEvents(n)
  PROVE  new \in Seq(Event) /\ Len(new) = n /\ new # <<>>
<1>1. new \in [1..n -> Event]
  BY DEF NewEvents
<1>2. new \in Seq(Event) /\ Len(new) = n
  BY <1>1
<1>3. Len(<<>>) = 0
  OBVIOUS
<1> QED
  BY <1>2, <1>3

LEMMA AddsEvents ==
  ASSUME TableTypeOK, AddEvent \/ AddEvents
  PROVE  \E trimmed, new : Adding(trimmed, new)
<1>1. /\ allEvents \in Seq(Event) /\ Len(allEvents) \in Nat /\ received \in Nat
      /\ MaxEvents \in Nat /\ TrimCount \in Nat /\ MaxReceived \in Nat
  BY TableAssumption DEF TableTypeOK
<1>2. CASE AddEvent
  <2>1. PICK new \in NewEvents(1) : Push(TrimForOne, new) /\ received < MaxReceived
    BY <1>2 DEF AddEvent
  <2>2. new \in Seq(Event) /\ Len(new) = 1 /\ new # <<>>
    <3>1. 1 \in Nat \ {0}
      OBVIOUS
    <3> QED
      BY <3>1, NewAreEvents, Zenon
  <2>3. TrimForOne \in Seq(Event) /\ \E front \in Seq(Event) : allEvents = front \o TrimForOne
    <3>1. <<>> \in Seq(Event) /\ allEvents = <<>> \o allEvents
      BY <1>1
    <3>2. /\ Drop(allEvents, TrimCount) \in Seq(Event)
          /\ \E front \in Seq(Event) : allEvents = front \o Drop(allEvents, TrimCount)
      BY <1>1, DropSplits
    <3> QED
      BY <1>1, <3>1, <3>2 DEF TrimForOne
  <2>4. received + Len(new) <= MaxReceived
    BY <1>1, <2>1, <2>2 DEF TableTypeOK
  <2> QED
    BY <2>1, <2>2, <2>3, <2>4, Zenon DEF Adding
<1>3. CASE AddEvents
  <2>1. PICK n \in 1..MaxBatch : /\ received + n <= MaxReceived
                                /\ \E new \in NewEvents(n) : Push(TrimForBatch(n), new)
    BY <1>3 DEF AddEvents
  <2>2. PICK new \in NewEvents(n) : Push(TrimForBatch(n), new)
    BY <2>1
  <2>3. n \in Nat \ {0}
    BY DEF MaxBatch
  <2>4. new \in Seq(Event) /\ Len(new) = n /\ new # <<>>
    BY <2>3, NewAreEvents
  <2>5. Max({0, Len(allEvents) + n - MaxEvents}) \in Nat
    BY <1>1, <2>3, MaxOfTwo
  <2>6. /\ TrimForBatch(n) \in Seq(Event)
        /\ \E front \in Seq(Event) : allEvents = front \o TrimForBatch(n)
    BY <1>1, <2>5, DropSplits DEF TrimForBatch
  <2> QED
    BY <2>1, <2>2, <2>4, <2>6 DEF Adding
<1> QED
  BY <1>2, <1>3

(* The page's steps: the ways to add and the ways to select are alike.     *)
LEMMA NextSteps ==
  ASSUME TableTypeOK, Next
  PROVE  \/ \E trimmed, new : Adding(trimmed, new)
         \/ Clear
         \/ \E conditions \in Filters : SetFilter(conditions)
         \/ \E i : SelectRow(i)
         \/ UserScroll \/ OnScroll \/ ToggleAutoScroll
BY AddsEvents, Zenon DEF Next, Click, KeyDown, MoveSelection

(* A rendering of the new view, scrolled to where it may be.               *)
Redraw(sel, drawn, range) ==
  \E top : /\ InView(top, Len(filteredEvents)') /\ ScrollTo(top)
           /\ Render(filteredEvents', top, sel, drawn, range)

LEMMA PushResult ==
  ASSUME TableInv, NEW trimmed, NEW new, Adding(trimmed, new)
  PROVE  /\ received' \in 0..MaxReceived
         /\ allEvents' \in Seq(Event) /\ filteredEvents' \in Seq(Event)
         /\ ~viewIsLog => /\ allEvents' = trimmed \o new
                          /\ filteredEvents' = filteredEvents \o Passing(new, filterConditions)
         /\ viewIsLog => filteredEvents' = allEvents'
         /\ UNCHANGED <<viewIsLog, filterConditions, selectedIndex, detail, autoScroll>>
         /\ \/ filteredEvents' = filteredEvents /\ UNCHANGED scrollVars
            \/ Redraw(selectedIndex, rows, renderedRange)
<1> DEFINE passing == Passing(new, filterConditions)
<1>1. /\ allEvents \in Seq(Event) /\ filteredEvents \in Seq(Event) /\ scrollTop \in Nat
      /\ received \in 0..MaxReceived /\ viewIsLog \in BOOLEAN /\ MaxReceived \in Nat
      /\ viewIsLog => filterConditions = {}
  BY TableAssumption DEF TableInv, TableTypeOK
<1>2. /\ trimmed \in Seq(Event) /\ new \in Seq(Event) /\ new # <<>>
      /\ received + Len(new) <= MaxReceived /\ Len(new) \in Nat
  BY DEF Adding
<1>3. passing \in Seq(Event)
  BY <1>2, PassingType
<1>4. viewIsLog => passing # <<>>
  BY <1>1, <1>2, PassingAll
<1> HIDE DEF passing
<1>5. /\ allEvents' = trimmed \o new \o (IF viewIsLog THEN passing ELSE <<>>)
      /\ filteredEvents' = IF viewIsLog THEN allEvents' ELSE filteredEvents \o passing
      /\ received' = received + Len(new)
      /\ UNCHANGED <<viewIsLog, filterConditions, selectedIndex, detail, autoScroll>>
  BY Zenon DEF Adding, Push, passing
<1>6. IF passing = <<>> THEN UNCHANGED scrollVars
      ELSE \E top \in {Bottom(Len(filteredEvents)'), Clamp(scrollTop, Len(filteredEvents)')} :
             ScrollTo(top) /\ Render(filteredEvents', top, selectedIndex, rows, renderedRange)
  <2>1. CASE passing = <<>>
    BY <2>1, Zenon DEF Adding, Push, passing
  <2>2. CASE passing # <<>>
    <3>1. \E top : /\ top = (IF autoScroll THEN Bottom(Len(filteredEvents)')
                                         ELSE Clamp(scrollTop, Len(filteredEvents)'))
                   /\ ScrollTo(top) /\ Render(filteredEvents', top, selectedIndex, rows, renderedRange)
      BY <2>2, Zenon DEF Adding, Push, passing
    <3> QED
      BY <2>2, <3>1, Zenon
  <2> QED
    BY <2>1, <2>2
<1>7. /\ trimmed \o new \in Seq(Event) /\ trimmed \o new \o passing \in Seq(Event)
      /\ trimmed \o new \o <<>> = trimmed \o new
  BY <1>2, <1>3
<1>8. /\ allEvents' \in Seq(Event)
      /\ ~viewIsLog => allEvents' = trimmed \o new
  BY <1>5, <1>7, Zenon
<1>9. filteredEvents' \in Seq(Event) /\ Len(filteredEvents)' \in Nat
  BY <1>1, <1>3, <1>5, <1>8
<1>10. received' \in 0..MaxReceived
  BY <1>1, <1>2, <1>5
<1>11. CASE passing = <<>>
  <2>1. ~viewIsLog /\ UNCHANGED scrollVars
    BY <1>4, <1>6, <1>11
  <2>2. filteredEvents \o <<>> = filteredEvents
    BY <1>1
  <2>3. filteredEvents' = filteredEvents
    BY <1>5, <1>11, <2>1, <2>2
  <2> QED
    BY <1>5, <1>8, <1>9, <1>10, <1>11, <2>1, <2>3, Zenon DEF passing
<1>12. CASE passing # <<>>
  <2>1. PICK top \in {Bottom(Len(filteredEvents)'), Clamp(scrollTop, Len(filteredEvents)')} :
          ScrollTo(top) /\ Render(filteredEvents', top, selectedIndex, rows, renderedRange)
    BY <1>6, <1>12
  <2>2. InView(top, Len(filteredEvents)')
    BY <1>1, <1>9, ClampInView DEF Bottom
  <2> QED
    BY <1>5, <1>8, <1>9, <1>10, <1>12, <2>1, <2>2, Zenon DEF passing, Redraw
<1> QED
  BY <1>11, <1>12

(* What a rendering leaves: rows for the whole viewport.                   *)
LEMMA RedrawDraws ==
  ASSUME filteredEvents' \in Seq(Event), NEW sel, NEW drawn, NEW range,
         Drawn(drawn, range), Redraw(sel, drawn, range), scrollPending \in BOOLEAN
  PROVE  /\ Drawn(rows, renderedRange)'
         /\ scrollTop' \in Nat /\ (scrollTop = 0 \/ scrollTop + Height <= Len(filteredEvents))'
         /\ scrollPending' \in BOOLEAN
         /\ \A i \in DOMAIN rows' :
              /\ i \in 1..Len(filteredEvents')
              /\ rows'[i] = IF i \in DOMAIN drawn THEN drawn[i]
                            ELSE TrueRow(filteredEvents', i, sel)
         /\ VisibleRendered'
<1>1. PICK top : /\ InView(top, Len(filteredEvents)') /\ ScrollTo(top)
                 /\ Render(filteredEvents', top, sel, drawn, range)
  BY DEF Redraw
<1>2. top \in Nat /\ (top = 0 \/ top + Height <= Len(filteredEvents)') /\ scrollTop' = top
  BY <1>1 DEF InView, ScrollTo
<1>3. scrollPending' \in BOOLEAN
  <2>1. scrollPending' = (scrollPending \/ top # scrollTop)
    BY <1>1, Zenon DEF ScrollTo
  <2>2. (scrollPending \/ top # scrollTop) \in BOOLEAN
    OBVIOUS
  <2> QED
    BY <2>1, <2>2, Zenon
<1>4. /\ Drawn(rows, renderedRange)'
      /\ \A i \in DOMAIN rows' :
           /\ i \in 1..Len(filteredEvents')
           /\ rows'[i] = IF i \in DOMAIN drawn THEN drawn[i]
                         ELSE TrueRow(filteredEvents', i, sel)
      /\ \A i \in 1..Len(filteredEvents') : i \in top + 1..top + Height => i \in DOMAIN rows'
  BY <1>1, <1>2, RenderDraws, Zenon
<1>5. VisibleRendered'
  BY <1>2, <1>4 DEF VisibleRendered
<1> QED
  BY <1>2, <1>3, <1>4, <1>5

LEMMA SelectRedraws ==
  ASSUME TableInv, NEW i, SelectRow(i)
  PROVE  /\ i \in 1..Len(filteredEvents) /\ selectedIndex' = i /\ detail' = filteredEvents[i]
         /\ UNCHANGED <<received, allEvents, filteredEvents, viewIsLog, filterConditions, autoScroll>>
         /\ Drawn(Mark(rows, i), renderedRange)
         /\ Redraw(i, Mark(rows, i), renderedRange)
<1>1. /\ i \in 1..Len(filteredEvents) /\ selectedIndex' = i /\ detail' = filteredEvents[i]
      /\ UNCHANGED <<received, allEvents, filteredEvents, viewIsLog, filterConditions, autoScroll>>
  BY DEF SelectRow, dataVars
<1>2. filteredEvents \in Seq(Event) /\ scrollTop \in Nat /\ Height \in Nat
  BY TableAssumption DEF TableInv, TableTypeOK
<1> DEFINE top == Clamp(TopShowing(i), Len(filteredEvents))
<1>3. TopShowing(i) \in Int /\ Len(filteredEvents) \in Nat
  BY <1>1, <1>2 DEF TopShowing
<1>4. InView(top, Len(filteredEvents))
  BY <1>3, ClampInView
<1>5. ScrollTo(top) /\ Render(filteredEvents, top, i, Mark(rows, i), renderedRange)
  BY DEF SelectRow
<1> HIDE DEF top
<1>6. Redraw(i, Mark(rows, i), renderedRange)
  BY <1>1, <1>4, <1>5, Zenon DEF Redraw
<1>7. Drawn(rows, renderedRange) /\ DOMAIN Mark(rows, i) = DOMAIN rows
  BY DEF TableInv, Mark
<1>8. Drawn(Mark(rows, i), renderedRange)
  BY <1>7, Zenon DEF Drawn
<1> QED
  BY <1>1, <1>6, <1>8

LEMMA FilterRedraws ==
  ASSUME TableInv, NEW conditions \in Filters, SetFilter(conditions)
  PROVE  /\ filterConditions' = conditions /\ viewIsLog' = (conditions = {})
         /\ filteredEvents' = Passing(allEvents, conditions) /\ filteredEvents' \in Seq(Event)
         /\ selectedIndex' = 0
         /\ UNCHANGED <<received, allEvents, detail, autoScroll>>
         /\ Redraw(0, NoRows, NoRange)
<1>1. /\ filterConditions' = conditions /\ viewIsLog' = (conditions = {})
      /\ filteredEvents' = Passing(allEvents, conditions) /\ selectedIndex' = 0
      /\ UNCHANGED <<received, allEvents, detail, autoScroll>>
  BY Zenon DEF SetFilter, Apply
<1>2. allEvents \in Seq(Event) /\ scrollTop \in Nat
  BY DEF TableInv, TableTypeOK
<1>3. filteredEvents' \in Seq(Event) /\ Len(filteredEvents') \in Nat
  BY <1>1, <1>2, PassingType
<1> DEFINE top == Clamp(scrollTop, Len(filteredEvents'))
<1>4. InView(top, Len(filteredEvents'))
  BY <1>2, <1>3, ClampInView
<1>5. ScrollTo(top) /\ Render(filteredEvents', top, selectedIndex', NoRows, NoRange)
  BY Zenon DEF SetFilter
<1> HIDE DEF top
<1>6. Redraw(0, NoRows, NoRange)
  BY <1>1, <1>4, <1>5, Zenon DEF Redraw
<1> QED
  BY <1>1, <1>3, <1>6

-----------------------------------------------------------------------------
(* Types.                                                                  *)

LEMMA TableInvInit == Init => TableInv
<1> SUFFICES ASSUME Init PROVE TableInv
  OBVIOUS
<1>1. /\ received \in 0..MaxReceived /\ selectedIndex \in Nat /\ scrollTop = 0 /\ scrollTop \in Nat
  BY TableAssumption DEF Init
<1>2. allEvents \in Seq(Event) /\ filteredEvents \in Seq(Event)
  BY DEF Init
<1>3. viewIsLog \in BOOLEAN /\ scrollPending \in BOOLEAN /\ autoScroll \in BOOLEAN /\ ~viewIsLog
  BY Zenon DEF Init
<1>4. filterConditions \in Filters /\ detail = <<>> /\ renderedRange = NoRange
  BY DEF Init, Filters
<1> QED
  BY <1>1, <1>2, <1>3, <1>4 DEF TableInv, TableTypeOK, Drawn

LEMMA TableInvStep == TableInv /\ [Next]_vars => TableInv'
<1> SUFFICES ASSUME TableInv, [Next]_vars PROVE TableInv'
  OBVIOUS
<1>0. /\ received \in 0..MaxReceived /\ MaxReceived \in Nat
      /\ allEvents \in Seq(Event) /\ filteredEvents \in Seq(Event)
      /\ viewIsLog \in BOOLEAN /\ scrollPending \in BOOLEAN /\ autoScroll \in BOOLEAN
      /\ filterConditions \in Filters /\ selectedIndex \in Nat
      /\ detail = <<>> \/ detail \in Event
      /\ scrollTop \in Nat /\ (scrollTop = 0 \/ scrollTop + Height <= Len(filteredEvents))
      /\ Drawn(rows, renderedRange)
      /\ viewIsLog => filterConditions = {}
  BY TableAssumption DEF TableInv, TableTypeOK
<1>1. ASSUME NEW trimmed, NEW new, Adding(trimmed, new) PROVE TableInv'
  <2>1. /\ received' \in 0..MaxReceived
        /\ allEvents' \in Seq(Event) /\ filteredEvents' \in Seq(Event)
        /\ UNCHANGED <<viewIsLog, filterConditions, selectedIndex, detail, autoScroll>>
        /\ \/ filteredEvents' = filteredEvents /\ UNCHANGED scrollVars
           \/ Redraw(selectedIndex, rows, renderedRange)
    BY <1>1, PushResult
  <2>2. /\ Drawn(rows, renderedRange)' /\ scrollPending' \in BOOLEAN
        /\ scrollTop' \in Nat /\ (scrollTop = 0 \/ scrollTop + Height <= Len(filteredEvents))'
    <3>1. CASE filteredEvents' = filteredEvents /\ UNCHANGED scrollVars
      BY <1>0, <3>1, Zenon DEF scrollVars, Drawn
    <3>2. CASE Redraw(selectedIndex, rows, renderedRange)
      BY <1>0, <2>1, <3>2, RedrawDraws, Zenon
    <3> QED
      BY <2>1, <3>1, <3>2
  <2> QED
    BY <1>0, <2>1, <2>2, Zenon DEF TableInv, TableTypeOK
<1>2. CASE Clear
  <2>1. /\ received' = 0 /\ allEvents' = <<>> /\ filteredEvents' = <<>> /\ ~viewIsLog'
        /\ viewIsLog' \in BOOLEAN
        /\ selectedIndex' = 0 /\ detail' = <<>> /\ renderedRange' = NoRange
        /\ UNCHANGED <<filterConditions, autoScroll>> /\ scrollTop' = 0
        /\ scrollPending' = (scrollPending \/ 0 # scrollTop)
    BY <1>2, Zenon DEF Clear, ScrollTo
  <2>2. (scrollPending \/ 0 # scrollTop) \in BOOLEAN
    OBVIOUS
  <2>3. 0 \in 0..MaxReceived /\ 0 \in Nat /\ <<>> \in Seq(Event)
    BY <1>0
  <2> QED
    BY <1>0, <2>1, <2>2, <2>3, Zenon DEF TableInv, TableTypeOK, Drawn
<1>3. ASSUME NEW conditions \in Filters, SetFilter(conditions) PROVE TableInv'
  <2>1. /\ filterConditions' = conditions /\ viewIsLog' = (conditions = {})
        /\ filteredEvents' \in Seq(Event) /\ selectedIndex' = 0
        /\ UNCHANGED <<received, allEvents, detail, autoScroll>>
        /\ Redraw(0, NoRows, NoRange)
    BY <1>3, FilterRedraws
  <2>2. Drawn(NoRows, NoRange) /\ (conditions = {}) \in BOOLEAN /\ 0 \in Nat
    BY DEF Drawn
  <2>3. /\ Drawn(rows, renderedRange)' /\ scrollPending' \in BOOLEAN
        /\ scrollTop' \in Nat /\ (scrollTop = 0 \/ scrollTop + Height <= Len(filteredEvents))'
    BY <1>0, <2>1, <2>2, RedrawDraws, Zenon
  <2> QED
    BY <1>0, <1>3, <2>1, <2>2, <2>3, Zenon DEF TableInv, TableTypeOK
<1>4. ASSUME NEW i, SelectRow(i) PROVE TableInv'
  <2>1. /\ i \in 1..Len(filteredEvents) /\ selectedIndex' = i /\ detail' = filteredEvents[i]
        /\ UNCHANGED <<received, allEvents, filteredEvents, viewIsLog, filterConditions, autoScroll>>
        /\ Drawn(Mark(rows, i), renderedRange)
        /\ Redraw(i, Mark(rows, i), renderedRange)
    BY <1>4, SelectRedraws
  <2>2. i \in Nat /\ filteredEvents[i] \in Event /\ filteredEvents' \in Seq(Event)
    BY <1>0, <2>1
  <2>3. /\ Drawn(rows, renderedRange)' /\ scrollPending' \in BOOLEAN
        /\ scrollTop' \in Nat /\ (scrollTop = 0 \/ scrollTop + Height <= Len(filteredEvents))'
    BY <1>0, <2>1, <2>2, RedrawDraws, Zenon
  <2> QED
    BY <1>0, <2>1, <2>2, <2>3, Zenon DEF TableInv, TableTypeOK
<1>5. CASE UserScroll
  <2>1. PICK top \in 0..Bottom(Len(filteredEvents)) :
          /\ ScrollTo(top)
          /\ UNCHANGED <<dataVars, selectedIndex, detail, rows, renderedRange, autoScroll>>
    BY <1>5, Zenon DEF UserScroll
  <2>2. InView(Bottom(Len(filteredEvents)), Len(filteredEvents))
    BY <1>0, ClampInView DEF Bottom
  <2>3. top \in Nat /\ (top = 0 \/ top + Height <= Len(filteredEvents))
    <3>1. Len(filteredEvents) \in Nat /\ Height \in Nat
      BY <1>0, TableAssumption
    <3> QED
      BY <2>2, <3>1 DEF InView
  <2>4. scrollTop' = top /\ scrollPending' = (scrollPending \/ top # scrollTop)
    BY <2>1, Zenon DEF ScrollTo
  <2>5. (scrollPending \/ top # scrollTop) \in BOOLEAN
    OBVIOUS
  <2> QED
    BY <1>0, <2>1, <2>3, <2>4, <2>5, Zenon DEF TableInv, TableTypeOK, Drawn, dataVars
<1>6. CASE OnScroll
  <2>1. /\ scrollPending' = FALSE /\ autoScroll' = (scrollTop + Height >= Len(filteredEvents))
        /\ Render(filteredEvents, scrollTop, selectedIndex, rows, renderedRange)
        /\ UNCHANGED <<dataVars, selectedIndex, detail, scrollTop>>
    BY <1>6, Zenon DEF OnScroll
  <2>2. Drawn(rows, renderedRange)'
    BY <1>0, <2>1, RenderDraws, Zenon
  <2>3. FALSE \in BOOLEAN /\ (scrollTop + Height >= Len(filteredEvents)) \in BOOLEAN
    OBVIOUS
  <2> QED
    BY <1>0, <2>1, <2>2, <2>3, Zenon DEF TableInv, TableTypeOK, dataVars
<1>7. CASE ToggleAutoScroll
  <2>1. autoScroll' = ~autoScroll /\ UNCHANGED <<dataVars, selectedIndex, detail, scrollVars>>
    BY <1>7, Zenon DEF ToggleAutoScroll
  <2>2. (~autoScroll) \in BOOLEAN
    OBVIOUS
  <2> QED
    BY <1>0, <2>1, <2>2, Zenon DEF TableInv, TableTypeOK, Drawn, dataVars, scrollVars
<1>8. CASE UNCHANGED vars
  BY <1>0, <1>8, Zenon DEF TableInv, TableTypeOK, Drawn, vars
<1> QED
  BY <1>1, <1>2, <1>3, <1>4, <1>5, <1>6, <1>7, <1>8, NextSteps DEF TableInv

LEMMA TableInvCorrect == Spec => []TableInv
BY TableInvInit, TableInvStep, PTL DEF Spec

(* Every variable of the table keeps its type, and the viewport stays      *)
(* within the view, for every size of the log and of the container.        *)
THEOREM TableTypeCorrect == Spec => []TableTypeOK
<1>1. TableInv => TableTypeOK
  BY DEF TableInv
<1> QED
  BY <1>1, TableInvCorrect, PTL

-----------------------------------------------------------------------------
(* The viewport is drawn.                                                  *)

LEMMA VisibleStep == TableInv /\ VisibleRendered /\ [Next]_vars => VisibleRendered'
<1> SUFFICES ASSUME TableInv, VisibleRendered, [Next]_vars PROVE VisibleRendered'
  OBVIOUS
<1>0. /\ filteredEvents \in Seq(Event) /\ scrollPending \in BOOLEAN /\ scrollTop \in Nat
      /\ Drawn(rows, renderedRange)
  BY DEF TableInv, TableTypeOK
<1>1. ASSUME NEW trimmed, NEW new, Adding(trimmed, new) PROVE VisibleRendered'
  <2>1. /\ filteredEvents' \in Seq(Event)
        /\ \/ filteredEvents' = filteredEvents /\ UNCHANGED scrollVars
           \/ Redraw(selectedIndex, rows, renderedRange)
    BY <1>1, PushResult
  <2>2. CASE filteredEvents' = filteredEvents /\ UNCHANGED scrollVars
    BY <2>2, Zenon DEF VisibleRendered, scrollVars
  <2>3. CASE Redraw(selectedIndex, rows, renderedRange)
    BY <1>0, <2>1, <2>3, RedrawDraws, Zenon
  <2> QED
    BY <2>1, <2>2, <2>3
<1>2. CASE Clear
  <2>1. filteredEvents' = <<>> /\ 1..Len(<<>>) = {}
    BY <1>2 DEF Clear
  <2> QED
    BY <2>1, Zenon DEF VisibleRendered
<1>3. ASSUME NEW conditions \in Filters, SetFilter(conditions) PROVE VisibleRendered'
  <2>1. filteredEvents' \in Seq(Event) /\ Redraw(0, NoRows, NoRange) /\ Drawn(NoRows, NoRange)
    BY <1>3, FilterRedraws DEF Drawn
  <2> QED
    BY <1>0, <2>1, RedrawDraws, Zenon
<1>4. ASSUME NEW i, SelectRow(i) PROVE VisibleRendered'
  <2>1. /\ filteredEvents' = filteredEvents
        /\ Drawn(Mark(rows, i), renderedRange) /\ Redraw(i, Mark(rows, i), renderedRange)
    BY <1>4, SelectRedraws
  <2>2. filteredEvents' \in Seq(Event)
    BY <1>0, <2>1
  <2> QED
    BY <1>0, <2>1, <2>2, RedrawDraws, Zenon
<1>5. CASE UserScroll
  <2>1. \E top : top # scrollTop /\ scrollPending' = (scrollPending \/ top # scrollTop)
    BY <1>5, Zenon DEF UserScroll, ScrollTo
  <2> QED
    BY <2>1, Zenon DEF VisibleRendered
<1>6. CASE OnScroll
  <2>1. /\ Render(filteredEvents, scrollTop, selectedIndex, rows, renderedRange)
        /\ filteredEvents' = filteredEvents /\ scrollTop' = scrollTop
    BY <1>6, Zenon DEF OnScroll, dataVars
  <2>2. \A i \in 1..Len(filteredEvents) :
          i \in scrollTop + 1..scrollTop + Height => i \in DOMAIN rows'
    BY <1>0, <2>1, RenderDraws, Zenon
  <2> QED
    BY <2>1, <2>2, Zenon DEF VisibleRendered
<1>7. CASE ToggleAutoScroll
  BY <1>7, Zenon DEF ToggleAutoScroll, VisibleRendered, dataVars, scrollVars
<1>8. CASE UNCHANGED vars
  BY <1>8, Zenon DEF VisibleRendered, vars
<1> QED
  BY <1>1, <1>2, <1>3, <1>4, <1>5, <1>6, <1>7, <1>8, NextSteps DEF TableInv

(* Whatever lies in the viewport is drawn or will be by the scroll event   *)
(* still due: the early return of _renderVisible, which compares ranges    *)
(* and not events, skips no row, for every height and overscan.            *)
THEOREM VisibleRenderedCorrect == Spec => []VisibleRendered
<1>1. Init => VisibleRendered
  <2>1. Init => filteredEvents = <<>> /\ 1..Len(<<>>) = {}
    BY DEF Init
  <2> QED
    BY <2>1, Zenon DEF VisibleRendered
<1> QED
  BY <1>1, VisibleStep, TableInvCorrect, PTL DEF Spec

-----------------------------------------------------------------------------
(* Rows and details are those of the view.                                 *)

RowsInv ==
  ~viewIsLog =>
    \A i \in DOMAIN rows :
      /\ i \in 1..Len(filteredEvents)
      /\ rows[i] = TrueRow(filteredEvents, i, selectedIndex)

(* The selection is in the view, and the detail panel shows it.            *)
DetailInv ==
  ~viewIsLog => /\ selectedIndex <= Len(filteredEvents)
                /\ selectedIndex # 0 => detail = filteredEvents[selectedIndex]

(* Events are only added behind those of the view.                         *)
LEMMA ViewGrows ==
  ASSUME TableInv, NEW trimmed, NEW new, Adding(trimmed, new), ~viewIsLog
  PROVE  /\ Len(filteredEvents) <= Len(filteredEvents')
         /\ \A i \in 1..Len(filteredEvents) : filteredEvents'[i] = filteredEvents[i]
<1>1. filteredEvents' = filteredEvents \o Passing(new, filterConditions)
  BY PushResult
<1>2. filteredEvents \in Seq(Event) /\ Passing(new, filterConditions) \in Seq(Event)
  BY PassingType DEF TableInv, TableTypeOK, Adding
<1> QED
  BY <1>1, <1>2

LEMMA RowsStep == TableInv /\ RowsInv /\ [Next]_vars => RowsInv'
<1> SUFFICES ASSUME TableInv, RowsInv, [Next]_vars, ~viewIsLog' PROVE RowsInv'
  BY DEF RowsInv
<1>0. /\ filteredEvents \in Seq(Event) /\ scrollPending \in BOOLEAN /\ scrollTop \in Nat
      /\ Drawn(rows, renderedRange)
  BY DEF TableInv, TableTypeOK
<1>1. ASSUME NEW trimmed, NEW new, Adding(trimmed, new) PROVE RowsInv'
  <2>1. /\ filteredEvents' \in Seq(Event) /\ ~viewIsLog /\ selectedIndex' = selectedIndex
        /\ \/ filteredEvents' = filteredEvents /\ UNCHANGED scrollVars
           \/ Redraw(selectedIndex, rows, renderedRange)
    BY <1>1, PushResult
  <2>2. \A i \in 1..Len(filteredEvents) : filteredEvents'[i] = filteredEvents[i]
    BY <1>1, <2>1, ViewGrows
  <2>3. CASE filteredEvents' = filteredEvents /\ UNCHANGED scrollVars
    BY <2>1, <2>3, Zenon DEF RowsInv, scrollVars
  <2>4. CASE Redraw(selectedIndex, rows, renderedRange)
    <3>1. \A i \in DOMAIN rows' :
            /\ i \in 1..Len(filteredEvents')
            /\ rows'[i] = IF i \in DOMAIN rows THEN rows[i] ELSE TrueRow(filteredEvents', i, selectedIndex)
      BY <1>0, <2>1, <2>4, RedrawDraws, Zenon
    <3>2. \A i \in DOMAIN rows : rows[i] = TrueRow(filteredEvents', i, selectedIndex)
      BY <2>1, <2>2, Zenon DEF RowsInv, TrueRow
    <3>3. \A i \in DOMAIN rows' : rows'[i] = TrueRow(filteredEvents', i, selectedIndex)
      BY <3>1, <3>2, Zenon
    <3> QED
      BY <2>1, <3>1, <3>3, Zenon DEF RowsInv
  <2> QED
    BY <2>1, <2>3, <2>4
<1>2. CASE Clear
  <2>1. rows' = NoRows /\ DOMAIN NoRows = {}
    BY <1>2 DEF Clear, NoRows
  <2> QED
    BY <2>1, Zenon DEF RowsInv
<1>3. ASSUME NEW conditions \in Filters, SetFilter(conditions) PROVE RowsInv'
  <2>1. /\ filteredEvents' \in Seq(Event) /\ selectedIndex' = 0
        /\ Redraw(0, NoRows, NoRange) /\ Drawn(NoRows, NoRange)
    BY <1>3, FilterRedraws DEF Drawn
  <2>2. \A i \in DOMAIN rows' :
          /\ i \in 1..Len(filteredEvents')
          /\ rows'[i] = IF i \in DOMAIN NoRows THEN NoRows[i] ELSE TrueRow(filteredEvents', i, 0)
    BY <1>0, <2>1, RedrawDraws, Zenon
  <2>3. DOMAIN NoRows = {}
    BY DEF NoRows
  <2> QED
    BY <2>1, <2>2, <2>3, Zenon DEF RowsInv
<1>4. ASSUME NEW i, SelectRow(i) PROVE RowsInv'
  <2>1. /\ filteredEvents' = filteredEvents /\ viewIsLog' = viewIsLog /\ selectedIndex' = i
        /\ Drawn(Mark(rows, i), renderedRange) /\ Redraw(i, Mark(rows, i), renderedRange)
    BY <1>4, SelectRedraws
  <2>2. \A k \in DOMAIN rows' :
          /\ k \in 1..Len(filteredEvents')
          /\ rows'[k] = IF k \in DOMAIN Mark(rows, i) THEN Mark(rows, i)[k]
                        ELSE TrueRow(filteredEvents', k, i)
    <3>1. filteredEvents' \in Seq(Event)
      BY <1>0, <2>1
    <3> QED
      BY <1>0, <2>1, <3>1, RedrawDraws, Zenon
  <2>3. \A k \in DOMAIN Mark(rows, i) : Mark(rows, i)[k] = TrueRow(filteredEvents, k, i)
    <3>1. \A k \in DOMAIN rows : rows[k] = TrueRow(filteredEvents, k, selectedIndex)
      BY <2>1, Zenon DEF RowsInv
    <3>2. DOMAIN Mark(rows, i) = DOMAIN rows
      BY DEF Mark
    <3> SUFFICES ASSUME NEW k \in DOMAIN rows PROVE Mark(rows, i)[k] = TrueRow(filteredEvents, k, i)
      BY <3>2
    <3>3. Mark(rows, i)[k] =
            [rows[k] EXCEPT !.selected = k = i \/ (k # selectedIndex /\ rows[k].selected)]
      BY Zenon DEF Mark
    <3>4. rows[k] = [event |-> filteredEvents[k], selected |-> k = selectedIndex]
      BY <3>1 DEF TrueRow
    <3>5. Mark(rows, i)[k] = [event |-> filteredEvents[k], selected |-> k = i]
      <4>1. rows[k].selected = (k = selectedIndex)
        BY <3>4
      <4>2. (k = i \/ (k # selectedIndex /\ rows[k].selected)) = (k = i)
        BY <4>1, Zenon
      <4> QED
        BY <3>3, <3>4, <4>2
    <3> QED
      BY <3>5 DEF TrueRow
  <2> QED
    BY <2>1, <2>2, <2>3, Zenon DEF RowsInv
<1>5. CASE UserScroll
  <2>1. UNCHANGED <<dataVars, selectedIndex, rows>>
    BY <1>5, Zenon DEF UserScroll
  <2> QED
    BY <2>1, Zenon DEF RowsInv, dataVars
<1>6. CASE OnScroll
  <2>1. /\ Render(filteredEvents, scrollTop, selectedIndex, rows, renderedRange)
        /\ filteredEvents' = filteredEvents /\ viewIsLog' = viewIsLog
        /\ selectedIndex' = selectedIndex
    BY <1>6, Zenon DEF OnScroll, dataVars
  <2>2. \A i \in DOMAIN rows' :
          /\ i \in 1..Len(filteredEvents)
          /\ rows'[i] = IF i \in DOMAIN rows THEN rows[i] ELSE TrueRow(filteredEvents, i, selectedIndex)
    BY <1>0, <2>1, RenderDraws, Zenon
  <2> QED
    BY <2>1, <2>2, Zenon DEF RowsInv
<1>7. CASE ToggleAutoScroll
  BY <1>7, Zenon DEF ToggleAutoScroll, RowsInv, dataVars, scrollVars
<1>8. CASE UNCHANGED vars
  BY <1>8, Zenon DEF RowsInv, vars
<1> QED
  BY <1>1, <1>2, <1>3, <1>4, <1>5, <1>6, <1>7, <1>8, NextSteps DEF TableInv

(* While view and log are two arrays every DOM row shows the event its     *)
(* index stands for, and the selected one only is highlighted, although    *)
(* rows are kept across additions, scrolls and selections.                 *)
THEOREM RowsTrueCorrect == Spec => []RowsTrue
<1>1. Init => RowsInv
  <2>1. Init => rows = NoRows /\ DOMAIN NoRows = {}
    BY DEF Init, NoRows
  <2> QED
    BY <2>1, Zenon DEF RowsInv
<1>2. TableInv /\ RowsInv => RowsTrue
  BY DEF RowsInv, RowsTrue, TrueRow, TableInv, TableTypeOK
<1> QED
  BY <1>1, <1>2, RowsStep, TableInvCorrect, PTL DEF Spec

LEMMA DetailStep == TableInv /\ DetailInv /\ [Next]_vars => DetailInv'
<1> SUFFICES ASSUME TableInv, DetailInv, [Next]_vars, ~viewIsLog' PROVE DetailInv'
  BY DEF DetailInv
<1>0. filteredEvents \in Seq(Event) /\ selectedIndex \in Nat
  BY DEF TableInv, TableTypeOK
<1>1. ASSUME NEW trimmed, NEW new, Adding(trimmed, new) PROVE DetailInv'
  <2>1. /\ filteredEvents' \in Seq(Event) /\ ~viewIsLog
        /\ UNCHANGED <<selectedIndex, detail>>
    BY <1>1, PushResult
  <2>2. /\ Len(filteredEvents) <= Len(filteredEvents')
        /\ \A i \in 1..Len(filteredEvents) : filteredEvents'[i] = filteredEvents[i]
    BY <1>1, <2>1, ViewGrows
  <2> QED
    BY <1>0, <2>1, <2>2 DEF DetailInv
<1>2. CASE Clear
  BY <1>2 DEF Clear, DetailInv
<1>3. ASSUME NEW conditions \in Filters, SetFilter(conditions) PROVE DetailInv'
  <2>1. selectedIndex' = 0 /\ filteredEvents' \in Seq(Event)
    BY <1>3, FilterRedraws
  <2> QED
    BY <2>1 DEF DetailInv
<1>4. ASSUME NEW i, SelectRow(i) PROVE DetailInv'
  <2>1. /\ i \in 1..Len(filteredEvents) /\ selectedIndex' = i /\ detail' = filteredEvents[i]
        /\ filteredEvents' = filteredEvents
    BY <1>4, SelectRedraws
  <2> QED
    BY <1>0, <2>1 DEF DetailInv
<1>5. CASE UserScroll
  <2>1. UNCHANGED <<dataVars, selectedIndex, detail>>
    BY <1>5, Zenon DEF UserScroll
  <2> QED
    BY <2>1, Zenon DEF DetailInv, dataVars
<1>6. CASE OnScroll
  BY <1>6, Zenon DEF OnScroll, DetailInv, dataVars
<1>7. CASE ToggleAutoScroll
  BY <1>7, Zenon DEF ToggleAutoScroll, DetailInv, dataVars
<1>8. CASE UNCHANGED vars
  BY <1>8, Zenon DEF DetailInv, vars
<1> QED
  BY <1>1, <1>2, <1>3, <1>4, <1>5, <1>6, <1>7, <1>8, NextSteps DEF TableInv

(* The detail panel shows the selected event as long as view and log are   *)
(* two arrays: neither trims nor filters nor clears leave an index behind. *)
THEOREM DetailIsSelectedCorrect == Spec => []DetailIsSelected
<1>1. Init => DetailInv
  BY DEF Init, DetailInv
<1>2. DetailInv => DetailIsSelected
  BY DEF DetailInv, DetailIsSelected
<1> QED
  BY <1>1, <1>2, DetailStep, TableInvCorrect, PTL DEF Spec

-----------------------------------------------------------------------------
(* The view ends with the events of the log that pass.                     *)

(* Each trim of the log leaves its events in the view: they precede.       *)
ViewInv ==
  \E older \in Seq(Event) : filteredEvents = older \o Passing(allEvents, filterConditions)

LEMMA Associates ==
  ASSUME NEW a \in Seq(Event), NEW b \in Seq(Event), NEW c \in Seq(Event)
  PROVE  (a \o b) \o c = a \o (b \o c)
BY ConcatAssociative

LEMMA EmptyPrefix ==
  ASSUME NEW s \in Seq(Event) PROVE <<>> \in Seq(Event) /\ s = <<>> \o s
OBVIOUS

LEMMA ViewStep == TableInv /\ ViewInv /\ [Next]_vars => ViewInv'
<1> SUFFICES ASSUME TableInv, ViewInv, [Next]_vars PROVE ViewInv'
  OBVIOUS
<1>0. /\ allEvents \in Seq(Event) /\ filteredEvents \in Seq(Event)
      /\ viewIsLog => filterConditions = {}
  BY DEF TableInv, TableTypeOK
<1>1. ASSUME NEW trimmed, NEW new, Adding(trimmed, new) PROVE ViewInv'
  <2>1. /\ allEvents' \in Seq(Event) /\ filterConditions' = filterConditions
        /\ ~viewIsLog => /\ allEvents' = trimmed \o new
                         /\ filteredEvents' = filteredEvents \o Passing(new, filterConditions)
        /\ viewIsLog => filteredEvents' = allEvents'
    BY <1>1, PushResult
  <2>2. CASE viewIsLog
    <3>1. Passing(allEvents', filterConditions') = allEvents'
      BY <1>0, <2>1, <2>2, PassingAll
    <3>2. filteredEvents' = <<>> \o Passing(allEvents', filterConditions')
      BY <2>1, <2>2, <3>1, EmptyPrefix
    <3> QED
      BY <2>1, <3>2, EmptyPrefix, Zenon DEF ViewInv
  <2>3. CASE ~viewIsLog
    <3>1. PICK c, older : /\ c = filterConditions /\ older \in Seq(Event)
                          /\ filteredEvents = older \o Passing(allEvents, c)
      BY DEF ViewInv
    <3>2. PICK front \in Seq(Event) : allEvents = front \o trimmed
      BY <1>1 DEF Adding
    <3>3. trimmed \in Seq(Event) /\ new \in Seq(Event)
      BY <1>1 DEF Adding
    <3> DEFINE f == Passing(front, c)
               t == Passing(trimmed, c)
               n == Passing(new, c)
    <3>4. f \in Seq(Event) /\ t \in Seq(Event) /\ n \in Seq(Event)
      BY <3>3, PassingType
    <3>5. Passing(allEvents, c) = f \o t
      BY <3>2, <3>3, PassingConcat
    <3>6. Passing(trimmed \o new, c) = t \o n
      BY <3>3, PassingConcat
    <3>7. filteredEvents' = filteredEvents \o n /\ Passing(allEvents', filterConditions') = t \o n
      BY <2>1, <2>3, <3>1, <3>6
    <3> HIDE DEF f, t, n
    <3>8. older \o f \in Seq(Event)
      BY <3>1, <3>4
    <3>9. filteredEvents' = ((older \o f) \o t) \o n
      <4>1. older \o (f \o t) = (older \o f) \o t
        BY <3>1, <3>4, Associates
      <4> QED
        BY <3>1, <3>5, <3>7, <4>1, Zenon
    <3>10. ((older \o f) \o t) \o n = (older \o f) \o (t \o n)
      BY <3>4, <3>8, Associates
    <3> QED
      BY <3>7, <3>8, <3>9, <3>10, Zenon DEF ViewInv
  <2> QED
    BY <2>2, <2>3
<1>2. CASE Clear
  <2>1. allEvents' = <<>> /\ filteredEvents' = <<>> /\ filterConditions' = filterConditions
    BY <1>2 DEF Clear
  <2>2. \A c : Passing(<<>>, c) = <<>>
    <3>1. ASSUME NEW c PROVE Passing(<<>>, c) = <<>>
      <4>1. <<>> \in Seq(Event) /\ Len(<<>>) = 0
        OBVIOUS
      <4> QED
        BY <4>1, PassingLoop DEF IsLoop
    <3> QED
      BY <3>1
  <2> QED
    BY <2>1, <2>2, EmptyPrefix DEF ViewInv
<1>3. ASSUME NEW conditions \in Filters, SetFilter(conditions) PROVE ViewInv'
  <2>1. /\ filterConditions' = conditions /\ allEvents' = allEvents
        /\ filteredEvents' = Passing(allEvents, conditions) /\ filteredEvents' \in Seq(Event)
    BY <1>3, FilterRedraws
  <2>2. filteredEvents' = <<>> \o Passing(allEvents', filterConditions') /\ <<>> \in Seq(Event)
    BY <2>1, EmptyPrefix
  <2> QED
    BY <2>2, Zenon DEF ViewInv
<1>4. ASSUME UNCHANGED <<allEvents, filteredEvents, filterConditions>> PROVE ViewInv'
  BY <1>4, Zenon DEF ViewInv
<1>5. ASSUME NEW i, SelectRow(i) PROVE ViewInv'
  BY <1>4, <1>5, SelectRedraws
<1>6. CASE UserScroll
  BY <1>4, <1>6, Zenon DEF UserScroll, dataVars
<1>7. CASE OnScroll
  BY <1>4, <1>7, Zenon DEF OnScroll, dataVars
<1>8. CASE ToggleAutoScroll
  BY <1>4, <1>8, Zenon DEF ToggleAutoScroll, dataVars
<1>9. CASE UNCHANGED vars
  BY <1>4, <1>9, Zenon DEF vars
<1> QED
  BY <1>1, <1>2, <1>3, <1>5, <1>6, <1>7, <1>8, <1>9, NextSteps DEF TableInv

LEMMA IsSuffixOfConcat ==
  ASSUME NEW u \in Seq(Event), NEW s \in Seq(Event)
  PROVE  IsSuffix(s, u \o s)
<1> DEFINE t == u \o s
           r == Reverse(s)
           q == Reverse(t)
<1>1. /\ t \in Seq(Event) /\ Len(t) = Len(u) + Len(s) /\ Len(s) \in Nat /\ Len(u) \in Nat
      /\ \A i \in 1..Len(s) : t[Len(u) + i] = s[i]
  OBVIOUS
<1> HIDE DEF t
<1>2. /\ r \in Seq(Event) /\ Len(r) = Len(s)
      /\ \A i \in 1..Len(s) : r[i] = s[Len(s) - i + 1]
  BY DEF Reverse
<1>3. /\ q \in Seq(Event) /\ Len(q) = Len(t)
      /\ \A i \in 1..Len(t) : q[i] = t[Len(t) - i + 1]
  BY <1>1 DEF Reverse
<1> HIDE DEF r, q
<1>4. ASSUME NEW i \in 1..Len(s) PROVE r[i] = q[i]
  <2>1. /\ i \in 1..Len(t) /\ Len(s) - i + 1 \in 1..Len(s)
        /\ Len(t) - i + 1 = Len(u) + (Len(s) - i + 1)
    BY <1>1
  <2> QED
    BY <1>1, <1>2, <1>3, <2>1
<1>5. Len(r) <= Len(q) /\ SubSeq(r, 1, Len(r)) = r
  BY <1>1, <1>2, <1>3
<1>6. /\ SubSeq(q, 1, Len(r)) \in Seq(Event) /\ Len(SubSeq(q, 1, Len(r))) = Len(r)
      /\ \A i \in 1..Len(r) : SubSeq(q, 1, Len(r))[i] = q[i]
  BY <1>1, <1>2, <1>3
<1>7. r = SubSeq(q, 1, Len(r))
  BY <1>2, <1>4, <1>6, SeqEqual
<1>8. IsPrefix(r, q)
  BY <1>5, <1>7 DEF IsPrefix
<1> QED
  BY <1>8 DEF IsSuffix, r, q, t

(* The events of the log that pass the filter end the view, in order,      *)
(* whatever was trimmed, cleared and filtered before, for every size of    *)
(* the log and of the trims.                                               *)
THEOREM ViewCompleteCorrect == Spec => []ViewComplete
<1>1. Init => ViewInv
  <2> SUFFICES ASSUME Init PROVE ViewInv
    OBVIOUS
  <2>1. allEvents = <<>> /\ filteredEvents = <<>> /\ filterConditions = {}
    BY DEF Init
  <2>2. <<>> \in Seq(Event)
    OBVIOUS
  <2>3. Passing(<<>>, {}) = <<>>
    BY <2>2, PassingAll
  <2> QED
    BY <2>1, <2>2, <2>3, EmptyPrefix DEF ViewInv
<1>2. TableInv /\ ViewInv => ViewComplete
  <2> SUFFICES ASSUME TableInv, ViewInv PROVE ViewComplete
    OBVIOUS
  <2>1. Passing(allEvents, filterConditions) \in Seq(Event)
    BY PassingType DEF TableInv, TableTypeOK
  <2> QED
    BY <2>1, IsSuffixOfConcat, Zenon DEF ViewInv, ViewComplete
<1> QED
  BY <1>1, <1>2, ViewStep, TableInvCorrect, PTL DEF Spec

=============================================================================
