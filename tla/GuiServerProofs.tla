--------------------------- MODULE GuiServerProofs ---------------------------
(***************************************************************************)
(* Theorems about the GUI server, for every set of pages and every bound   *)
(* of the model: its bridge never stops dialling, the types hold, the      *)
(* buffer is the newest events since the last clear, no page misses one of *)
(* them, and the pages show what the server records.                       *)
(*                                                                         *)
(* The bridge's part of the state is kept by its own actions (BridgeInv),  *)
(* whichever callback of the server they belong to (StepBridges); the      *)
(* server's part rests on it.                                              *)
(***************************************************************************)
EXTENDS GuiServer, SequenceTheorems, FiniteSetTheorems, WellFoundedInduction, TLAPS

-----------------------------------------------------------------------------
(* The bridge keeps dialling.                                              *)

(* NeverStuck needs that the timer reconnectTimer names is a running one:  *)
(* otherwise cancelling it could cancel nothing, or count below zero.      *)
DialInv ==
  /\ timers \in Nat
  /\ demo \in BOOLEAN /\ booting \in BOOLEAN /\ armed \in BOOLEAN
  /\ armed => timers > 0
  /\ NeverStuck

LEMMA DialInit == Init => DialInv
<1>1. 0 \in Nat
  OBVIOUS
<1> QED
  BY <1>1, Zenon DEF Init, BridgeInit, DialInv, NeverStuck

(* Only these actions touch the connection, its timers or demo mode.       *)
DialSteps ==
  Boot \/ Redial \/ Opened \/ Closed \/ EnableDemo \/ DisableDemo
       \/ UNCHANGED <<dialVars, demo>>

LEMMA StepDials == [Next]_vars => DialSteps
<1> SUFFICES ASSUME [Next]_vars PROVE DialSteps
    OBVIOUS
<1> USE DEF DialSteps
<1>1. ASSUME NEW b \in Browsers, NEW reloaded \in BOOLEAN, Connect(b, reloaded)
      PROVE  DialSteps
  BY <1>1 DEF Connect, Asks, Request, bridgeVars, demoVars
<1>2. ASSUME NEW b \in Browsers, Leave(b) \/ Clear(b) PROVE DialSteps
  BY <1>2 DEF Leave, Clear, bridgeVars, demoVars
<1>3. ASSUME NEW b \in Browsers, Start(b) \/ Stop(b) \/ Query(b) PROVE DialSteps
  BY <1>3 DEF Start, Stop, Query, Asks, Request
<1>4. ASSUME NEW b \in Browsers, DemoOn(b) \/ DemoOff(b) PROVE DialSteps
  BY <1>4 DEF DemoOn, DemoOff
<1>5. ASSUME NEW c \in Calls, Resume(c) \/ TimedOut(c) PROVE DialSteps
  BY <1>5 DEF Resume, Forgotten, TimedOut, Timeout, demoVars
<1>6. CASE CoreData
  BY <1>6 DEF CoreData, Data, demoVars
<1>7. CASE DemoData
  BY <1>7 DEF DemoData, DemoTick, demoVars
<1>8. CASE Connected
  BY <1>8 DEF Connected
<1>9. CASE BridgeStep
  BY <1>9 DEF BridgeStep, DataPart, CoreAnswers, CoreEvent, demoVars
<1>10. CASE UNCHANGED vars
  BY <1>10 DEF vars, bridgeVars, demoVars
<1> QED
  BY <1>1, <1>2, <1>3, <1>4, <1>5, <1>6, <1>7, <1>8, <1>9, <1>10 DEF Next

LEMMA DialStep == DialInv /\ [Next]_vars => DialInv'
<1> SUFFICES ASSUME DialInv, DialSteps PROVE DialInv'
    BY StepDials
<1>a. timers \in Nat /\ timers + 1 \in Nat /\ timers + 1 > 0
  BY DEF DialInv
<1>b. timers > 0 => timers - 1 \in Nat
  BY <1>a
<1> USE DEF DialInv, NeverStuck
<1>1. CASE Boot
  BY <1>1, Zenon DEF Boot, Dial, demoVars
<1>2. CASE Redial
  BY <1>2, <1>b, Zenon DEF Redial, Dial, demoVars
<1>3. CASE Opened
  BY <1>3, Zenon DEF Opened, Request
<1>4. CASE Closed
  BY <1>4, <1>a, Zenon DEF Closed, demoVars
<1>5. CASE EnableDemo
  BY <1>5, <1>b, Zenon DEF EnableDemo
<1>6. CASE DisableDemo
  BY <1>6, Zenon DEF DisableDemo, Dial
<1>7. CASE UNCHANGED <<dialVars, demo>>
  BY <1>7, Zenon DEF dialVars
<1> QED
  BY <1>1, <1>2, <1>3, <1>4, <1>5, <1>6, <1>7 DEF DialSteps

(* Whatever fails and in whatever order timers, closes and demo mode come, *)
(* the bridge is in demo mode, has a socket, or will dial.                 *)
THEOREM BridgeKeepsDialling == Spec => []NeverStuck
<1>1. DialInv => NeverStuck
  BY DEF DialInv
<1> QED
  BY <1>1, DialInit, DialStep, PTL DEF Spec

-----------------------------------------------------------------------------
(* Induction.                                                              *)

(* The library's induction takes the property as an operator; this one     *)
(* takes the set of its numbers, and a smallest number missing from it is  *)
(* had from the finite sets 0..k, which inclusion orders well.             *)
LEMMA Smallest ==
  ASSUME NEW T \in SUBSET Nat, NEW n \in T
  PROVE  \E x \in T : x <= n /\ \A y \in T : x <= y
<1> DEFINE S == 0..n
           R == StrictSubsetOrdering(S)
           Upto == {k \in T : k <= n}
           I == {0..k : k \in Upto}
<1>1. IsWellFoundedOn(R, SUBSET S)
  <2>1. IsFiniteSet(S)
    BY FS_Interval
  <2> HIDE DEF S
  <2> QED
    BY <2>1, FS_StrictSubsetOrderingWellFounded, FS_FiniteSubsetsOfFinite
<1>2. I \subseteq SUBSET S /\ I # {}
  <2>1. n \in Nat /\ n \in Upto
    OBVIOUS
  <2>2. ASSUME NEW k \in Upto PROVE 0..k \subseteq 0..n
    BY <2>1
  <2> QED
    BY <2>1, <2>2
<1>3. \E X \in I : \A Y \in I : ~(<<Y, X>> \in R)
  <2> HIDE DEF S, R, I
  <2> QED
    BY <1>1, <1>2, WFMin
<1>4. PICK x \in Upto : \A Y \in I : ~(<<Y, 0..x>> \in R)
  BY <1>3
<1>5. ASSUME NEW y \in T, y < x PROVE FALSE
  <2>1. y \in Nat /\ x \in Nat /\ x <= n /\ y \in Upto
    BY <1>5
  <2>2. 0..y \in I
    BY <2>1
  <2>3. 0..y \subseteq 0..x /\ 0..y # 0..x
    <3>1. x \in 0..x /\ x \notin 0..y
      BY <2>1, <1>5
    <3>2. 0..y \subseteq 0..x
      BY <2>1, <1>5
    <3> QED
      BY <3>1, <3>2
  <2>4. 0..x \subseteq S
    BY <2>1
  <2>5. <<0..y, 0..x>> \in R
    BY <2>3, <2>4 DEF StrictSubsetOrdering
  <2> QED
    BY <2>2, <2>5, <1>4
<1> QED
  BY <1>4, <1>5

LEMMA Induction ==
  ASSUME NEW N \in Nat, NEW T, 0 \in T, \A n \in 0..(N - 1) : n \in T => n + 1 \in T
  PROVE  \A n \in 0..N : n \in T
<1> SUFFICES ASSUME NEW n \in 0..N, n \notin T PROVE FALSE
  OBVIOUS
<1> DEFINE Missing == {k \in 0..N : k \notin T}
<1>1. Missing \subseteq Nat /\ n \in Missing
  OBVIOUS
<1>2. PICK x \in Missing : \A y \in Missing : x <= y
  <2> HIDE DEF Missing
  <2> QED
    BY <1>1, Smallest
<1>3. x # 0 /\ x \in 0..N
  BY <1>2
<1>4. x - 1 \in 0..(N - 1) /\ x - 1 \in T
  BY <1>2, <1>3
<1> QED
  BY <1>2, <1>3, <1>4

-----------------------------------------------------------------------------
(* The events among lines.                                                 *)

Lines == [kind : {"reply", "event"}, id : Nat]

(* The loop over the lines, up to the i-th of them.                        *)
NextId(lines, f, i) ==
  IF i = 0 THEN <<>> ELSE IF IsEvent(lines[i]) THEN Append(f[i - 1], lines[i].id) ELSE f[i - 1]

LEMMA LoopExists ==
  ASSUME NEW lines \in Seq(Lines)
  PROVE  \E f : f = [i \in 0..Len(lines) |-> NextId(lines, f, i)]
<1> DEFINE N == Len(lines)
           T == {n \in 0..N : \E f : f = [i \in 0..n |-> NextId(lines, f, i)]}
<1>1. 0 \in T
  <2>1. [i \in 0..0 |-> <<>>] = [i \in 0..0 |-> NextId(lines, [j \in 0..0 |-> <<>>], i)]
    BY DEF NextId
  <2> QED
    BY <2>1
<1>2. ASSUME NEW n \in 0..(N - 1), n \in T PROVE n + 1 \in T
  <2>1. PICK f : f = [i \in 0..n |-> NextId(lines, f, i)]
    BY <1>2
  <2> DEFINE g == [i \in 0..(n + 1) |-> IF i = n + 1 THEN NextId(lines, f, i) ELSE f[i]]
  <2>2. ASSUME NEW i \in 0..(n + 1) PROVE g[i] = NextId(lines, g, i)
    <3>1. i # 0 => i - 1 \in 0..n /\ g[i - 1] = f[i - 1]
      OBVIOUS
    <3>2. NextId(lines, g, i) = NextId(lines, f, i)
      BY <3>1 DEF NextId
    <3>3. i # n + 1 => i \in 0..n
      OBVIOUS
    <3> QED
      BY <2>1, <3>2, <3>3
  <2>3. g = [i \in 0..(n + 1) |-> NextId(lines, g, i)]
    <3>1. g = [i \in 0..(n + 1) |-> g[i]]
      OBVIOUS
    <3> HIDE DEF g
    <3> QED
      BY <2>2, <3>1
  <2>4. \E h : h = [i \in 0..(n + 1) |-> NextId(lines, h, i)]
    <3> HIDE DEF g
    <3> QED
      BY <2>3
  <2>5. n + 1 \in 0..N
    OBVIOUS
  <2> QED
    BY <2>4, <2>5
<1>3. N \in Nat /\ N \in 0..N
  OBVIOUS
<1>4. N \in T
  <2> HIDE DEF T, N
  <2> QED
    BY <1>1, <1>2, <1>3, Induction
<1> QED
  BY <1>4

(* What the bridge passes on is a sequence of event numbers.               *)
LEMMA EventIdsType == ASSUME NEW lines \in Seq(Lines) PROVE EventIds(lines) \in Seq(Nat)
<1>1. PICK f : f = [i \in 0..Len(lines) |-> NextId(lines, f, i)] /\ EventIds(lines) = f[Len(lines)]
  BY LoopExists, Zenon DEF EventIds, NextId
<1> DEFINE T == {n \in 0..Len(lines) : f[n] \in Seq(Nat)}
<1>2. 0 \in T
  <2>1. f[0] = <<>>
    BY <1>1 DEF NextId
  <2>2. 0 \in 0..Len(lines) /\ <<>> \in Seq(Nat)
    OBVIOUS
  <2> QED
    BY <2>1, <2>2
<1>3. ASSUME NEW n \in 0..(Len(lines) - 1), n \in T PROVE n + 1 \in T
  <2>1. n + 1 \in 0..Len(lines) /\ n + 1 \in 1..Len(lines) /\ n + 1 # 0 /\ (n + 1) - 1 = n
    OBVIOUS
  <2>2. f[n + 1] = IF IsEvent(lines[n + 1]) THEN Append(f[n], lines[n + 1].id) ELSE f[n]
    <3>1. f[n + 1] = NextId(lines, f, n + 1)
      BY <1>1, <2>1
    <3> QED
      BY <2>1, <3>1 DEF NextId
  <2>3. lines[n + 1] \in Lines
    BY <2>1
  <2>4. lines[n + 1].id \in Nat
    BY <2>3 DEF Lines
  <2>5. f[n] \in Seq(Nat)
    BY <1>3
  <2>6. Append(f[n], lines[n + 1].id) \in Seq(Nat)
    BY <2>4, <2>5
  <2>7. f[n + 1] \in Seq(Nat)
    BY <2>2, <2>5, <2>6
  <2> QED
    BY <2>1, <2>7
<1>4. Len(lines) \in T
  <2>1. Len(lines) \in Nat /\ Len(lines) \in 0..Len(lines)
    OBVIOUS
  <2> HIDE DEF T
  <2> QED
    BY <1>2, <1>3, <2>1, Induction
<1> QED
  BY <1>1, <1>4

-----------------------------------------------------------------------------
(* The bridge's types.                                                     *)

(* A call that has not been made has no promise, and nobody awaits it.     *)
BridgeInv ==
  /\ BridgeTypeOK
  /\ \A c \in Calls : c > used => promise[c] = "unused"

LEMMA BridgeInvInit == BridgeInit => BridgeInv
<1> SUFFICES ASSUME BridgeInit PROVE BridgeInv
  OBVIOUS
<1>1. /\ booting \in BOOLEAN /\ armed \in BOOLEAN /\ demo \in BOOLEAN /\ demoTimer \in BOOLEAN
      /\ coreCap \in BOOLEAN
  BY Zenon DEF BridgeInit
<1>2. used \in 0..MaxCalls /\ timers \in Nat /\ coreEvents \in Nat
  BY BridgeBounds DEF BridgeInit
<1>3. /\ method \in [Calls -> Methods]
      /\ promise \in [Calls -> {"unused", "waiting", "answered", "failed"}]
      /\ pending = {c \in Calls : promise[c] = "waiting"}
      /\ \A c \in Calls : promise[c] = "unused"
  BY DEF BridgeInit, Methods
<1>4. asked \in Seq(Calls) /\ wire \in Seq(Lines)
  BY DEF BridgeInit
<1>5. sock = "none" /\ buffer = "empty"
  BY DEF BridgeInit
<1> QED
  BY <1>1, <1>2, <1>3, <1>4, <1>5 DEF BridgeInv, BridgeTypeOK, Lines

(* A call of request, answered at once, failed at once, or pending.        *)
LEMMA RequestInv ==
  ASSUME BridgeInv, NEW m \in Methods, NEW connected, Request(m, connected)
  PROVE  /\ used + 1 \in Calls /\ used' = used + 1
         /\ method' = [method EXCEPT ![used + 1] = m] /\ method' \in [Calls -> Methods]
         /\ promise' \in [Calls -> {"unused", "waiting", "answered", "failed"}]
         /\ \A c \in Calls : c > used' => promise'[c] = "unused"
         /\ \A c \in Calls : c # used + 1 => promise'[c] = promise[c]
         /\ pending' = {c \in Calls : promise'[c] = "waiting"}
         /\ asked' \in Seq(Calls)
         /\ demoTimer' \in BOOLEAN /\ demo' = demo
         /\ UNCHANGED <<buffer, wire, coreCap, coreEvents>>
<1> DEFINE c == used + 1
<1>1. /\ used \in 0..MaxCalls /\ MaxCalls \in Nat /\ method \in [Calls -> Methods]
      /\ promise \in [Calls -> {"unused", "waiting", "answered", "failed"}]
      /\ pending = {d \in Calls : promise[d] = "waiting"} /\ asked \in Seq(Calls)
      /\ \A d \in Calls : d > used => promise[d] = "unused"
  BY BridgeBounds DEF BridgeInv, BridgeTypeOK
<1>2. c \in Calls /\ used' = c
  BY <1>1 DEF Request, Calls
<1>3. method' = [method EXCEPT ![c] = m] /\ UNCHANGED <<buffer, wire, coreCap, coreEvents>>
  BY DEF Request
<1>4. promise[c] = "unused" /\ c \notin pending
  BY <1>1, <1>2
<1>5. demoTimer' \in BOOLEAN /\ demo' = demo
  <2>1. demoTimer \in BOOLEAN
    BY DEF BridgeInv, BridgeTypeOK
  <2>2. demoTimer' \in {TRUE, FALSE, demoTimer}
    BY Zenon DEF Request
  <2> QED
    BY <2>1, <2>2, Zenon DEF Request
<1>6. \/ \E p \in {"answered", "failed"} :
            promise' = [promise EXCEPT ![c] = p] /\ pending' = pending /\ asked' = asked
      \/ /\ promise' = [promise EXCEPT ![c] = "waiting"]
         /\ pending' = pending \cup {c} /\ asked' = Append(asked, c)
  BY DEF Request
<1>7. asked' \in Seq(Calls)
  BY <1>1, <1>2, <1>6
<1>8. /\ promise' \in [Calls -> {"unused", "waiting", "answered", "failed"}]
      /\ \A d \in Calls : d # c => promise'[d] = promise[d]
  BY <1>1, <1>2, <1>6
<1>9. pending' = {d \in Calls : promise'[d] = "waiting"}
  BY <1>1, <1>2, <1>4, <1>6
<1>10. \A d \in Calls : d > used' => promise'[d] = "unused"
  <2>1. \A d \in Calls : d \in Nat
    BY <1>1 DEF Calls
  <2>2. \A d \in Calls : d > used' => d # c /\ d > used
    BY <1>1, <1>2, <2>1
  <2> QED
    BY <1>1, <1>8, <2>2
<1> QED
  BY <1>1, <1>2, <1>3, <1>5, <1>7, <1>8, <1>9, <1>10

(* What the callbacks of the server do to the bridge.                      *)
BridgeActions ==
  \/ Boot \/ Redial \/ Opened \/ Closed \/ EnableDemo \/ DisableDemo
  \/ \E m \in Methods : Asks(m)
  \/ \E k \in 1..MaxChunk : DemoTick(k)
  \/ \E c \in Calls : Timeout(c) \/ (promise[c] # "waiting" /\ Forgotten(c))
  \/ \E n \in 1..MaxChunk : Data(n)
  \/ DataPart \/ CoreAnswers \/ CoreEvent
  \/ UNCHANGED bridgeVars

LEMMA StepBridges == [Next]_vars => BridgeActions
<1> SUFFICES ASSUME [Next]_vars PROVE BridgeActions
    OBVIOUS
<1> USE DEF BridgeActions
<1>m. {"start", "stop", "status"} \subseteq Methods
  BY DEF Methods
<1>1. ASSUME NEW b \in Browsers, NEW reloaded \in BOOLEAN, Connect(b, reloaded)
      PROVE  BridgeActions
  <2>1. Asks("status") \/ UNCHANGED bridgeVars
    BY <1>1, Zenon DEF Connect
  <2> QED
    BY <1>m, <2>1
<1>2. ASSUME NEW b \in Browsers, Leave(b) \/ Clear(b) PROVE BridgeActions
  BY <1>2, Zenon DEF Leave, Clear
<1>3. ASSUME NEW b \in Browsers, Start(b) \/ Stop(b) \/ Query(b) PROVE BridgeActions
  <2>1. Asks("start") \/ Asks("stop") \/ Asks("status")
    BY <1>3, Zenon DEF Start, Stop, Query
  <2> QED
    BY <1>m, <2>1
<1>4. ASSUME NEW b \in Browsers, DemoOn(b) \/ DemoOff(b) PROVE BridgeActions
  BY <1>4, Zenon DEF DemoOn, DemoOff
<1>5. ASSUME NEW c \in Calls, Resume(c) \/ TimedOut(c) PROVE BridgeActions
  BY <1>5, Zenon DEF Resume, TimedOut, Runnable
<1>6. CASE CoreData
  BY <1>6, Zenon DEF CoreData
<1>7. CASE DemoData
  BY <1>7, Zenon DEF DemoData
<1>8. CASE Connected
  BY <1>8, Zenon DEF Connected
<1>9. CASE BridgeStep
  BY <1>9, Zenon DEF BridgeStep
<1>10. CASE UNCHANGED vars
  BY <1>10 DEF vars
<1> QED
  BY <1>1, <1>2, <1>3, <1>4, <1>5, <1>6, <1>7, <1>8, <1>9, <1>10 DEF Next

(* The parts of BridgeInv that belong together.                            *)
DialOK == /\ sock \in {"none", "connecting", "open"}
          /\ booting \in BOOLEAN /\ timers \in Nat /\ armed \in BOOLEAN
DemoOK == demo \in BOOLEAN /\ demoTimer \in BOOLEAN
CallOK == /\ used \in 0..MaxCalls
          /\ method \in [Calls -> Methods]
          /\ promise \in [Calls -> {"unused", "waiting", "answered", "failed"}]
          /\ pending = {c \in Calls : promise[c] = "waiting"}
          /\ \A c \in Calls : c > used => promise[c] = "unused"
CoreOK == /\ buffer \in {"empty", "part", "stale"}
          /\ asked \in Seq(Calls)
          /\ wire \in Seq(Lines)
          /\ coreCap \in BOOLEAN /\ coreEvents \in Nat

LEMMA BridgeInvParts == BridgeInv <=> DialOK /\ DemoOK /\ CallOK /\ CoreOK
  BY DEF BridgeInv, BridgeTypeOK, DialOK, DemoOK, CallOK, CoreOK, Lines

(* A timer is only cancelled while it runs.                                *)
LEMMA DialOKStep == DialInv /\ DialOK /\ DialSteps => DialOK'
<1> SUFFICES ASSUME DialInv, DialOK, DialSteps PROVE DialOK'
    OBVIOUS
<1>a. timers \in Nat /\ timers + 1 \in Nat /\ (armed => timers > 0) /\ (timers > 0 => timers - 1 \in Nat)
  BY DEF DialInv
<1> USE DEF DialOK
<1>1. CASE Boot
  BY <1>1, Zenon DEF Boot, Dial
<1>2. CASE Redial
  BY <1>2, <1>a, Zenon DEF Redial, Dial
<1>3. CASE Opened
  BY <1>3, Zenon DEF Opened
<1>4. CASE Closed
  BY <1>4, <1>a, Zenon DEF Closed
<1>5. CASE EnableDemo
  BY <1>5, <1>a, Zenon DEF EnableDemo
<1>6. CASE DisableDemo
  BY <1>6, Zenon DEF DisableDemo, Dial
<1>7. CASE UNCHANGED <<dialVars, demo>>
  BY <1>7, Zenon DEF dialVars
<1> QED
  BY <1>1, <1>2, <1>3, <1>4, <1>5, <1>6, <1>7 DEF DialSteps

(* What a callback leaves in the buffer, the pipe and the core.            *)
LEMMA ClosedCore == ASSUME CoreOK, Closed PROVE CoreOK'
<1>1. coreCap' \in BOOLEAN
  <2>1. \A i \in DOMAIN asked : (method[asked[i]] = "start") \in BOOLEAN
    BY Zenon
  <2>2. {method[asked[i]] = "start" : i \in DOMAIN asked} \subseteq BOOLEAN
    BY <2>1, Zenon
  <2>3. coreCap' \in {coreCap, FALSE} \cup {method[asked[i]] = "start" : i \in DOMAIN asked}
    BY Zenon DEF Closed
  <2> QED
    BY <2>2, <2>3, Zenon DEF CoreOK
<1>2. asked' \in Seq(Calls) /\ wire' \in Seq(Lines) /\ buffer' \in {"empty", "part", "stale"}
  BY DEF Closed, CoreOK, Broken
<1>3. coreEvents' \in Nat
  BY DEF Closed, CoreOK
<1> QED
  BY <1>1, <1>2, <1>3 DEF CoreOK

LEMMA AnswersCore == ASSUME CallOK, CoreOK, CoreAnswers PROVE CoreOK'
<1>0. asked # <<>> /\ asked \in Seq(Calls) /\ wire \in Seq(Lines)
  BY DEF CoreOK, CoreAnswers
<1>1. Head(asked) \in Calls /\ Tail(asked) \in Seq(Calls)
  BY <1>0
<1>2. Reply(Head(asked)) \in Lines
  BY <1>1, BridgeBounds DEF Reply, Lines, Calls
<1>3. asked' \in Seq(Calls) /\ wire' \in Seq(Lines)
  BY <1>0, <1>1, <1>2 DEF CoreAnswers
<1>4. coreCap' \in BOOLEAN
  <2>1. method[Head(asked)] \in Methods
    BY <1>1 DEF CallOK
  <2>2. CASE method[Head(asked)] = "start"
    BY <2>2, Zenon DEF CoreAnswers
  <2>3. CASE method[Head(asked)] = "stop"
    <3>1. coreCap' \in {FALSE}
      BY <2>3, Zenon DEF CoreAnswers
    <3> QED
      BY <3>1, Zenon
  <2>4. CASE method[Head(asked)] = "status"
    <3>1. coreCap' \in {coreCap}
      BY <2>4, Zenon DEF CoreAnswers
    <3> QED
      BY <3>1, Zenon DEF CoreOK
  <2> QED
    BY <2>1, <2>2, <2>3, <2>4 DEF Methods
<1>5. buffer' = buffer /\ coreEvents' = coreEvents
  BY DEF CoreAnswers
<1> QED
  BY <1>3, <1>4, <1>5 DEF CoreOK

LEMMA EventCore == ASSUME CoreOK, CoreEvent PROVE CoreOK'
<1>1. coreEvents' \in Nat /\ asked' = asked /\ buffer' = buffer /\ (coreCap' <=> coreCap)
  BY DEF CoreOK, CoreEvent
<1>2. wire' \in Seq(Lines)
  <2>1. Event(coreEvents') \in Lines
    BY <1>1 DEF Event, Lines
  <2> QED
    BY <2>1 DEF CoreOK, CoreEvent
<1>3. coreCap' \in BOOLEAN
  BY Zenon DEF CoreOK, CoreEvent
<1> QED
  BY <1>1, <1>2, <1>3 DEF CoreOK

LEMMA DataCalls == ASSUME CallOK, NEW n, Data(n) PROVE CallOK'
<1>1. Answered(n) \subseteq pending
  BY DEF Answered
<1>2. promise' = [c \in Calls |-> IF c \in Answered(n) THEN "answered" ELSE promise[c]]
  BY DEF Data
<1>3. pending' = pending \ Answered(n) /\ used' = used /\ method' = method
  BY DEF Data
<1> HIDE DEF Answered
<1>4. promise' \in [Calls -> {"unused", "waiting", "answered", "failed"}]
  BY <1>2 DEF CallOK
<1>5. pending' = {c \in Calls : promise'[c] = "waiting"}
  BY <1>1, <1>2, <1>3 DEF CallOK
<1>6. \A c \in Calls : c > used => c \notin pending
  BY DEF CallOK
<1> QED
  BY <1>1, <1>2, <1>3, <1>4, <1>5, <1>6 DEF CallOK

LEMMA DataCore == ASSUME CoreOK, NEW n, Data(n) PROVE CoreOK'
<1>1. wire' \in Seq(Lines) /\ buffer' = "empty" /\ asked' = asked /\ coreEvents' = coreEvents
  BY DEF CoreOK, Data
<1>2. coreCap' \in BOOLEAN
  BY Zenon DEF CoreOK, Data
<1> QED
  BY <1>1, <1>2 DEF CoreOK

LEMMA BridgeInvStep == DialInv /\ BridgeInv /\ DialSteps /\ BridgeActions => BridgeInv'
<1> SUFFICES ASSUME DialInv, BridgeInv, DialSteps, BridgeActions PROVE BridgeInv'
    OBVIOUS
<1>0. DialOK /\ DemoOK /\ CallOK /\ CoreOK
  BY BridgeInvParts
<1>d. DialOK'
  BY <1>0, DialOKStep
<1>p. DialOK' /\ DemoOK' /\ CallOK' /\ CoreOK' => BridgeInv'
  BY DEF BridgeInv, BridgeTypeOK, DialOK, DemoOK, CallOK, CoreOK, Lines
<1> SUFFICES DemoOK' /\ CallOK' /\ CoreOK'
    BY <1>d, <1>p
<1>u. ASSUME UNCHANGED <<used, method, promise, pending>> PROVE CallOK'
  BY <1>0, <1>u DEF CallOK
<1>v. ASSUME UNCHANGED <<buffer, asked, wire, coreCap, coreEvents>> PROVE CoreOK'
  BY <1>0, <1>v, Zenon DEF CoreOK
<1>r. ASSUME NEW m \in Methods, NEW connected, Request(m, connected)
      PROVE  DemoOK' /\ CallOK' /\ CoreOK'
  <2>1. /\ used + 1 \in Calls /\ used' = used + 1
        /\ method' \in [Calls -> Methods]
        /\ promise' \in [Calls -> {"unused", "waiting", "answered", "failed"}]
        /\ \A c \in Calls : c > used' => promise'[c] = "unused"
        /\ pending' = {c \in Calls : promise'[c] = "waiting"}
        /\ asked' \in Seq(Calls)
        /\ demoTimer' \in BOOLEAN /\ demo' = demo
        /\ UNCHANGED <<buffer, wire, coreCap, coreEvents>>
    BY <1>r, RequestInv, Zenon
  <2>2. used' \in 0..MaxCalls
    BY <2>1, BridgeBounds DEF Calls
  <2> QED
    BY <1>0, <2>1, <2>2, Zenon DEF DemoOK, CallOK, CoreOK
<1>1. CASE Boot \/ Redial
  BY <1>0, <1>1, <1>u, <1>v, Zenon DEF Boot, Redial, DemoOK, demoVars, callVars, coreVars
<1>2. CASE Opened
  BY <1>2, <1>r, Zenon DEF Opened, Methods
<1>3. CASE Closed
  <2>1. CoreOK'
    BY <1>0, <1>3, ClosedCore
  <2> QED
    BY <1>0, <1>3, <1>u, <2>1, Zenon DEF Closed, DemoOK, demoVars, callVars
<1>4. CASE EnableDemo
  BY <1>0, <1>4, <1>u, <1>v, Zenon DEF EnableDemo, DemoOK, callVars, coreVars
<1>5. CASE DisableDemo
  <2>1. DemoOK'
    BY <1>0, <1>5, Zenon DEF DisableDemo, DemoOK
  <2> QED
    BY <1>5, <1>u, <1>v, <2>1, Zenon DEF DisableDemo, callVars, coreVars
<1>6. ASSUME NEW m \in Methods, Asks(m) PROVE DemoOK' /\ CallOK' /\ CoreOK'
  BY <1>6, <1>r DEF Asks
<1>7. ASSUME NEW k \in 1..MaxChunk, DemoTick(k) PROVE DemoOK' /\ CallOK' /\ CoreOK'
  <2>1. coreEvents' \in Nat
    BY <1>0, <1>7 DEF CoreOK, DemoTick
  <2>2. CoreOK'
    BY <1>0, <1>7, <2>1, Zenon DEF CoreOK, DemoTick
  <2> QED
    BY <1>0, <1>7, <1>u, <2>2, Zenon DEF DemoTick, DemoOK, demoVars, callVars
<1>8. ASSUME NEW c \in Calls, Timeout(c) PROVE DemoOK' /\ CallOK' /\ CoreOK'
  <2>1. CallOK'
    BY <1>0, <1>8 DEF CallOK, Timeout
  <2> QED
    BY <1>0, <1>8, <1>v, <2>1, Zenon DEF Timeout, DemoOK, demoVars, coreVars
<1>9. ASSUME NEW c \in Calls, promise[c] # "waiting", Forgotten(c)
      PROVE  DemoOK' /\ CallOK' /\ CoreOK'
  <2>1. CallOK'
    BY <1>0, <1>9 DEF CallOK, Forgotten
  <2> QED
    BY <1>0, <1>9, <1>v, <2>1, Zenon DEF Forgotten, DemoOK, demoVars, coreVars
<1>10. ASSUME NEW n \in 1..MaxChunk, Data(n) PROVE DemoOK' /\ CallOK' /\ CoreOK'
  <2>1. CallOK' /\ CoreOK'
    BY <1>0, <1>10, DataCalls, DataCore
  <2> QED
    BY <1>0, <1>10, <2>1, Zenon DEF Data, DemoOK, demoVars
<1>11. CASE DataPart
  <2>1. CoreOK'
    BY <1>0, <1>11, Zenon DEF CoreOK, DataPart, coreVars
  <2> QED
    BY <1>0, <1>11, <1>u, <2>1, Zenon DEF DataPart, DemoOK, demoVars, callVars
<1>12. CASE CoreAnswers
  <2>1. CoreOK'
    BY <1>0, <1>12, AnswersCore
  <2> QED
    BY <1>0, <1>12, <1>u, <2>1, Zenon DEF CoreAnswers, DemoOK, demoVars, callVars
<1>13. CASE CoreEvent
  <2>1. CoreOK'
    BY <1>0, <1>13, EventCore
  <2> QED
    BY <1>0, <1>13, <1>u, <2>1, Zenon DEF CoreEvent, DemoOK, demoVars, callVars
<1>14. CASE UNCHANGED bridgeVars
  BY <1>0, <1>14, <1>u, <1>v, Zenon DEF bridgeVars, DemoOK, demoVars, callVars, coreVars
<1> QED
  BY <1>1, <1>2, <1>3, <1>4, <1>5, <1>6, <1>7, <1>8, <1>9, <1>10, <1>11, <1>12, <1>13, <1>14
     DEF BridgeActions

-----------------------------------------------------------------------------
(* The end of a sequence.                                                  *)

LEMMA LastOfFacts ==
  ASSUME NEW S, NEW s \in Seq(S), NEW n \in Nat \ {0}
  PROVE  /\ LastOf(s, n) \in Seq(S)
         /\ Len(LastOf(s, n)) = IF Len(s) > n THEN n ELSE Len(s)
         /\ \A i \in 1..Len(LastOf(s, n)) : LastOf(s, n)[i] = s[i + (Len(s) - Len(LastOf(s, n)))]
<1>1. CASE Len(s) > n
  <2> DEFINE a == Len(s) - n + 1
  <2>1. a \in 1..(Len(s) + 1) /\ Len(s) \in Nat /\ \A i \in a..Len(s) : s[i] \in S
    BY <1>1
  <2>2. LastOf(s, n) = SubSeq(s, a, Len(s))
    BY <1>1 DEF LastOf
  <2>3. /\ SubSeq(s, a, Len(s)) \in Seq(S)
        /\ Len(SubSeq(s, a, Len(s))) = Len(s) - a + 1
        /\ \A i \in 1..(Len(s) - a + 1) : SubSeq(s, a, Len(s))[i] = s[a + i - 1]
    BY <1>1, <2>1
  <2>4. Len(s) - a + 1 = n /\ \A i \in 1..n : a + i - 1 = i + (Len(s) - n)
    BY <2>1
  <2> HIDE DEF a
  <2> QED
    BY <1>1, <2>2, <2>3, <2>4
<1>2. CASE ~(Len(s) > n)
  BY <1>2 DEF LastOf
<1> QED
  BY <1>1, <1>2

(* Cutting before and after appending is cutting after appending.          *)
LEMMA LastOfAppend ==
  ASSUME NEW S, NEW r \in Seq(S), NEW es \in Seq(S), NEW n \in Nat \ {0}
  PROVE  LastOf(LastOf(r, n) \o es, n) = LastOf(r \o es, n)
<1> DEFINE q == LastOf(r, n)
           a == LastOf(q \o es, n)
           b == LastOf(r \o es, n)
<1>1. /\ q \in Seq(S) /\ Len(q) = (IF Len(r) > n THEN n ELSE Len(r))
      /\ \A i \in 1..Len(q) : q[i] = r[i + (Len(r) - Len(q))]
  BY LastOfFacts
<1>2. /\ Len(r) \in Nat /\ Len(q) \in Nat /\ Len(es) \in Nat /\ Len(q) <= Len(r)
  BY <1>1
<1>3. /\ q \o es \in Seq(S) /\ Len(q \o es) = Len(q) + Len(es)
      /\ \A i \in 1..Len(q \o es) : (q \o es)[i] = IF i <= Len(q) THEN q[i] ELSE es[i - Len(q)]
  BY <1>1
<1>4. /\ r \o es \in Seq(S) /\ Len(r \o es) = Len(r) + Len(es)
      /\ \A i \in 1..Len(r \o es) : (r \o es)[i] = IF i <= Len(r) THEN r[i] ELSE es[i - Len(r)]
  OBVIOUS
<1>5. /\ a \in Seq(S) /\ Len(a) = (IF Len(q \o es) > n THEN n ELSE Len(q \o es))
      /\ \A i \in 1..Len(a) : a[i] = (q \o es)[i + (Len(q \o es) - Len(a))]
  BY <1>3, LastOfFacts
<1>6. /\ b \in Seq(S) /\ Len(b) = (IF Len(r \o es) > n THEN n ELSE Len(r \o es))
      /\ \A i \in 1..Len(b) : b[i] = (r \o es)[i + (Len(r \o es) - Len(b))]
  BY <1>4, LastOfFacts
<1> HIDE DEF q, a, b
<1>7. Len(a) = Len(b) /\ Len(a) \in Nat
  BY <1>1, <1>2, <1>3, <1>4, <1>5, <1>6
<1>8. ASSUME NEW i \in 1..Len(a) PROVE a[i] = b[i]
  <2> DEFINE j == i + (Len(q) + Len(es) - Len(a))
             k == i + (Len(r) + Len(es) - Len(a))
  <2>1. j \in 1..(Len(q) + Len(es)) /\ k \in 1..(Len(r) + Len(es)) /\ k = j + (Len(r) - Len(q))
    <3>1. Len(a) <= Len(q) + Len(es)
      BY <1>2, <1>3, <1>5
    <3> QED
      BY <1>2, <1>7, <3>1
  <2>2. a[i] = (q \o es)[j] /\ b[i] = (r \o es)[k]
    <3>1. a[i] = (q \o es)[i + (Len(q \o es) - Len(a))]
      BY <1>5
    <3>2. b[i] = (r \o es)[i + (Len(r \o es) - Len(b))]
      BY <1>6, <1>7
    <3>3. Len(q \o es) = Len(q) + Len(es) /\ Len(r \o es) = Len(r) + Len(es) /\ Len(b) = Len(a)
      BY <1>3, <1>4, <1>7
    <3> QED
      BY <3>1, <3>2, <3>3
  <2> HIDE DEF j, k
  <2>3. CASE j <= Len(q)
    <3>0. j \in 1..Len(q) /\ k <= Len(r) /\ j \in 1..Len(q \o es) /\ k \in 1..Len(r \o es)
      BY <1>2, <1>3, <1>4, <2>1, <2>3
    <3>1. (q \o es)[j] = q[j] /\ q[j] = r[k] /\ (r \o es)[k] = r[k]
      <4>1. (q \o es)[j] = q[j]
        BY <1>3, <2>3, <3>0
      <4>2. q[j] = r[k]
        BY <1>1, <2>1, <3>0
      <4>3. (r \o es)[k] = r[k]
        BY <1>4, <3>0
      <4> QED
        BY <4>1, <4>2, <4>3
    <3> QED
      BY <2>2, <3>1
  <2>4. CASE ~(j <= Len(q))
    <3>1. (q \o es)[j] = es[j - Len(q)]
      BY <1>3, <2>1, <2>4
    <3>2. ~(k <= Len(r)) /\ k - Len(r) = j - Len(q)
      BY <1>2, <2>1, <2>4
    <3>3. (r \o es)[k] = es[k - Len(r)]
      BY <1>4, <2>1, <3>2
    <3> QED
      BY <2>2, <3>1, <3>2, <3>3
  <2> QED
    BY <2>3, <2>4
<1>9. a = b
  BY <1>5, <1>6, <1>7, <1>8, SeqEqual
<1> QED
  BY <1>9 DEF a, b, q

(* Of the newest events after some arrived, an old one was among the       *)
(* newest before.                                                          *)
LEMMA NewestOld ==
  ASSUME NEW S, NEW s \in Seq(S), NEW es \in Seq(S), NEW m \in Nat \ {0}, NEW n \in Nat \ {0}
  PROVE  ToSet(LastOf(LastOf(s \o es, m), n)) \subseteq ToSet(LastOf(s, n)) \cup ToSet(es)
<1> DEFINE r == s \o es
           q == LastOf(r, m)
           a == LastOf(q, n)
           b == LastOf(s, n)
<1>1. /\ r \in Seq(S) /\ Len(r) = Len(s) + Len(es)
      /\ \A i \in 1..Len(r) : r[i] = IF i <= Len(s) THEN s[i] ELSE es[i - Len(s)]
  OBVIOUS
<1>2. /\ q \in Seq(S) /\ Len(q) = (IF Len(r) > m THEN m ELSE Len(r))
      /\ \A i \in 1..Len(q) : q[i] = r[i + (Len(r) - Len(q))]
  BY <1>1, LastOfFacts
<1>3. /\ a \in Seq(S) /\ Len(a) = (IF Len(q) > n THEN n ELSE Len(q))
      /\ \A i \in 1..Len(a) : a[i] = q[i + (Len(q) - Len(a))]
  BY <1>2, LastOfFacts
<1>4. /\ b \in Seq(S) /\ Len(b) = (IF Len(s) > n THEN n ELSE Len(s))
      /\ \A i \in 1..Len(b) : b[i] = s[i + (Len(s) - Len(b))]
  BY LastOfFacts
<1> HIDE DEF r, q, a, b
<1>5. /\ Len(s) \in Nat /\ Len(es) \in Nat /\ Len(r) \in Nat /\ Len(q) \in Nat /\ Len(a) \in Nat
      /\ Len(b) \in Nat
  BY <1>1, <1>2, <1>3, <1>4
<1>6. ASSUME NEW i \in 1..Len(a)
      PROVE  (\E k \in 1..Len(b) : a[i] = b[k]) \/ (\E k \in 1..Len(es) : a[i] = es[k])
  <2> DEFINE j == i + (Len(r) - Len(a))
  <2>0. /\ i + (Len(q) - Len(a)) \in 1..Len(q) /\ j \in 1..Len(r)
        /\ (i + (Len(q) - Len(a))) + (Len(r) - Len(q)) = j
        /\ j <= Len(s) => /\ j - (Len(s) - Len(b)) \in 1..Len(b)
                          /\ (j - (Len(s) - Len(b))) + (Len(s) - Len(b)) = j
        /\ ~(j <= Len(s)) => j - Len(s) \in 1..Len(es)
    <3>1. /\ Len(r) = Len(s) + Len(es) /\ Len(q) = (IF Len(r) > m THEN m ELSE Len(r))
          /\ Len(a) = (IF Len(q) > n THEN n ELSE Len(q))
          /\ Len(b) = (IF Len(s) > n THEN n ELSE Len(s))
      BY <1>1, <1>2, <1>3, <1>4
    <3>2. Len(a) <= Len(q) /\ Len(q) <= Len(r) /\ Len(a) <= n
      BY <1>5, <3>1
    <3>3. /\ j \in 1..Len(r) /\ i + (Len(q) - Len(a)) \in 1..Len(q)
          /\ (i + (Len(q) - Len(a))) + (Len(r) - Len(q)) = j
          /\ j \in Int /\ j >= 1 /\ j <= Len(r) /\ j + n > Len(r)
      BY <1>5, <3>2
    <3> HIDE DEF j
    <3>4. ~(j <= Len(s)) => j - Len(s) \in 1..Len(es)
      BY <1>5, <3>1, <3>3
    <3>5. ASSUME j <= Len(s)
          PROVE  /\ j - (Len(s) - Len(b)) \in 1..Len(b)
                 /\ (j - (Len(s) - Len(b))) + (Len(s) - Len(b)) = j
      <4>1. CASE Len(s) > n
        BY <1>5, <3>1, <3>2, <3>3, <3>5, <4>1
      <4>2. CASE ~(Len(s) > n)
        BY <1>5, <3>1, <3>2, <3>3, <3>5, <4>2
      <4> QED
        BY <4>1, <4>2
    <3> QED
      BY <3>3, <3>4, <3>5
  <2> HIDE DEF j
  <2>1. i + (Len(q) - Len(a)) \in 1..Len(q) /\ j \in 1..Len(r)
    BY <2>0
  <2>2. a[i] = r[j]
    <3>1. a[i] = q[i + (Len(q) - Len(a))]
      BY <1>3
    <3>2. q[i + (Len(q) - Len(a))] = r[(i + (Len(q) - Len(a))) + (Len(r) - Len(q))]
      BY <1>2, <2>1
    <3> QED
      BY <2>0, <3>1, <3>2
  <2>5. CASE j <= Len(s)
    <3>1. b[j - (Len(s) - Len(b))] = s[j]
      BY <1>4, <2>0, <2>5
    <3>2. r[j] = s[j]
      BY <1>1, <2>1, <2>5
    <3> QED
      BY <2>0, <2>2, <2>5, <3>1, <3>2
  <2>6. CASE ~(j <= Len(s))
    <3>1. r[j] = es[j - Len(s)]
      BY <1>1, <2>1, <2>6
    <3> QED
      BY <2>0, <2>2, <2>6, <3>1
  <2> QED
    BY <2>5, <2>6
<1>7. DOMAIN a = 1..Len(a) /\ DOMAIN b = 1..Len(b) /\ DOMAIN es = 1..Len(es)
  BY <1>3, <1>4
<1>8. ToSet(a) \subseteq ToSet(b) \cup ToSet(es)
  BY <1>6, <1>7 DEF ToSet
<1> QED
  BY <1>8 DEF a, q, r, b

LEMMA ToSetNat == ASSUME NEW s \in Seq(Nat) PROVE ToSet(s) \subseteq Nat
  BY DEF ToSet

-----------------------------------------------------------------------------
(* The events of the server.                                               *)

(* The lines of one data event are lines, and their events are numbers.    *)
LEMMA NewsType == ASSUME CoreOK, NEW n, Data(n) PROVE News(n) \in Seq(Nat)
<1>1. n \in 1..Len(wire) /\ wire \in Seq(Lines)
  BY DEF Data, CoreOK
<1>2. SubSeq(wire, 1, n) \in Seq(Lines) /\ Len(SubSeq(wire, 1, n)) = n /\ n # 0
  BY <1>1
<1>3. SubSeq(wire, 1, n) # <<>>
  <2>1. ASSUME NEW q, q = <<>> PROVE Len(q) = 0
    BY <2>1
  <2> QED
    BY <1>2, <2>1, Zenon
<1>4. Parsed(n) \in Seq(Lines)
  BY <1>2, <1>3 DEF Parsed
<1> QED
  BY <1>4, EventIdsType DEF News

DataOK == events \in Seq(Nat) /\ received \in Seq(Nat) /\ BufferIsNewest

(* Only a page's clear and the bridge's events touch the buffer.           *)
DataSteps == \/ UNCHANGED dataVars
             \/ \E b \in Browsers : Clear(b)
             \/ \E es \in Seq(Nat) : Captured(es)

LEMMA StepData == BridgeInv /\ [Next]_vars => DataSteps
<1> SUFFICES ASSUME BridgeInv, [Next]_vars PROVE DataSteps
    OBVIOUS
<1> USE DEF DataSteps
<1>1. ASSUME NEW b \in Browsers, NEW reloaded \in BOOLEAN, Connect(b, reloaded)
      PROVE  UNCHANGED dataVars
  BY <1>1 DEF Connect
<1>2. ASSUME NEW b \in Browsers, Leave(b) \/ Start(b) \/ Stop(b) \/ Query(b)
      PROVE  UNCHANGED dataVars
  BY <1>2 DEF Leave, Start, Stop, Query
<1>3. ASSUME NEW b \in Browsers, DemoOn(b) \/ DemoOff(b) PROVE UNCHANGED dataVars
  BY <1>3 DEF DemoOn, DemoOff, guiVars, dataVars
<1>4. ASSUME NEW c \in Calls, Resume(c) \/ TimedOut(c) PROVE UNCHANGED dataVars
  BY <1>4 DEF Resume, TimedOut, guiVars, dataVars
<1>5. CASE CoreData
  <2>1. PICK n \in 1..MaxChunk : Data(n) /\ Captured(News(n))
    BY <1>5 DEF CoreData
  <2>2. News(n) \in Seq(Nat)
    BY <2>1, BridgeInvParts, NewsType
  <2> QED
    BY <2>1, <2>2
<1>6. CASE DemoData
  <2>1. PICK k \in 1..MaxChunk : Captured([i \in 1..k |-> coreEvents + i])
    BY <1>6 DEF DemoData
  <2>2. [i \in 1..k |-> coreEvents + i] \in Seq(Nat)
    BY BridgeBounds DEF BridgeInv, BridgeTypeOK
  <2> QED
    BY <2>1, <2>2
<1>7. CASE Connected \/ BridgeStep
  BY <1>7 DEF Connected, BridgeStep, guiVars, dataVars
<1>8. CASE UNCHANGED vars
  BY <1>8 DEF vars, guiVars
<1> QED
  BY <1>1, <1>2, <1>3, <1>4, <1>5, <1>6, <1>7, <1>8, Zenon DEF Next

LEMMA DataInit == Init => DataOK
  BY GuiBounds DEF Init, DataOK, BufferIsNewest, LastOf

LEMMA DataStep == DataOK /\ DataSteps => DataOK'
<1> SUFFICES ASSUME DataOK, DataSteps PROVE DataOK'
    OBVIOUS
<1> USE DEF DataOK, BufferIsNewest
<1>1. CASE UNCHANGED dataVars
  BY <1>1 DEF dataVars
<1>2. ASSUME NEW b \in Browsers, Clear(b) PROVE DataOK'
  BY <1>2, GuiBounds DEF Clear, LastOf
<1>3. ASSUME NEW es \in Seq(Nat), Captured(es) PROVE DataOK'
  <2>1. received' = received \o es /\ events' = LastOf(events \o es, MaxBuffer)
    BY <1>3 DEF Captured
  <2>2. received' \in Seq(Nat) /\ events \o es \in Seq(Nat)
    BY <2>1
  <2>3. events' \in Seq(Nat)
    BY <2>1, <2>2, LastOfFacts, GuiBounds
  <2>4. events' = LastOf(received', MaxBuffer)
    BY <2>1, LastOfAppend, GuiBounds
  <2> QED
    BY <2>2, <2>3, <2>4
<1> QED
  BY <1>1, <1>2, <1>3 DEF DataSteps

-----------------------------------------------------------------------------
(* The pages and the callbacks that await requests.                        *)

Pages == Browsers \cup {NoBrowser}

PageOK ==
  /\ capturing \in BOOLEAN
  /\ browser \in [Browsers -> {"closed", "joined", "ready"}]
  /\ shown \in [Browsers -> BOOLEAN]
  /\ table \in [Browsers -> SUBSET Nat]

(* A callback awaits a call that was made, and the callback of a start or  *)
(* a stop awaits a call of that method.                                    *)
TaskOK ==
  /\ task \in [Calls -> [kind : {"none", "init", "start", "stop", "answer"}, page : Pages]]
  /\ \A c \in Calls : c > used => task[c] = NoTask
  /\ latest \in 0..used
  /\ \A c \in Calls : task[c].kind \in {"start", "stop"} => method[c] = task[c].kind

LEMMA PageInit == Init => PageOK
<1> SUFFICES ASSUME Init PROVE PageOK
    OBVIOUS
<1>1. capturing \in BOOLEAN /\ shown \in [Browsers -> BOOLEAN]
  BY Zenon DEF Init
<1> QED
  BY <1>1 DEF Init, PageOK

LEMMA TaskInit == Init => TaskOK
  BY DEF Init, BridgeInit, TaskOK, NoTask, Task, Pages

LEMMA PageStep == DataOK /\ DataOK' /\ PageOK /\ TaskOK /\ BridgeInv /\ [Next]_vars => PageOK'
<1> SUFFICES ASSUME DataOK, PageOK, TaskOK, BridgeInv, [Next]_vars PROVE PageOK'
    OBVIOUS
<1>i. InitEvents \subseteq Nat
  BY LastOfFacts, GuiBounds, ToSetNat DEF InitEvents, DataOK
<1>u. ASSUME UNCHANGED <<capturing, pageVars>> PROVE PageOK'
  BY <1>u, Zenon DEF PageOK, pageVars
<1>d. ASSUME NEW es \in Seq(Nat), Captured(es), UNCHANGED <<capturing, browser, shown>> PROVE PageOK'
  <2>1. table' \in [Browsers -> SUBSET Nat]
    BY <1>d, ToSetNat DEF Captured, PageOK
  <2> QED
    BY <1>d, <2>1, Zenon DEF PageOK
<1>1. ASSUME NEW b \in Browsers, NEW reloaded \in BOOLEAN, Connect(b, reloaded)
      PROVE  PageOK'
  <2>1. browser' \in [Browsers -> {"closed", "joined", "ready"}]
    <3>1. \/ browser' = [browser EXCEPT ![b] = "joined"]
          \/ browser' = [browser EXCEPT ![b] = "ready"]
      BY <1>1, Zenon DEF Connect
    <3> QED
      BY <3>1 DEF PageOK
  <2>2. shown' \in [Browsers -> BOOLEAN]
    <3>1. \E f \in BOOLEAN : shown' = [shown EXCEPT ![b] = f]
      <4>1. (shown[b] /\ ~reloaded) \in BOOLEAN
        BY Zenon
      <4> QED
        BY <1>1, <4>1, Zenon DEF Connect, PageOK
    <3> QED
      BY <3>1, Zenon DEF PageOK
  <2>3. table' \in [Browsers -> SUBSET Nat]
    <3>1. \E t \in SUBSET Nat : table' = [table EXCEPT ![b] = t]
      <4>1. \A h \in SUBSET Nat : h \cup InitEvents \in SUBSET Nat
        BY <1>i
      <4>2. {} \in SUBSET Nat /\ table[b] \in SUBSET Nat
        BY DEF PageOK
      <4> DEFINE h == IF reloaded THEN {} ELSE table[b]
      <4>3. h \in SUBSET Nat
        BY <4>2
      <4>4. table' = [table EXCEPT ![b] = h] \/ table' = [table EXCEPT ![b] = h \cup InitEvents]
        BY <1>1, Zenon DEF Connect
      <4> HIDE DEF h
      <4> QED
        BY <4>1, <4>3, <4>4
    <3> QED
      BY <3>1 DEF PageOK
  <2> QED
    BY <1>1, <2>1, <2>2, <2>3, Zenon DEF Connect, PageOK
<1>2. ASSUME NEW b \in Browsers, Leave(b) PROVE PageOK'
  <2>1. browser' \in [Browsers -> {"closed", "joined", "ready"}]
    BY <1>2 DEF Leave, PageOK
  <2> QED
    BY <1>2, <2>1, Zenon DEF Leave, PageOK
<1>3. ASSUME NEW b \in Browsers, Start(b) \/ Stop(b) PROVE PageOK'
  BY <1>3, Zenon DEF Start, Stop, PageOK, pageVars
<1>4. ASSUME NEW b \in Browsers, Clear(b) PROVE PageOK'
  <2>1. table' \in [Browsers -> SUBSET Nat]
    BY <1>4 DEF Clear, PageOK
  <2> QED
    BY <1>4, <2>1, Zenon DEF Clear, PageOK
<1>5. ASSUME NEW b \in Browsers, Query(b) \/ DemoOn(b) \/ DemoOff(b) PROVE PageOK'
  BY <1>5, <1>u, Zenon DEF Query, DemoOn, DemoOff, guiVars
<1>6. ASSUME NEW c \in Calls, Resume(c) PROVE PageOK'
  <2> DEFINE kind == task[c].kind
             b == task[c].page
  <2>1. CASE kind = "init" /\ b # NoBrowser
    <3>1. b \in Browsers
      BY <2>1 DEF TaskOK, Pages
    <3>2. InitSent(b) /\ capturing' = capturing
      BY <1>6, <2>1, Zenon DEF Resume
    <3>3. browser' \in [Browsers -> {"closed", "joined", "ready"}] /\ table' \in [Browsers -> SUBSET Nat]
      BY <1>i, <3>1, <3>2 DEF InitSent, PageOK
    <3>4. shown' \in [Browsers -> BOOLEAN]
      BY <3>2, Zenon DEF InitSent, PageOK
    <3> QED
      BY <3>2, <3>3, <3>4, Zenon DEF PageOK
  <2>2. CASE ~(kind = "init" /\ b # NoBrowser)
    <3>1. (\E f \in BOOLEAN : shown' = Told(b, f)) \/ shown' = shown
      <4>1. (kind = "start") \in BOOLEAN
        BY Zenon
      <4> QED
        BY <1>6, <2>2, <4>1, Zenon DEF Resume
    <3>2. shown' \in [Browsers -> BOOLEAN]
      BY <3>1, Zenon DEF PageOK, Told
    <3> QED
      BY <1>6, <2>2, <3>2, Zenon DEF Resume, PageOK
  <2> QED
    BY <2>1, <2>2
<1>7. ASSUME NEW c \in Calls, TimedOut(c) PROVE PageOK'
  BY <1>7, <1>u, Zenon DEF TimedOut, guiVars
<1>8. CASE CoreData
  <2>1. PICK n \in 1..MaxChunk : Data(n) /\ Captured(News(n))
    BY <1>8, Zenon DEF CoreData
  <2>2. News(n) \in Seq(Nat)
    BY <2>1, BridgeInvParts, NewsType
  <2> QED
    BY <1>8, <1>d, <2>1, <2>2, Zenon DEF CoreData
<1>9. CASE DemoData
  <2>1. PICK k \in 1..MaxChunk : Captured([i \in 1..k |-> coreEvents + i])
    BY <1>9, Zenon DEF DemoData
  <2>2. [i \in 1..k |-> coreEvents + i] \in Seq(Nat)
    BY BridgeBounds DEF BridgeInv, BridgeTypeOK
  <2> QED
    BY <1>9, <1>d, <2>1, <2>2, Zenon DEF DemoData
<1>10. CASE Connected \/ BridgeStep
  BY <1>10, <1>u, Zenon DEF Connected, BridgeStep, guiVars
<1>11. CASE UNCHANGED vars
  BY <1>11, <1>u, Zenon DEF vars, guiVars
<1> QED
  BY <1>1, <1>2, <1>3, <1>4, <1>5, <1>6, <1>7, <1>8, <1>9, <1>10, <1>11, Zenon DEF Next

LEMMA TaskStep == TaskOK /\ BridgeInv /\ [Next]_vars => TaskOK'
<1> SUFFICES ASSUME TaskOK, BridgeInv, [Next]_vars PROVE TaskOK'
    OBVIOUS
<1>u. ASSUME UNCHANGED <<callVars, task, latest>> PROVE TaskOK'
  BY <1>u DEF TaskOK, callVars
<1>r. ASSUME NEW m \in Methods, NEW connected, Request(m, connected),
             NEW k \in {"init", "start", "stop", "answer"}, NEW b \in Pages, Awaits(k, b),
             k \in {"start", "stop"} => m = k, latest' = latest
      PROVE  TaskOK'
  <2>1. /\ used + 1 \in Calls /\ used' = used + 1
        /\ method' = [method EXCEPT ![used + 1] = m] /\ method \in [Calls -> Methods]
        /\ used \in Nat
    <3>1. method \in [Calls -> Methods] /\ used \in Nat
      BY BridgeBounds DEF BridgeInv, BridgeTypeOK
    <3> QED
      BY <1>r, <3>1, RequestInv, Zenon
  <2>2. task' = [task EXCEPT ![used + 1] = [kind |-> k, page |-> b]]
    BY <1>r DEF Awaits, Task
  <2>3. task' \in [Calls -> [kind : {"none", "init", "start", "stop", "answer"}, page : Pages]]
    BY <2>1, <2>2 DEF TaskOK
  <2>4. \A c \in Calls : c > used' => task'[c] = NoTask
    <3>1. \A c \in Calls : c \in Nat
      BY BridgeBounds DEF Calls
    <3>2. \A c \in Calls : c > used' => c # used + 1 /\ c > used
      BY <2>1, <3>1
    <3> QED
      BY <2>2, <3>2 DEF TaskOK
  <2>5. latest' \in 0..used'
    BY <1>r, <2>1 DEF TaskOK
  <2>6. \A c \in Calls : task'[c].kind \in {"start", "stop"} => method'[c] = task'[c].kind
    BY <1>r, <2>1, <2>2 DEF TaskOK
  <2> QED
    BY <2>3, <2>4, <2>5, <2>6 DEF TaskOK
<1>m. {"start", "stop", "status"} \subseteq Methods
  BY DEF Methods
<1>p. NoBrowser \in Pages /\ Browsers \subseteq Pages
  BY DEF Pages
<1>1. ASSUME NEW b \in Browsers, NEW reloaded \in BOOLEAN, Connect(b, reloaded)
      PROVE  TaskOK'
  <2>1. CASE sock = "open"
    <3>1. Asks("status") /\ Awaits("init", b) /\ latest' = latest
      BY <1>1, <2>1, Zenon DEF Connect
    <3> QED
      BY <1>m, <1>p, <1>r, <3>1 DEF Asks
  <2>2. CASE sock # "open"
    BY <1>1, <1>u, <2>2, Zenon DEF Connect, bridgeVars
  <2> QED
    BY <2>1, <2>2
<1>2. ASSUME NEW b \in Browsers, Leave(b) PROVE TaskOK'
  <2>1. /\ task' = [c \in Calls |-> IF task[c].page = b THEN [task[c] EXCEPT !.page = NoBrowser]
                                                      ELSE task[c]]
        /\ UNCHANGED <<used, method, latest>>
    BY <1>2 DEF Leave, bridgeVars, callVars
  <2>2. \A c \in Calls : task'[c].kind = task[c].kind /\ (task'[c] = task[c] \/ task[c].page = b)
    BY <2>1 DEF TaskOK
  <2>3. NoTask.page # b
    BY GuiBounds DEF NoTask, Task
  <2>4. task' \in [Calls -> [kind : {"none", "init", "start", "stop", "answer"}, page : Pages]]
    BY <1>p, <2>1 DEF TaskOK
  <2> QED
    BY <2>1, <2>2, <2>3, <2>4 DEF TaskOK
<1>3. ASSUME NEW b \in Browsers, Start(b) PROVE TaskOK'
  BY <1>3, <1>m, <1>p, <1>r DEF Start, Asks
<1>4. ASSUME NEW b \in Browsers, Stop(b) PROVE TaskOK'
  BY <1>4, <1>m, <1>p, <1>r DEF Stop, Asks
<1>5. ASSUME NEW b \in Browsers, Query(b) PROVE TaskOK'
  BY <1>5, <1>m, <1>p, <1>r DEF Query, Asks
<1>6. ASSUME NEW b \in Browsers, Clear(b) \/ DemoOn(b) \/ DemoOff(b) PROVE TaskOK'
  BY <1>6, <1>u, Zenon DEF Clear, DemoOn, DemoOff, EnableDemo, DisableDemo, bridgeVars, guiVars
<1>7. ASSUME NEW c \in Calls, Resume(c) PROVE TaskOK'
  <2>1. task[c] # NoTask /\ task' = [task EXCEPT ![c] = NoTask] /\ latest' \in {c, latest}
    BY <1>7 DEF Resume, Runnable
  <2>2. UNCHANGED <<used, method>>
    BY <1>7 DEF Resume, Forgotten
  <2>3. c \in 0..used /\ NoTask \in [kind : {"none", "init", "start", "stop", "answer"}, page : Pages]
    BY <2>1, BridgeBounds DEF TaskOK, BridgeInv, BridgeTypeOK, Calls, NoTask, Task, Pages
  <2>4. NoTask.kind = "none"
    BY DEF NoTask, Task
  <2>5. latest' \in 0..used'
    BY <2>1, <2>2, <2>3 DEF TaskOK
  <2>6. task' \in [Calls -> [kind : {"none", "init", "start", "stop", "answer"}, page : Pages]]
    BY <2>1, <2>3 DEF TaskOK
  <2> QED
    BY <2>1, <2>2, <2>4, <2>5, <2>6 DEF TaskOK
<1>8. ASSUME NEW c \in Calls, TimedOut(c) PROVE TaskOK'
  BY <1>8 DEF TimedOut, Timeout, guiVars, TaskOK
<1>9. CASE CoreData
  BY <1>9 DEF CoreData, Data, TaskOK
<1>10. CASE DemoData
  BY <1>10, <1>u, Zenon DEF DemoData, DemoTick
<1>11. CASE Connected
  BY <1>11, <1>m, <1>p, <1>r DEF Connected, Opened
<1>12. CASE BridgeStep
  BY <1>12, <1>u, Zenon DEF BridgeStep, Boot, Redial, Closed, DataPart, CoreAnswers, CoreEvent, guiVars
<1>13. CASE UNCHANGED vars
  BY <1>13, <1>u, Zenon DEF vars, bridgeVars, guiVars
<1> QED
  BY <1>1, <1>2, <1>3, <1>4, <1>5, <1>6, <1>7, <1>8, <1>9, <1>10, <1>11, <1>12, <1>13, Zenon DEF Next

GuiInv == DialInv /\ BridgeInv /\ DataOK /\ PageOK /\ TaskOK

LEMMA GuiInvCorrect == Spec => []GuiInv
<1>1. Init => GuiInv
  <2>1. Init => BridgeInit
    BY DEF Init
  <2> QED
    BY <2>1, DialInit, BridgeInvInit, DataInit, PageInit, TaskInit DEF GuiInv
<1>2. GuiInv /\ [Next]_vars => GuiInv'
  <2> SUFFICES ASSUME GuiInv, [Next]_vars PROVE GuiInv'
    OBVIOUS
  <2>1. DialInv' /\ BridgeInv'
    BY DialStep, StepDials, StepBridges, BridgeInvStep, Zenon DEF GuiInv
  <2>2. DataOK'
    BY StepData, DataStep, Zenon DEF GuiInv
  <2>3. PageOK' /\ TaskOK'
    BY <2>2, PageStep, TaskStep, Zenon DEF GuiInv
  <2> QED
    BY <2>1, <2>2, <2>3, Zenon DEF GuiInv
<1> QED
  BY <1>1, <1>2, PTL DEF Spec

(* Every variable keeps its type, over any number of calls, lost           *)
(* connections and late answers.                                           *)
THEOREM GuiTypeCorrect == Spec => []GuiTypeOK
<1>1. GuiInv => GuiTypeOK
  BY DEF GuiInv, BridgeInv, DataOK, PageOK, TaskOK, GuiTypeOK
<1> QED
  BY <1>1, GuiInvCorrect, PTL

(* The server's buffer is the newest MAX_EVENTS events since the last      *)
(* clear: cutting it after every event loses none of them.                 *)
THEOREM BufferIsNewestCorrect == Spec => []BufferIsNewest
<1>1. GuiInv => BufferIsNewest
  BY DEF GuiInv, DataOK
<1> QED
  BY <1>1, GuiInvCorrect, PTL

-----------------------------------------------------------------------------
(* No page misses an event.                                                *)

LEMMA NoGapStep == GuiInv /\ NoGap /\ [Next]_vars => NoGap'
<1> SUFFICES ASSUME GuiInv, NoGap, [Next]_vars,
                    NEW p \in Browsers, browser'[p] = "ready"
             PROVE  InitEvents' \subseteq table'[p]
    BY Zenon DEF NoGap, InitEvents
<1>g. browser[p] = "ready" => InitEvents \subseteq table[p]
  BY Zenon DEF NoGap, InitEvents
<1>t. PageOK /\ TaskOK /\ DataOK
  BY DEF GuiInv
<1>e. UNCHANGED events => InitEvents' = InitEvents
  BY DEF InitEvents
<1>u. ASSUME UNCHANGED <<events, browser, table>> PROVE InitEvents' \subseteq table'[p]
  BY <1>e, <1>g, <1>u, Zenon
<1>d. ASSUME NEW es \in Seq(Nat), Captured(es), UNCHANGED browser PROVE InitEvents' \subseteq table'[p]
  <2>1. events' = LastOf(events \o es, MaxBuffer)
    BY <1>d DEF Captured
  <2>2. InitEvents' \subseteq InitEvents \cup ToSet(es)
    BY <1>t, <2>1, NewestOld, GuiBounds DEF InitEvents, DataOK
  <2>3. p \in Clients
    BY <1>d DEF Clients
  <2>4. table'[p] = table[p] \cup ToSet(es)
    BY <1>d, <2>3 DEF Captured
  <2> QED
    BY <1>d, <1>g, <2>2, <2>4
<1>1. ASSUME NEW b \in Browsers, NEW reloaded \in BOOLEAN, Connect(b, reloaded)
      PROVE  InitEvents' \subseteq table'[p]
  <2>0. InitEvents' = InitEvents
    BY <1>1, <1>e DEF Connect, dataVars
  <2>1. CASE p # b
    <3>1. browser'[p] = browser[p] /\ table'[p] = table[p]
      <4>1. \/ browser' = [browser EXCEPT ![b] = "joined"]
            \/ browser' = [browser EXCEPT ![b] = "ready"]
        BY <1>1, Zenon DEF Connect
      <4>2. \E t : table' = [table EXCEPT ![b] = t]
        BY <1>1, Zenon DEF Connect
      <4> QED
        BY <1>t, <2>1, <4>1, <4>2 DEF PageOK
    <3> QED
      BY <1>g, <2>0, <3>1
  <2>2. CASE p = b
    <3>1. sock # "open"
      BY <1>1, <1>t, <2>2 DEF Connect, PageOK
    <3> DEFINE held == IF reloaded THEN {} ELSE table[b]
    <3>2. table' = [table EXCEPT ![b] = held \cup InitEvents]
      BY <1>1, <3>1, Zenon DEF Connect
    <3> HIDE DEF held
    <3> QED
      BY <1>t, <2>0, <2>2, <3>2 DEF PageOK
  <2> QED
    BY <2>1, <2>2
<1>2. ASSUME NEW b \in Browsers, Leave(b) PROVE InitEvents' \subseteq table'[p]
  <2>1. browser[p] = "ready"
    BY <1>2, <1>t DEF Leave, PageOK
  <2> QED
    BY <1>2, <1>e, <1>g, <2>1 DEF Leave, dataVars
<1>3. ASSUME NEW b \in Browsers, Start(b) \/ Stop(b) \/ Query(b) \/ DemoOn(b) \/ DemoOff(b)
      PROVE  InitEvents' \subseteq table'[p]
  BY <1>3, <1>u, Zenon DEF Start, Stop, Query, DemoOn, DemoOff, guiVars, dataVars, pageVars
<1>4. ASSUME NEW b \in Browsers, Clear(b) PROVE InitEvents' \subseteq table'[p]
  <2>1. events' = <<>>
    BY <1>4 DEF Clear
  <2>2. InitEvents' = {}
    BY <2>1, GuiBounds DEF InitEvents, LastOf, ToSet
  <2> QED
    BY <2>2
<1>5. ASSUME NEW c \in Calls, Resume(c) PROVE InitEvents' \subseteq table'[p]
  <2>1. UNCHANGED events
    BY <1>5 DEF Resume, dataVars
  <2>2. CASE task[c].kind = "init" /\ task[c].page # NoBrowser
    <3>1. InitSent(task[c].page) /\ task[c].page \in Browsers
      BY <1>5, <1>t, <2>2, Zenon DEF Resume, TaskOK, Pages
    <3>2. CASE p = task[c].page
      BY <1>e, <1>t, <2>1, <3>1, <3>2 DEF InitSent, PageOK
    <3>3. CASE p # task[c].page
      BY <1>e, <1>g, <1>t, <2>1, <3>1, <3>3 DEF InitSent, PageOK
    <3> QED
      BY <3>2, <3>3
  <2>3. CASE ~(task[c].kind = "init" /\ task[c].page # NoBrowser)
    BY <1>5, <1>u, <2>1, <2>3, Zenon DEF Resume
  <2> QED
    BY <2>2, <2>3
<1>6. ASSUME NEW c \in Calls, TimedOut(c) PROVE InitEvents' \subseteq table'[p]
  BY <1>6, <1>u, Zenon DEF TimedOut, guiVars, dataVars, pageVars
<1>7. CASE CoreData
  <2>1. PICK n \in 1..MaxChunk : Data(n) /\ Captured(News(n))
    BY <1>7, Zenon DEF CoreData
  <2>2. News(n) \in Seq(Nat)
    BY <2>1, BridgeInvParts, NewsType DEF GuiInv
  <2> QED
    BY <1>7, <1>d, <2>1, <2>2, Zenon DEF CoreData
<1>8. CASE DemoData
  <2>1. PICK k \in 1..MaxChunk : Captured([i \in 1..k |-> coreEvents + i])
    BY <1>8, Zenon DEF DemoData
  <2>2. [i \in 1..k |-> coreEvents + i] \in Seq(Nat)
    BY BridgeBounds DEF GuiInv, BridgeInv, BridgeTypeOK
  <2> QED
    BY <1>8, <1>d, <2>1, <2>2, Zenon DEF DemoData
<1>9. CASE Connected \/ BridgeStep
  BY <1>9, <1>u, Zenon DEF Connected, BridgeStep, guiVars, dataVars, pageVars
<1>10. CASE UNCHANGED vars
  BY <1>10, <1>u, Zenon DEF vars, guiVars, dataVars, pageVars
<1> QED
  BY <1>1, <1>2, <1>3, <1>4, <1>5, <1>6, <1>7, <1>8, <1>9, <1>10, Zenon DEF Next

(* A page that has its init message holds the newest events of the server, *)
(* for every size of the buffer and of the message, and whatever arrived   *)
(* while the USBPcap status was awaited.                                   *)
THEOREM NoGapCorrect == Spec => []NoGap
<1>1. Init => NoGap
  BY DEF Init, NoGap
<1> QED
  BY <1>1, NoGapStep, GuiInvCorrect, PTL DEF Spec

-----------------------------------------------------------------------------
(* The pages show what the server records.                                 *)

(* The server records what the last start or stop asked for.               *)
AgreeInv ==
  /\ \A c \in CaptureCalls : (\A d \in CaptureCalls : d <= c) => (capturing <=> method[c] = "start")
  /\ PagesAgree

(* A step that asks for nothing and tells nobody.                          *)
LEMMA AgreeKept ==
  ASSUME AgreeInv, UNCHANGED <<used, method, capturing, latest>>,
         \A p \in Browsers : browser'[p] = "ready" =>
           \/ browser[p] = "ready" /\ (shown'[p] <=> shown[p])
           \/ shown'[p] <=> capturing,
         shown' \in [Browsers -> BOOLEAN], shown \in [Browsers -> BOOLEAN], capturing \in BOOLEAN
  PROVE  AgreeInv'
<1>1. CaptureCalls' = CaptureCalls
  BY DEF CaptureCalls
<1>2. ASSUME latest \in CaptureCalls, \A c \in CaptureCalls : c <= latest,
             NEW p \in Browsers, browser'[p] = "ready"
      PROVE  shown'[p] = capturing'
  <2>1. browser[p] = "ready" => shown[p] = capturing
    BY <1>2, Zenon DEF AgreeInv, PagesAgree
  <2>2. shown'[p] \in BOOLEAN /\ shown[p] \in BOOLEAN
    BY Zenon
  <2> QED
    BY <1>2, <2>1, <2>2, Zenon
<1>3. PagesAgree'
  BY <1>1, <1>2, Zenon DEF PagesAgree
<1>4. \A c \in CaptureCalls' :
        (\A d \in CaptureCalls' : d <= c) => (capturing' <=> method'[c] = "start")
  BY <1>1, Zenon DEF AgreeInv
<1> QED
  BY <1>3, <1>4, Zenon DEF AgreeInv

(* A call: no page is told anything before it is answered.                 *)
LEMMA AgreeCall ==
  ASSUME AgreeInv, BridgeInv, PageOK, TaskOK, NEW m \in Methods, NEW connected,
         Request(m, connected), latest' = latest,
         m = "start" => capturing' = TRUE, m = "stop" => capturing' = FALSE,
         m = "status" => /\ capturing' = capturing
                         /\ \A p \in Browsers : browser'[p] = "ready" =>
                              browser[p] = "ready" /\ shown'[p] = shown[p]
  PROVE  AgreeInv'
<1>0. /\ used + 1 \in Calls /\ used' = used + 1 /\ used \in Nat /\ latest \in 0..used
      /\ method' = [method EXCEPT ![used + 1] = m] /\ method \in [Calls -> Methods]
  <2>1. method \in [Calls -> Methods] /\ used \in Nat
    BY BridgeBounds DEF BridgeInv, BridgeTypeOK
  <2>2. latest \in 0..used
    BY DEF TaskOK
  <2> QED
    BY <2>1, <2>2, RequestInv, Zenon
<1>1. \A c \in 1..used : c \in Calls /\ c # used + 1 /\ method'[c] = method[c]
  BY <1>0, BridgeBounds DEF Calls
<1>2. CASE m = "status"
  <2>1. CaptureCalls' = CaptureCalls
    BY <1>0, <1>1, <1>2 DEF CaptureCalls
  <2>2. \A c \in CaptureCalls : method'[c] = method[c]
    BY <1>1 DEF CaptureCalls
  <2>3. \A c \in CaptureCalls' :
          (\A d \in CaptureCalls' : d <= c) => (capturing' <=> method'[c] = "start")
    <3>1. ASSUME NEW c \in CaptureCalls, \A d \in CaptureCalls : d <= c
          PROVE  capturing' <=> method'[c] = "start"
      <4>1. capturing <=> method[c] = "start"
        BY <3>1, Zenon DEF AgreeInv
      <4>2. method'[c] = method[c] /\ capturing' = capturing
        BY <1>2, <2>2, Zenon
      <4> QED
        BY <4>1, <4>2, Zenon
    <3> QED
      BY <2>1, <3>1, Zenon
  <2>4. PagesAgree'
    BY <1>2, <2>1, Zenon DEF AgreeInv, PagesAgree
  <2> QED
    BY <2>3, <2>4, Zenon DEF AgreeInv
<1>3. CASE m # "status"
  <2>0. m \in {"start", "stop"}
    BY <1>3 DEF Methods
  <2>1. method'[used + 1] = m /\ used + 1 \in CaptureCalls'
    BY <1>0, <2>0 DEF CaptureCalls
  <2>2. \A c \in CaptureCalls' : used + 1 <= c => c = used + 1
    BY <1>0 DEF CaptureCalls
  <2>3. capturing' <=> m = "start"
    BY <2>0, Zenon
  <2>4. \A c \in CaptureCalls' :
          (\A d \in CaptureCalls' : d <= c) => (capturing' <=> method'[c] = "start")
    BY <2>1, <2>2, <2>3, Zenon
  <2>5. ~(used + 1 <= latest')
    BY <1>0
  <2>6. PagesAgree'
    BY <2>1, <2>5, Zenon DEF PagesAgree
  <2> QED
    BY <2>4, <2>6, Zenon DEF AgreeInv
<1> QED
  BY <1>2, <1>3

(* The answer of a start or a stop.                                        *)
LEMMA AgreeTold ==
  ASSUME AgreeInv, PageOK, TaskOK, NEW c \in Calls, Resume(c),
         task[c].kind \in {"start", "stop"}, promise[c] = "answered"
  PROVE  AgreeInv'
<1> DEFINE kind == task[c].kind
           b == task[c].page
<1>1. /\ shown' = Told(b, kind = "start") /\ latest' = c
      /\ UNCHANGED <<browser, capturing, used, method>>
  BY Zenon DEF Resume, Forgotten
<1>2. method[c] = kind
  BY Zenon DEF TaskOK
<1>3. CaptureCalls' = CaptureCalls
  BY <1>1 DEF CaptureCalls
<1>4. \A d \in CaptureCalls' :
        (\A e \in CaptureCalls' : e <= d) => (capturing' <=> method'[d] = "start")
  BY <1>1, <1>3, Zenon DEF AgreeInv
<1>5. ASSUME c \in CaptureCalls, \A d \in CaptureCalls : d <= c,
             NEW p \in Browsers, browser[p] = "ready"
      PROVE  shown'[p] = capturing
  <2>1. capturing <=> kind = "start"
    BY <1>2, <1>5, Zenon DEF AgreeInv
  <2>2. shown'[p] = (kind = "start")
    <3>1. p \in Clients
      BY <1>5 DEF Clients
    <3> QED
      BY <1>1, <3>1, Zenon DEF Told
  <2>3. capturing \in BOOLEAN /\ (kind = "start") \in BOOLEAN
    BY Zenon DEF PageOK
  <2> QED
    BY <2>1, <2>2, <2>3, Zenon
<1>6. PagesAgree'
  BY <1>1, <1>3, <1>5, Zenon DEF PagesAgree
<1> QED
  BY <1>4, <1>6, Zenon DEF AgreeInv

LEMMA AgreeStep == GuiInv /\ PageOK' /\ AgreeInv /\ [Next]_vars => AgreeInv'
<1> SUFFICES ASSUME GuiInv, PageOK', AgreeInv, [Next]_vars PROVE AgreeInv'
    OBVIOUS
<1>t. BridgeInv /\ PageOK /\ TaskOK
  BY DEF GuiInv
<1>s. shown' \in [Browsers -> BOOLEAN] /\ shown \in [Browsers -> BOOLEAN] /\ capturing \in BOOLEAN
  BY <1>t, Zenon DEF PageOK
<1>m. "start" \in Methods /\ "stop" \in Methods /\ "status" \in Methods
  BY DEF Methods
<1>u. ASSUME UNCHANGED <<used, method, capturing, latest, browser, shown>> PROVE AgreeInv'
  BY <1>s, <1>u, AgreeKept, Zenon
<1>1. ASSUME NEW b \in Browsers, NEW reloaded \in BOOLEAN, Connect(b, reloaded)
      PROVE  AgreeInv'
  <2>0. capturing' = capturing /\ latest' = latest
    BY <1>1, Zenon DEF Connect
  <2>1. CASE sock = "open"
    <3>1. Request("status", sock = "open") /\ browser' = [browser EXCEPT ![b] = "joined"]
      BY <1>1, <2>1, Zenon DEF Connect, Asks
    <3>2. \E f : shown' = [shown EXCEPT ![b] = f]
      BY <1>1, <2>1, Zenon DEF Connect
    <3>3. ASSUME NEW p \in Browsers, browser'[p] = "ready"
          PROVE  browser[p] = "ready" /\ shown'[p] = shown[p]
      <4>1. p # b /\ browser[p] = "ready"
        BY <1>t, <3>1, <3>3 DEF PageOK
      <4>2. shown'[p] = shown[p]
        BY <1>s, <3>2, <4>1, Zenon
      <4> QED
        BY <4>1, <4>2
    <3>4. "status" # "start" /\ "status" # "stop"
      OBVIOUS
    <3> QED
      BY <1>m, <1>t, <2>0, <3>1, <3>3, <3>4, AgreeCall, Zenon
  <2>2. CASE sock # "open"
    <3>1. /\ browser' = [browser EXCEPT ![b] = "ready"] /\ shown' = [shown EXCEPT ![b] = capturing]
          /\ UNCHANGED <<used, method>>
      BY <1>1, <2>2, Zenon DEF Connect, bridgeVars, callVars
    <3>2. ASSUME NEW p \in Browsers, browser'[p] = "ready"
          PROVE  \/ browser[p] = "ready" /\ (shown'[p] <=> shown[p])
                 \/ shown'[p] <=> capturing
      <4>1. p # b => browser'[p] = browser[p]
        BY <1>t, <3>1 DEF PageOK
      <4>2. p # b => shown'[p] = shown[p]
        BY <1>s, <3>1, Zenon
      <4>3. p = b => shown'[p] = capturing
        BY <1>s, <3>1, Zenon
      <4> QED
        BY <3>2, <4>1, <4>2, <4>3, Zenon
    <3> QED
      BY <1>s, <2>0, <3>1, <3>2, AgreeKept, Zenon
  <2> QED
    BY <2>1, <2>2
<1>2. ASSUME NEW b \in Browsers, Leave(b) PROVE AgreeInv'
  <2>1. browser' = [browser EXCEPT ![b] = "closed"] /\ UNCHANGED <<used, method, capturing, shown, latest>>
    BY <1>2, Zenon DEF Leave, bridgeVars, callVars
  <2>2. \A p \in Browsers : browser'[p] = "ready" => browser[p] = "ready"
    BY <1>t, <2>1 DEF PageOK
  <2> QED
    BY <1>s, <2>1, <2>2, AgreeKept, Zenon
<1>3. ASSUME NEW b \in Browsers, Start(b) PROVE AgreeInv'
  <2>1. Request("start", sock = "open") /\ capturing' = TRUE /\ latest' = latest
    BY <1>3, Zenon DEF Start, Asks
  <2>2. "start" # "stop" /\ "start" # "status"
    OBVIOUS
  <2> QED
    BY <1>m, <1>t, <2>1, <2>2, AgreeCall, Zenon
<1>4. ASSUME NEW b \in Browsers, Stop(b) PROVE AgreeInv'
  <2>1. Request("stop", sock = "open") /\ capturing' = FALSE /\ latest' = latest
    BY <1>4, Zenon DEF Stop, Asks
  <2>2. "stop" # "start" /\ "stop" # "status"
    OBVIOUS
  <2> QED
    BY <1>m, <1>t, <2>1, <2>2, AgreeCall, Zenon
<1>q. "status" # "start" /\ "status" # "stop"
  OBVIOUS
<1>5. ASSUME NEW b \in Browsers, Query(b) PROVE AgreeInv'
  <2>1. Request("status", sock = "open") /\ UNCHANGED <<capturing, browser, shown, latest>>
    BY <1>5, Zenon DEF Query, Asks, pageVars
  <2> QED
    BY <1>m, <1>q, <1>t, <2>1, AgreeCall, Zenon
<1>6. ASSUME NEW b \in Browsers, Clear(b) \/ DemoOn(b) \/ DemoOff(b) PROVE AgreeInv'
  BY <1>6, <1>u, Zenon DEF Clear, DemoOn, DemoOff, EnableDemo, DisableDemo, bridgeVars, guiVars,
                           callVars, pageVars
<1>7. ASSUME NEW c \in Calls, Resume(c) PROVE AgreeInv'
  <2>0. UNCHANGED <<used, method, capturing>>
    BY <1>7, Zenon DEF Resume, Forgotten
  <2>1. CASE task[c].kind \in {"start", "stop"} /\ promise[c] = "answered"
    BY <1>7, <1>t, <2>1, AgreeTold, Zenon
  <2>2. CASE ~(task[c].kind \in {"start", "stop"} /\ promise[c] = "answered")
    <3>0. latest' = latest
      BY <1>7, <2>2, Zenon DEF Resume
    <3>1. CASE task[c].kind = "init" /\ task[c].page # NoBrowser
      <4>1. /\ browser' = [browser EXCEPT ![task[c].page] = "ready"]
            /\ shown' = [shown EXCEPT ![task[c].page] = capturing]
        BY <1>7, <3>1, Zenon DEF Resume, InitSent
      <4>2. ASSUME NEW p \in Browsers, browser'[p] = "ready"
            PROVE  \/ browser[p] = "ready" /\ (shown'[p] <=> shown[p])
                   \/ shown'[p] <=> capturing
        <5>1. p # task[c].page => browser'[p] = browser[p]
          BY <1>t, <4>1 DEF PageOK
        <5>2. p # task[c].page => shown'[p] = shown[p]
          BY <1>s, <4>1, Zenon
        <5>3. p = task[c].page => shown'[p] = capturing
          BY <1>s, <4>1, Zenon
        <5> QED
          BY <4>2, <5>1, <5>2, <5>3, Zenon
      <4> QED
        BY <1>s, <2>0, <3>0, <4>2, AgreeKept, Zenon
    <3>2. CASE ~(task[c].kind = "init" /\ task[c].page # NoBrowser)
      <4>1. browser' = browser /\ shown' = shown
        BY <1>7, <2>2, <3>2, Zenon DEF Resume
      <4> QED
        BY <1>u, <2>0, <3>0, <4>1, Zenon
    <3> QED
      BY <3>1, <3>2
  <2> QED
    BY <2>1, <2>2
<1>8. ASSUME NEW c \in Calls, TimedOut(c) PROVE AgreeInv'
  BY <1>8, <1>u, Zenon DEF TimedOut, Timeout, guiVars, pageVars
<1>9. CASE CoreData
  BY <1>9, <1>u, Zenon DEF CoreData, Data
<1>10. CASE DemoData
  BY <1>10, <1>u, Zenon DEF DemoData, DemoTick, callVars
<1>11. CASE Connected
  <2>1. Request("status", TRUE) /\ UNCHANGED <<capturing, browser, shown, latest>>
    BY <1>11, Zenon DEF Connected, Opened, pageVars
  <2> QED
    BY <1>m, <1>q, <1>t, <2>1, AgreeCall, Zenon
<1>12. CASE BridgeStep
  BY <1>12, <1>u, Zenon DEF BridgeStep, Boot, Redial, Closed, DataPart, CoreAnswers, CoreEvent,
                          guiVars, callVars, pageVars
<1>13. CASE UNCHANGED vars
  BY <1>13, <1>u, Zenon DEF vars, bridgeVars, guiVars, callVars, pageVars
<1> QED
  BY <1>1, <1>2, <1>3, <1>4, <1>5, <1>6, <1>7, <1>8, <1>9, <1>10, <1>11, <1>12, <1>13, Zenon DEF Next

(* Once the last start or stop has been broadcast every page shows what    *)
(* the server records, for every number of pages and calls.                *)
THEOREM PagesAgreeCorrect == Spec => []PagesAgree
<1>1. Init => AgreeInv
  BY DEF Init, BridgeInit, AgreeInv, PagesAgree, CaptureCalls
<1>2. AgreeInv => PagesAgree
  BY DEF AgreeInv
<1>3. GuiInv => PageOK
  BY DEF GuiInv
<1> QED
  BY <1>1, <1>2, <1>3, AgreeStep, GuiInvCorrect, PTL DEF Spec
=============================================================================
