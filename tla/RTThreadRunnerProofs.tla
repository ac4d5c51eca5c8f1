------------------------- MODULE RTThreadRunnerProofs -------------------------
(***************************************************************************)
(* Proofs about RTThreadRunner for every period, every set of functions    *)
(* and of threads, when one thread calls both start() and stop().          *)
(***************************************************************************)
EXTENDS RTThreadRunner, TLAPS

\* What a caller's place says about the object's members.
CallerInv ==
  \A c \in Callers :
    /\ cpc[c] \in {"store", "spawn"} =>
         m_running /\ m_thread = None /\ arg[c] \in Fns
    /\ cpc[c] = "spawn" => m_tickFn = arg[c]
    /\ cpc[c] \in {"stopping", "join"} => ~m_running
    /\ cpc[c] = "join" => m_thread # None
    /\ cpc[c] = "idle" => (m_running <=> m_thread # None)

\* The object's thread, and no other, is in its loop, with its own function.
WorkerInv ==
  \A w \in Workers :
    /\ wpc[w] # "free" <=> m_thread = w
    /\ m_thread = w => own[w] = m_tickFn

\* The timers of a worker: once its call has ended, what nextTick is behind by is what the
\* calls have overrun their periods by.
TimerInv ==
  \A w \in Workers :
    /\ wpc[w] = "free" => nextTick[w] = 0 /\ behind[w] = 0
    /\ wpc[w] = "check" => nextTick[w] = -behind[w]
    /\ wpc[w] = "tick" =>
         /\ nextTick[w] <= 0 /\ left[w] - nextTick[w] <= MaxLate + Period
         /\ behind[w] = IF left[w] - nextTick[w] > Period
                          THEN left[w] - nextTick[w] - Period ELSE 0
    /\ wpc[w] = "sleep" => behind[w] = IF nextTick[w] < 0 THEN -nextTick[w] ELSE 0

\* The time in stop() and the time still to wait, for the call and then for its period,
\* make up at most the longer of the two.
WaitInv ==
  \A c \in Callers :
    /\ waited[c] <= Longest
    /\ cpc[c] # "join" => waited[c] = 0
    /\ cpc[c] = "join" => \A w \in Workers :
         m_thread = w =>
           /\ wpc[w] = "tick" =>
                /\ waited[c] + left[w] <= Longest
                /\ waited[c] + nextTick[w] + Period <= Longest
           /\ wpc[w] = "sleep" => waited[c] + nextTick[w] <= Longest

IInv == TypeOK /\ CallerInv /\ WorkerInv /\ TimerInv /\ WaitInv /\ ~terminated

\* The bounds are numbers, and no other fact about them is needed but these.
LEMMA Bounds ==
  /\ Period \in Nat \ {0} /\ MaxTick \in Nat /\ MaxLate \in Nat /\ Cycle \in Nat \ {0}
  /\ Span \in Nat \ {0} /\ MaxLate < Span /\ Longest \in Nat
  /\ MaxTick <= Longest /\ Period <= Longest
<1>1. ASSUME NEW a \in Nat \ {0}, NEW b \in Nat \ {0} PROVE a * b \in Nat \ {0}
  BY <1>1
<1>2. Span \in Nat \ {0}
  BY <1>1, PeriodAssumption, BoundAssumption DEF Span
<1>3. QED
  BY <1>2, PeriodAssumption, BoundAssumption DEF Longest

\* Counters that wrap stay below the number they wrap at.
LEMMA Wraps == ASSUME NEW n \in Nat, NEW k \in Nat \ {0} PROVE n % k \in 0..k - 1
OBVIOUS

\* The invariant holds before the first start().
LEMMA InitIInv == Init => IInv
<1> SUFFICES ASSUME Init PROVE IInv
  OBVIOUS
<1> USE Bounds, NoneAssumption DEF Init
<1>1. TypeOK
  <2>1. 0 \in 0..Span - 1 /\ 0 \in 0..Cycle - 1 /\ 0 \in 0..MaxLate /\ 0 \in -(MaxLate + Period)..Period /\ 0 \in 0..MaxTick
    OBVIOUS
  <2>2. waited \in [Callers -> 0..Longest + 1]
    OBVIOUS
  <2>3. QED
    BY <2>1, <2>2 DEF TypeOK
<1>2. CallerInv /\ WorkerInv /\ TimerInv /\ WaitInv /\ ~terminated
  BY DEF CallerInv, WorkerInv, TimerInv, WaitInv
<1>3. QED
  BY <1>1, <1>2 DEF IInv

\* With one caller every step keeps the invariant.
LEMMA NextIInv ==
  ASSUME NEW owner, Callers = {owner}
  PROVE  IInv /\ [Next]_vars => IInv'
<1> SUFFICES ASSUME IInv, [Next]_vars PROVE IInv'
  OBVIOUS
<1> USE Bounds, NoneAssumption DEF IInv, CGoto, WGoto,
      memberVars, callerVars, timeVars, histVars
<1>1. ASSUME NEW c \in Starters, NEW f \in Fns, Start(c, f) PROVE IInv'
  <2>0. c \in Callers
    BY <1>1 DEF Callers
  <2>1. TypeOK'
    <3>1. arg' \in [Callers -> Fns \cup {None}]
      BY <1>1, <2>0 DEF Start, TypeOK
    <3>2. QED
      BY <1>1, <2>0, <3>1 DEF Start, TypeOK
  <2>2. CallerInv'
    BY <1>1, <2>0 DEF Start, TypeOK, CallerInv, WorkerInv
  <2>3. WorkerInv'
    BY <1>1, <2>0 DEF Start, TypeOK, CallerInv, WorkerInv
  <2>4. TimerInv'
    BY <1>1, <2>0 DEF Start, TypeOK, TimerInv, WorkerInv
  <2>5. WaitInv'
    BY <1>1, <2>0 DEF Start, TypeOK, CallerInv, WorkerInv, TimerInv, WaitInv
  <2>6. ~terminated'
    BY <1>1, <2>0 DEF Start, CallerInv
  <2>7. QED
    BY <2>1, <2>2, <2>3, <2>4, <2>5, <2>6
<1>2. ASSUME NEW c \in Stoppers, Stop(c) PROVE IInv'
  <2>0. c \in Callers
    BY <1>2 DEF Callers
  <2>1. TypeOK'
    <3>1. waited' \in [Callers -> 0..Longest + 1]
      BY <1>2, <2>0 DEF Stop, TypeOK
    <3>2. QED
      BY <1>2, <2>0, <3>1 DEF Stop, TypeOK, CallerInv, TimerInv
  <2>2. CallerInv'
    BY <1>2, <2>0 DEF Stop, TypeOK, CallerInv, WorkerInv
  <2>3. WorkerInv'
    BY <1>2, <2>0 DEF Stop, TypeOK, CallerInv, WorkerInv
  <2>4. TimerInv'
    BY <1>2, <2>0 DEF Stop, TypeOK, TimerInv, WorkerInv
  <2>5. WaitInv'
    BY <1>2, <2>0 DEF Stop, TypeOK, CallerInv, WorkerInv, TimerInv, WaitInv
  <2>6. ~terminated'
    BY <1>2, <2>0 DEF Stop, CallerInv
  <2>7. QED
    BY <2>1, <2>2, <2>3, <2>4, <2>5, <2>6
<1>3. ASSUME NEW c \in Callers, StartStore(c) PROVE IInv'
  <2>1. TypeOK'
    BY <1>3 DEF StartStore, TypeOK, CallerInv, TimerInv
  <2>2. CallerInv'
    BY <1>3 DEF StartStore, TypeOK, CallerInv, WorkerInv
  <2>3. WorkerInv'
    BY <1>3 DEF StartStore, TypeOK, CallerInv, WorkerInv
  <2>4. TimerInv'
    BY <1>3 DEF StartStore, TypeOK, TimerInv, WorkerInv
  <2>5. WaitInv'
    BY <1>3 DEF StartStore, TypeOK, CallerInv, WorkerInv, TimerInv, WaitInv
  <2>6. ~terminated'
    BY <1>3 DEF StartStore, CallerInv
  <2>7. QED
    BY <2>1, <2>2, <2>3, <2>4, <2>5, <2>6
<1>4. ASSUME NEW c \in Callers, StartSpawn(c) PROVE IInv'
  <2>1. TypeOK'
    BY <1>4 DEF StartSpawn, TypeOK, CallerInv, TimerInv
  <2>2. CallerInv'
    BY <1>4 DEF StartSpawn, TypeOK, CallerInv, WorkerInv
  <2>3. WorkerInv'
    BY <1>4 DEF StartSpawn, TypeOK, CallerInv, WorkerInv
  <2>4. TimerInv'
    BY <1>4 DEF StartSpawn, TypeOK, TimerInv, WorkerInv
  <2>5. WaitInv'
    BY <1>4 DEF StartSpawn, TypeOK, CallerInv, WorkerInv, TimerInv, WaitInv
  <2>6. ~terminated'
    BY <1>4 DEF StartSpawn, CallerInv
  <2>7. QED
    BY <2>1, <2>2, <2>3, <2>4, <2>5, <2>6
<1>5. ASSUME NEW c \in Callers, StopJoinable(c) PROVE IInv'
  <2>1. TypeOK'
    BY <1>5 DEF StopJoinable, TypeOK, CallerInv, TimerInv
  <2>2. CallerInv'
    BY <1>5 DEF StopJoinable, TypeOK, CallerInv, WorkerInv
  <2>3. WorkerInv'
    BY <1>5 DEF StopJoinable, TypeOK, CallerInv, WorkerInv
  <2>4. TimerInv'
    BY <1>5 DEF StopJoinable, TypeOK, TimerInv, WorkerInv
  <2>5. WaitInv'
    BY <1>5 DEF StopJoinable, TypeOK, CallerInv, WorkerInv, TimerInv, WaitInv
  <2>6. ~terminated'
    BY <1>5 DEF StopJoinable, CallerInv
  <2>7. QED
    BY <2>1, <2>2, <2>3, <2>4, <2>5, <2>6
<1>6. ASSUME NEW c \in Callers, StopJoined(c) PROVE IInv'
  <2>1. TypeOK'
    BY <1>6 DEF StopJoined, TypeOK, CallerInv, TimerInv
  <2>2. CallerInv'
    BY <1>6 DEF StopJoined, TypeOK, CallerInv, WorkerInv
  <2>3. WorkerInv'
    BY <1>6 DEF StopJoined, TypeOK, CallerInv, WorkerInv
  <2>4. TimerInv'
    BY <1>6 DEF StopJoined, TypeOK, TimerInv, WorkerInv
  <2>5. WaitInv'
    BY <1>6 DEF StopJoined, TypeOK, CallerInv, WorkerInv, TimerInv, WaitInv
  <2>6. ~terminated'
    BY <1>6 DEF StopJoined, CallerInv
  <2>7. QED
    BY <2>1, <2>2, <2>3, <2>4, <2>5, <2>6
<1>7. ASSUME NEW w \in Workers, Check(w) PROVE IInv'
  <2>1. TypeOK'
    BY <1>7 DEF Check, Call, Overrun, TypeOK, CallerInv, TimerInv
  <2>2. CallerInv'
    BY <1>7 DEF Check, Call, Overrun, TypeOK, CallerInv, WorkerInv
  <2>3. WorkerInv'
    BY <1>7 DEF Check, Call, Overrun, TypeOK, CallerInv, WorkerInv
  <2>4. TimerInv'
    BY <1>7 DEF Check, Call, Overrun, TypeOK, TimerInv, WorkerInv
  <2>5. WaitInv'
    BY <1>7 DEF Check, Call, Overrun, TypeOK, CallerInv, WorkerInv, TimerInv, WaitInv
  <2>6. ~terminated'
    BY <1>7 DEF Check, Call, Overrun, CallerInv
  <2>7. QED
    BY <2>1, <2>2, <2>3, <2>4, <2>5, <2>6
<1>8. ASSUME NEW w \in Workers, TickDone(w) PROVE IInv'
  <2>1. TypeOK'
    <3>1. calls' \in [Workers -> 0..Cycle - 1]
      <4>1. (calls[w] + 1) % Cycle \in 0..Cycle - 1
        <5>1. calls[w] + 1 \in Nat /\ Cycle \in Nat \ {0}
          BY DEF TypeOK
        <5>2. QED
          BY <5>1, Wraps
      <4>2. QED
        BY <1>8, <4>1 DEF TickDone, TypeOK
    <3>2. nextTick' \in [Workers -> -(MaxLate + Period)..Period]
      BY <1>8 DEF TickDone, TypeOK, TimerInv
    <3>3. QED
      BY <1>8, <3>1, <3>2 DEF TickDone, TypeOK
  <2>2. CallerInv'
    BY <1>8 DEF TickDone, TypeOK, CallerInv, WorkerInv
  <2>3. WorkerInv'
    BY <1>8 DEF TickDone, TypeOK, CallerInv, WorkerInv
  <2>4. TimerInv'
    BY <1>8 DEF TickDone, TypeOK, TimerInv, WorkerInv
  <2>5. WaitInv'
    BY <1>8 DEF TickDone, TypeOK, CallerInv, WorkerInv, TimerInv, WaitInv
  <2>6. ~terminated'
    BY <1>8 DEF TickDone, CallerInv
  <2>7. QED
    BY <2>1, <2>2, <2>3, <2>4, <2>5, <2>6
<1>9. ASSUME NEW w \in Workers, Wake(w) PROVE IInv'
  <2>1. TypeOK'
    BY <1>9 DEF Wake, TypeOK, CallerInv, TimerInv
  <2>2. CallerInv'
    BY <1>9 DEF Wake, TypeOK, CallerInv, WorkerInv
  <2>3. WorkerInv'
    BY <1>9 DEF Wake, TypeOK, CallerInv, WorkerInv
  <2>4. TimerInv'
    BY <1>9 DEF Wake, TypeOK, TimerInv, WorkerInv
  <2>5. WaitInv'
    BY <1>9 DEF Wake, TypeOK, CallerInv, WorkerInv, TimerInv, WaitInv
  <2>6. ~terminated'
    BY <1>9 DEF Wake, CallerInv
  <2>7. QED
    BY <2>1, <2>2, <2>3, <2>4, <2>5, <2>6
<1>10. ASSUME Advance PROVE IInv'
  <2>1. TypeOK'
    <3>1. age' \in [Workers -> 0..Span - 1]
      <4>1. \A w \in Workers : (age[w] + 1) % Span \in 0..Span - 1
        <5>1. \A w \in Workers : age[w] + 1 \in Nat
          BY DEF TypeOK
        <5>2. QED
          BY <5>1, Wraps
      <4>2. QED
        BY <1>10, <4>1 DEF Advance, TypeOK
    <3>2. left' \in [Workers -> 0..MaxTick]
      BY <1>10 DEF Advance, TypeOK, WorkerWaits
    <3>3. nextTick' \in [Workers -> -(MaxLate + Period)..Period]
      BY <1>10 DEF Advance, TypeOK, TimerInv, WorkerWaits
    <3>4. waited' \in [Callers -> 0..Longest + 1]
      BY <1>10 DEF Advance, TypeOK
    <3>5. QED
      BY <1>10, <3>1, <3>2, <3>3, <3>4 DEF Advance, TypeOK
  <2>2. CallerInv'
    BY <1>10 DEF Advance, TypeOK, CallerInv, WorkerInv, CallerWaits, WorkerWaits
  <2>3. WorkerInv'
    BY <1>10 DEF Advance, TypeOK, CallerInv, WorkerInv, CallerWaits, WorkerWaits
  <2>4. TimerInv'
    BY <1>10 DEF Advance, TypeOK, TimerInv, WorkerInv, CallerWaits, WorkerWaits
  <2>5. WaitInv'
    BY <1>10 DEF Advance, TypeOK, CallerInv, WorkerInv, TimerInv, WaitInv, CallerWaits, WorkerWaits
  <2>6. ~terminated'
    BY <1>10 DEF Advance, CallerInv
  <2>7. QED
    BY <2>1, <2>2, <2>3, <2>4, <2>5, <2>6
<1>11. CASE UNCHANGED vars
  BY <1>11 DEF vars, TypeOK, CallerInv, WorkerInv, TimerInv, WaitInv
<1>12. QED
  BY <1>1, <1>2, <1>3, <1>4, <1>5, <1>6, <1>7, <1>8, <1>9, <1>10, <1>11
     DEF Next, Caller, Worker

\* With one caller the invariant holds in every reachable state.
THEOREM Invariance ==
  ASSUME NEW owner, Callers = {owner}
  PROVE  Spec => []IInv
BY InitIInv, NextIInv, PTL DEF Spec

\* Every variable keeps its type.
THEOREM TypeCorrect ==
  ASSUME NEW owner, Callers = {owner}
  PROVE  Spec => []TypeOK
<1>1. IInv => TypeOK
  BY DEF IInv
<1>2. QED
  BY <1>1, Invariance, PTL

\* One thread ticks, and calls the function of the start() that made it.
THEOREM OnlyOneThreadTicks ==
  ASSUME NEW owner, Callers = {owner}
  PROVE  Spec => []OneThreadTicks
<1>1. IInv => OneThreadTicks
  BY DEF IInv, WorkerInv, OneThreadTicks
<1>2. QED
  BY <1>1, Invariance, PTL

\* After stop() there is no thread left.
THEOREM StopLeavesQuiet ==
  ASSUME NEW owner, Callers = {owner}
  PROVE  Spec => []QuietAfterStop
<1>1. IInv => QuietAfterStop
  BY NoneAssumption DEF IInv, CallerInv, WorkerInv, QuietAfterStop
<1>2. QED
  BY <1>1, Invariance, PTL

\* stop() waits for one call or for the rest of one period, whatever the period and however
\* far the calls have overrun it.
THEOREM StopWaitsForOneCall ==
  ASSUME NEW owner, Callers = {owner}
  PROVE  Spec => []StopIsBounded
<1>1. IInv => StopIsBounded
  BY DEF IInv, WaitInv, StopIsBounded
<1>2. QED
  BY <1>1, Invariance, PTL

\* A single caller never makes start() end the program.
THEOREM SingleCallerIsSafe ==
  ASSUME NEW owner, Callers = {owner}
  PROVE  Spec => []StartIsSafe
<1>1. IInv => StartIsSafe
  BY DEF IInv, StartIsSafe
<1>2. QED
  BY <1>1, Invariance, PTL

-----------------------------------------------------------------------------
(* The cadence.                                                            *)

\* Time and calls wrap together, after Span: the time since a worker began, together with
\* what is left until nextTick, is the periods of the calls it has made, up to one Span.
CadenceInv ==
  \A w \in Workers :
    /\ wpc[w] \in {"check", "tick", "sleep"} =>
         age[w] + nextTick[w] - calls[w] * Period \in {-Span, 0, Span}
    /\ wpc[w] = "free" => age[w] = 0 /\ calls[w] = 0

\* A counter that wraps.
LEMMA WrapStep ==
  ASSUME NEW k \in Nat \ {0}, NEW n \in 0..k - 1
  PROVE  (n + 1) % k = IF n + 1 = k THEN 0 ELSE n + 1
<1>1. CASE n + 1 = k
  BY <1>1
<1>2. CASE n + 1 # k
  BY <1>2
<1>3. QED
  BY <1>1, <1>2

\* The periods of the calls made make up less than a Span, and one more call is one more.
LEMMA CallPeriods ==
  ASSUME NEW n \in 0..Cycle - 1
  PROVE  /\ n * Period \in 0..Span - Period
         /\ ((n + 1) % Cycle) * Period
              = IF n + 1 = Cycle THEN 0 ELSE n * Period + Period
         /\ n + 1 = Cycle => n * Period + Period = Span
<1>1. PICK c \in Nat \ {0} : c = Cycle
  BY Bounds
<1>2. PICK p \in Nat \ {0} : p = Period
  BY Bounds
<1>3. n \in 0..c - 1
  BY <1>1
<1>4. (n + 1) * p = n * p + p /\ n * p \in Nat
  BY <1>3
<1>5. (n + 1) * p <= c * p
  <2>1. PICK d \in Nat : c = n + 1 + d
    <3>1. c - n - 1 \in Nat /\ c = n + 1 + (c - n - 1)
      BY <1>3
    <3>2. QED
      BY <3>1
  <2>2. c * p = (n + 1) * p + d * p /\ d * p \in Nat
    BY <1>3, <2>1
  <2>3. QED
    BY <1>3, <1>4, <2>2
<1>6. Span = c * p
  BY <1>1, <1>2 DEF Span
<1>7. (n + 1) % c = IF n + 1 = c THEN 0 ELSE n + 1
  BY <1>3, WrapStep
<1>8. ((n + 1) % c) * p = IF n + 1 = c THEN 0 ELSE n * p + p
  BY <1>4, <1>7
<1>9. n * p \in 0..c * p - p
  BY <1>4, <1>5
<1>10. n + 1 = c => n * p + p = c * p
  BY <1>4
<1>11. QED
  BY <1>1, <1>2, <1>6, <1>8, <1>9, <1>10

\* Every step keeps the cadence: TickDone moves nextTick by the period of the call it
\* counts, and time takes from nextTick what it adds to the age.
LEMMA NextCadence ==
  ASSUME IInv, CadenceInv, [Next]_vars
  PROVE  CadenceInv'
<1> USE Bounds, NoneAssumption DEF IInv, CGoto, WGoto,
      memberVars, callerVars, timeVars, histVars
<1>1. ASSUME NEW c \in Starters, NEW f \in Fns, Start(c, f) PROVE CadenceInv'
  BY <1>1 DEF Start, CadenceInv
<1>2. ASSUME NEW c \in Stoppers, Stop(c) PROVE CadenceInv'
  BY <1>2 DEF Stop, CadenceInv
<1>3. ASSUME NEW c \in Callers, StartStore(c) PROVE CadenceInv'
  BY <1>3 DEF StartStore, CadenceInv
<1>4. ASSUME NEW c \in Callers, StartSpawn(c) PROVE CadenceInv'
  BY <1>4 DEF StartSpawn, TypeOK, TimerInv, CadenceInv
<1>5. ASSUME NEW c \in Callers, StopJoinable(c) PROVE CadenceInv'
  BY <1>5 DEF StopJoinable, CadenceInv
<1>6. ASSUME NEW c \in Callers, StopJoined(c) PROVE CadenceInv'
  BY <1>6 DEF StopJoined, TypeOK, CadenceInv
<1>7. ASSUME NEW w \in Workers, Check(w) PROVE CadenceInv'
  BY <1>7 DEF Check, Call, TypeOK, CadenceInv
<1>8. ASSUME NEW w \in Workers, TickDone(w) PROVE CadenceInv'
  <2>1. wpc[w] = "tick" /\ wpc' = [wpc EXCEPT ![w] = "sleep"]
    BY <1>8 DEF TickDone
  <2>2. nextTick'[w] = nextTick[w] + Period /\ calls'[w] = (calls[w] + 1) % Cycle
    BY <1>8 DEF TickDone, TypeOK
  <2>3. PICK x : x = calls[w] * Period
    OBVIOUS
  <2>4. PICK y : y = calls'[w] * Period
    OBVIOUS
  <2>5. /\ x \in 0..Span - Period
        /\ y = IF calls[w] + 1 = Cycle THEN 0 ELSE x + Period
        /\ calls[w] + 1 = Cycle => x + Period = Span
    BY <2>2, <2>3, <2>4, CallPeriods DEF TypeOK
  <2>6. age[w] + nextTick[w] - x \in {-Span, 0, Span}
    BY <2>1, <2>3 DEF CadenceInv
  <2>7. age[w] \in 0..Span - 1 /\ nextTick[w] \in -(MaxLate + Period)..0
    BY <2>1 DEF TypeOK, TimerInv
  <2>8. age[w] + nextTick'[w] - y \in {-Span, 0, Span}
    <3> HIDE DEF IInv
    <3>1. QED
      BY <2>2, <2>5, <2>6, <2>7
  <2>9. age[w] + nextTick'[w] - calls'[w] * Period \in {-Span, 0, Span}
    BY <2>4, <2>8
  <2>10. ASSUME NEW v \in Workers, v # w
         PROVE  wpc'[v] = wpc[v] /\ nextTick'[v] = nextTick[v] /\ calls'[v] = calls[v]
    BY <1>8, <2>10 DEF TickDone, TypeOK
  <2>11. age' = age /\ wpc'[w] = "sleep"
    BY <1>8, <2>1 DEF TickDone, TypeOK
  <2>12. QED
    BY <2>9, <2>10, <2>11 DEF CadenceInv
<1>9. ASSUME NEW w \in Workers, Wake(w) PROVE CadenceInv'
  BY <1>9 DEF Wake, TypeOK, CadenceInv
<1>10. ASSUME Advance PROVE CadenceInv'
  <2>1. wpc' = wpc /\ calls' = calls
    BY <1>10 DEF Advance
  <2>2. ASSUME NEW w \in Workers, wpc[w] \in {"check", "tick", "sleep"}
        PROVE  age'[w] + nextTick'[w] - calls[w] * Period \in {-Span, 0, Span}
    <3>1. WorkerWaits(w)
      BY <1>10 DEF Advance
    <3>2. wpc[w] = "tick" \/ wpc[w] = "sleep"
      BY <2>2, <3>1 DEF WorkerWaits
    <3>3. /\ age[w] \in 0..Span - 1 /\ calls[w] \in 0..Cycle - 1
          /\ nextTick[w] \in -(MaxLate + Period)..Period /\ left[w] \in Nat
      BY DEF TypeOK
    <3>4. nextTick'[w] = nextTick[w] - 1 /\ age'[w] = (age[w] + 1) % Span
      BY <1>10, <3>2 DEF Advance
    <3>5. age'[w] = IF age[w] + 1 = Span THEN 0 ELSE age[w] + 1
      BY <3>3, <3>4, WrapStep
    <3>6. nextTick[w] > -(MaxLate + Period)
      BY <3>1, <3>2, <3>3 DEF WorkerWaits, TimerInv
    <3>7. PICK x : x = calls[w] * Period
      OBVIOUS
    <3>8. x \in 0..Span - Period
      BY <3>3, <3>7, CallPeriods
    <3>9. age[w] + nextTick[w] - x \in {-Span, 0, Span}
      BY <3>2, <3>7 DEF CadenceInv
    <3>10. age'[w] + nextTick'[w] - x \in {-Span, 0, Span}
      <4> HIDE DEF IInv
      <4>1. CASE age[w] + 1 = Span
        <5>1. age[w] + nextTick[w] - x # -Span
          BY <3>3, <3>6, <3>8, <4>1
        <5>2. QED
          BY <3>3, <3>4, <3>5, <3>8, <3>9, <4>1, <5>1
      <4>2. CASE age[w] + 1 # Span
        BY <3>3, <3>4, <3>5, <3>8, <3>9, <4>2
      <4>3. QED
        BY <4>1, <4>2
    <3>11. QED
      BY <3>7, <3>10
  <2>3. ASSUME NEW w \in Workers, wpc[w] = "free" PROVE age'[w] = 0 /\ calls[w] = 0
    BY <1>10, <2>3 DEF Advance, CadenceInv
  <2>4. QED
    BY <2>1, <2>2, <2>3 DEF CadenceInv
<1>11. CASE UNCHANGED vars
  BY <1>11 DEF vars, CadenceInv
<1>12. QED
  BY <1>1, <1>2, <1>3, <1>4, <1>5, <1>6, <1>7, <1>8, <1>9, <1>10, <1>11
     DEF Next, Caller, Worker

\* Calls are made on the cadence, each as late as those before it have made it, for every
\* period and every length of a call.
THEOREM CadenceKept ==
  ASSUME NEW owner, Callers = {owner}
  PROVE  Spec => []KeepsCadence
<1>1. Init => CadenceInv
  BY Bounds DEF Init, CadenceInv
<1>2. IInv /\ CadenceInv /\ [Next]_vars => CadenceInv'
  BY NextCadence
<1>3. ASSUME IInv, CadenceInv PROVE KeepsCadence
  <2>1. ASSUME NEW w \in Workers, wpc[w] = "check"
        PROVE  (age[w] - calls[w] * Period) % Span = behind[w]
    <3>1. PICK x : x = calls[w] * Period
      OBVIOUS
    <3>2. /\ age[w] \in 0..Span - 1 /\ behind[w] \in 0..Span - 1
          /\ nextTick[w] = -behind[w] /\ x \in 0..Span - Period
          /\ Span \in Nat \ {0} /\ Period \in Nat \ {0}
      <4>1. calls[w] \in 0..Cycle - 1
        BY <1>3 DEF IInv, TypeOK
      <4>2. x \in 0..Span - Period
        BY <3>1, <4>1, CallPeriods
      <4>3. nextTick[w] = -behind[w]
        BY <1>3, <2>1 DEF IInv, TimerInv
      <4>4. age[w] \in 0..Span - 1 /\ behind[w] \in 0..MaxLate
        BY <1>3 DEF IInv, TypeOK
      <4>5. QED
        BY <4>2, <4>3, <4>4, Bounds
    <3>3. age[w] + nextTick[w] - x \in {-Span, 0, Span}
      BY <1>3, <2>1, <3>1 DEF CadenceInv
    <3>4. age[w] - x = behind[w] \/ age[w] - x = behind[w] - Span
      BY <3>2, <3>3
    <3>5. (age[w] - x) % Span = behind[w]
      BY <3>2, <3>4
    <3>6. QED
      BY <3>1, <3>5
  <2>2. QED
    BY <2>1 DEF KeepsCadence
<1>4. QED
  BY <1>1, <1>2, <1>3, Invariance, PTL DEF Spec
===============================================================================
