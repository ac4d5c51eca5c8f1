---------------------------- MODULE RTThreadRunner ----------------------------
(***************************************************************************)
(* RTThreadRunner (inc/cabl/threading/RTThreadRunner.h): a thread that     *)
(* calls a function once a period, between start() and stop().             *)
(* Time is discrete.  Every step is immediate and time passes only when no *)
(* thread can move, the best a scheduler can do, while a call of the       *)
(* function takes up to MaxTick, which may be many periods: the calls that *)
(* are due meanwhile are then made one after the other.  Starters and      *)
(* Stoppers are the threads that call start() and stop(); a single owner   *)
(* is in both.                                                             *)
(***************************************************************************)
EXTENDS Integers

CONSTANTS Starters, Stoppers,
          Workers,   \* the threads start() can make
          Fns,       \* the functions passed to start()
          Period, MaxTick,
          MaxLate,   \* the bound on how far behind its periods a thread may get
          Cycle,     \* calls are counted modulo Cycle, time modulo as many periods
          None

Span == Cycle * Period

ASSUME PeriodAssumption == Period \in Nat \ {0} /\ MaxTick \in Nat
ASSUME BoundAssumption  == MaxLate \in Nat /\ Cycle \in Nat \ {0} /\ MaxLate < Span
ASSUME NoneAssumption   == None \notin Workers /\ None \notin Fns

VARIABLES m_running, m_thread, m_tickFn,
          cpc,          \* per caller: where it is in start() or stop()
          arg,          \* per caller: the function it passes
          waited,       \* per caller: the time in stop(), Longest + 1 for any longer
          wpc,          \* per worker: where it is in its loop
          own,          \* per worker: the function of the start() that made it
          left,         \* per worker: what remains of the call
          nextTick,     \* per worker: the time left until nextTick
          age,          \* per worker: the time since it began, modulo Span
          calls,        \* per worker: the calls it has made, modulo Cycle
          behind,       \* per worker: how far its calls have overrun their periods
          terminated    \* std::terminate() has been called

memberVars == <<m_running, m_thread, m_tickFn>>
callerVars == <<cpc, arg, waited>>
timeVars   == <<left, nextTick>>
histVars   == <<age, calls, behind>>
vars == <<memberVars, callerVars, wpc, own, histVars, timeVars, terminated>>

Callers == Starters \cup Stoppers

\* One call, or the rest of one period.
Longest == IF MaxTick > Period THEN MaxTick ELSE Period
\* What the calls are behind when one more takes n.
Overrun(w, n) ==
  IF behind[w] + n > Period THEN behind[w] + n - Period ELSE 0

Init ==
  /\ m_running = FALSE /\ m_thread = None /\ m_tickFn = None
  /\ cpc = [c \in Callers |-> "idle"] /\ arg = [c \in Callers |-> None]
  /\ waited = [c \in Callers |-> 0]
  /\ wpc = [w \in Workers |-> "free"] /\ own = [w \in Workers |-> None]
  /\ left = [w \in Workers |-> 0] /\ nextTick = [w \in Workers |-> 0]
  /\ age = [w \in Workers |-> 0] /\ calls = [w \in Workers |-> 0]
  /\ behind = [w \in Workers |-> 0]
  /\ terminated = FALSE

CGoto(c, label) == cpc' = [cpc EXCEPT ![c] = label]
WGoto(w, label) == wpc' = [wpc EXCEPT ![w] = label]
------------------------------------------------------------------------------
StartStoring(c, f) ==   \* mutant: the function is stored before the exchange
  /\ cpc[c] = "idle" /\ ~terminated
  /\ m_tickFn' = f
  /\ IF m_running
       THEN UNCHANGED <<m_running, cpc, arg>>
       ELSE m_running' = TRUE /\ arg' = [arg EXCEPT ![c] = f] /\ CGoto(c, "store")
  /\ UNCHANGED <<m_thread, waited, wpc, own, histVars, timeVars, terminated>>

\* The exchange at the beginning of start(), which ends there when it fails.
Start(c, f) ==
  /\ cpc[c] = "idle" /\ ~terminated
  /\ \/ m_running /\ UNCHANGED <<m_running, cpc, arg>>
     \/ /\ ~m_running
        /\ m_running' = TRUE
        /\ arg' = [arg EXCEPT ![c] = f]
        /\ CGoto(c, "store")
  /\ UNCHANGED <<m_thread, m_tickFn, waited, wpc, own, histVars, timeVars, terminated>>

StartStore(c) ==
  /\ cpc[c] = "store" /\ ~terminated
  /\ m_tickFn' = arg[c]
  /\ CGoto(c, "spawn")
  /\ UNCHANGED <<m_running, m_thread, arg, waited, wpc, own, histVars, timeVars,
                 terminated>>

\* To assign to a std::thread that is joinable is std::terminate().
StartSpawn(c) ==
  /\ cpc[c] = "spawn" /\ ~terminated
  /\ IF m_thread # None
       THEN terminated' = TRUE
              /\ UNCHANGED <<m_thread, cpc, arg, wpc, own>>
       ELSE \E w \in Workers :
              /\ wpc[w] = "free"
              /\ m_thread' = w
              /\ WGoto(w, "check")
              /\ own' = [own EXCEPT ![w] = arg[c]]
              /\ arg' = [arg EXCEPT ![c] = None]
              /\ CGoto(c, "idle")
              /\ UNCHANGED terminated
  /\ UNCHANGED <<m_running, m_tickFn, waited, histVars, timeVars>>
------------------------------------------------------------------------------
\* The beginning of a call, which takes as long as it likes within the bounds.
Call(w) ==
  \E n \in 0..MaxTick :
    /\ Overrun(w, n) <= MaxLate
    /\ left' = [left EXCEPT ![w] = n]
    /\ behind' = [behind EXCEPT ![w] = Overrun(w, n)]

CheckAlways(w) ==   \* mutant: the loop does not end
  /\ wpc[w] = "check" /\ ~terminated
  /\ WGoto(w, "tick") /\ Call(w)
  /\ UNCHANGED <<memberVars, callerVars, own, age, calls, nextTick, terminated>>

CheckOnTime(w) ==   \* mutant: stop() is not seen before the thread has caught up
  /\ wpc[w] = "check" /\ ~terminated
  /\ \/ (m_running \/ nextTick[w] < 0) /\ WGoto(w, "tick") /\ Call(w)
     \/ /\ ~m_running /\ nextTick[w] = 0
        /\ WGoto(w, "done") /\ UNCHANGED <<left, behind>>
  /\ UNCHANGED <<memberVars, callerVars, own, age, calls, nextTick, terminated>>

\* The condition of the loop, and the beginning of the call.
Check(w) ==
  /\ wpc[w] = "check" /\ ~terminated
  /\ \/ m_running /\ WGoto(w, "tick") /\ Call(w)
     \/ ~m_running /\ WGoto(w, "done") /\ UNCHANGED <<left, behind>>
  /\ UNCHANGED <<memberVars, callerVars, own, age, calls, nextTick, terminated>>

TickDoneDrift(w) ==   \* mutant: the period begins when the call ends
  /\ wpc[w] = "tick" /\ left[w] = 0 /\ ~terminated
  /\ nextTick' = [nextTick EXCEPT ![w] = Period]
  /\ calls' = [calls EXCEPT ![w] = (@ + 1) % Cycle]
  /\ WGoto(w, "sleep")
  /\ UNCHANGED <<memberVars, callerVars, own, age, behind, left, terminated>>

TickDone(w) ==
  /\ wpc[w] = "tick" /\ left[w] = 0 /\ ~terminated
  /\ nextTick' = [nextTick EXCEPT ![w] = @ + Period]
  /\ calls' = [calls EXCEPT ![w] = (@ + 1) % Cycle]
  /\ WGoto(w, "sleep")
  /\ UNCHANGED <<memberVars, callerVars, own, age, behind, left, terminated>>

\* sleep_until(nextTick): nothing but time ends it.
Wake(w) ==
  /\ wpc[w] = "sleep" /\ nextTick[w] <= 0 /\ ~terminated
  /\ WGoto(w, "check")
  /\ UNCHANGED <<memberVars, callerVars, own, histVars, timeVars, terminated>>
------------------------------------------------------------------------------
Stop(c) ==
  /\ cpc[c] = "idle" /\ ~terminated
  /\ m_running' = FALSE
  /\ waited' = [waited EXCEPT ![c] = 0]
  /\ CGoto(c, "stopping")
  /\ UNCHANGED <<m_thread, m_tickFn, arg, wpc, own, histVars, timeVars, terminated>>

StopDetached(c) ==   \* mutant: stop() does not join
  /\ cpc[c] = "stopping" /\ ~terminated
  /\ m_thread' = None
  /\ CGoto(c, "idle")
  /\ UNCHANGED <<m_running, m_tickFn, arg, waited, wpc, own, histVars, timeVars,
                 terminated>>

StopUnjoined(c) ==   \* mutant: the thread is left to end by itself
  /\ cpc[c] = "stopping" /\ ~terminated
  /\ CGoto(c, "idle")
  /\ UNCHANGED <<memberVars, arg, waited, wpc, own, histVars, timeVars, terminated>>

StopJoinable(c) ==
  /\ cpc[c] = "stopping" /\ ~terminated
  /\ CGoto(c, IF m_thread = None THEN "idle" ELSE "join")
  /\ UNCHANGED <<memberVars, arg, waited, wpc, own, histVars, timeVars, terminated>>

StopJoined(c) ==
  /\ cpc[c] = "join" /\ wpc[m_thread] = "done" /\ ~terminated
  /\ WGoto(m_thread, "free")
  /\ own' = [own EXCEPT ![m_thread] = None]
  /\ age' = [age EXCEPT ![m_thread] = 0]
  /\ calls' = [calls EXCEPT ![m_thread] = 0]
  /\ behind' = [behind EXCEPT ![m_thread] = 0]
  /\ nextTick' = [nextTick EXCEPT ![m_thread] = 0]
  /\ m_thread' = None
  /\ waited' = [waited EXCEPT ![c] = 0]
  /\ CGoto(c, "idle")
  /\ UNCHANGED <<m_running, m_tickFn, arg, left, terminated>>
------------------------------------------------------------------------------
\* Whether a thread has to wait for time to pass.
WorkerWaits(w) ==
  \/ wpc[w] \in {"free", "done"}
  \/ wpc[w] = "tick" /\ left[w] > 0
  \/ wpc[w] = "sleep" /\ nextTick[w] > 0
CallerWaits(c) == cpc[c] = "idle" \/ (cpc[c] = "join" /\ wpc[m_thread] # "done")

Advance ==
  /\ ~terminated
  /\ \A w \in Workers : WorkerWaits(w)
  /\ \A c \in Callers : CallerWaits(c)
  /\ left' = [w \in Workers |-> IF wpc[w] = "tick" THEN left[w] - 1 ELSE left[w]]
  /\ nextTick' = [w \in Workers |->
       IF wpc[w] \in {"tick", "sleep"} THEN nextTick[w] - 1 ELSE nextTick[w]]
  /\ age' = [w \in Workers |->
       IF wpc[w] \in {"tick", "sleep"} THEN (age[w] + 1) % Span ELSE age[w]]
  /\ waited' = [c \in Callers |->
       IF cpc[c] = "join" /\ waited[c] <= Longest THEN waited[c] + 1 ELSE waited[c]]
  /\ UNCHANGED <<memberVars, cpc, arg, wpc, own, calls, behind, terminated>>

Caller(c) == StartStore(c) \/ StartSpawn(c) \/ StopJoinable(c) \/ StopJoined(c)
Worker(w) == Check(w) \/ TickDone(w) \/ Wake(w)

Next ==
  \/ \E c \in Starters, f \in Fns : Start(c, f)
  \/ \E c \in Stoppers : Stop(c)
  \/ \E c \in Callers : Caller(c)
  \/ \E w \in Workers : Worker(w)
  \/ Advance

Spec == Init /\ [][Next]_vars

\* Threads run and time passes; whether anyone starts or stops is open.
FairSpec ==
  /\ Spec
  /\ \A c \in Callers : WF_vars(Caller(c))
  /\ \A w \in Workers : WF_vars(Worker(w))
  /\ WF_vars(Advance)
------------------------------------------------------------------------------
\* Every variable keeps its type; no timer runs past its period.
TypeOK ==
  /\ m_running \in BOOLEAN /\ terminated \in BOOLEAN
  /\ m_thread \in Workers \cup {None} /\ m_tickFn \in Fns \cup {None}
  /\ cpc \in [Callers -> {"idle", "store", "spawn", "stopping", "join"}]
  /\ arg \in [Callers -> Fns \cup {None}]
  /\ waited \in [Callers -> 0..Longest + 1]
  /\ wpc \in [Workers -> {"free", "check", "tick", "sleep", "done"}]
  /\ own \in [Workers -> Fns \cup {None}]
  /\ left \in [Workers -> 0..MaxTick]
  /\ nextTick \in [Workers -> -(MaxLate + Period)..Period]
  /\ age \in [Workers -> 0..Span - 1] /\ calls \in [Workers -> 0..Cycle - 1]
  /\ behind \in [Workers -> 0..MaxLate]

\* The thread of the object is the only one that ticks, and what it calls is the
\* function of the start() that made it: a start() while it runs changes nothing.
OneThreadTicks ==
  \A w \in Workers : wpc[w] \in {"check", "tick", "sleep"} =>
    m_thread = w /\ m_tickFn = own[w]

\* When stop() has returned, and until the next start(), no thread is left: the
\* object and whatever its function uses may go.
QuietAfterStop ==
  ~m_running /\ (\A c \in Callers : cpc[c] = "idle") =>
    \A w \in Workers : wpc[w] = "free"

\* The n-th call is due n periods after the thread began, however long each of them
\* takes: it begins then, or as late as the calls before it have overrun their periods and
\* not a moment more.  None is left out and none is early; a burst makes up for an overrun.
KeepsCadence ==
  \A w \in Workers : wpc[w] = "check" =>
    (age[w] - calls[w] * Period) % Span = behind[w]

\* stop() waits for one call, or for the rest of one period: never for the calls that a
\* thread which is behind has still to make.
StopIsBounded == \A c \in Callers : waited[c] <= Longest

\* stop() returns.
StopTerminates == \A c \in Callers : cpc[c] = "stopping" ~> cpc[c] = "idle"

\* test/threading/RTThreadRunner.cpp 54: "stop() is prompt, not bounded by a full
\* period": it waits for a call that is being made, and no longer.
StopIsPrompt == \A c \in Callers : waited[c] <= MaxTick

\* start() of a runner that has been stopped starts it; it never ends the program.
StartIsSafe == ~terminated
===============================================================================
