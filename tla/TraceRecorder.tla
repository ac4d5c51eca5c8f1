----------------------------- MODULE TraceRecorder -----------------------------
(***************************************************************************)
(* The recorder of traces: each thread has a ring of events of its own and *)
(* writes them without a lock; writeJson() and printSummary() gather       *)
(* pointers to the slots that are used, sort them by time and read them    *)
(* while the threads go on (TraceRecorder.h).                              *)
(*                                                                         *)
(* The n-th event of a thread is <<thread, n>>: the beginnings of scopes   *)
(* are odd, their ends even.  An event is written in two steps: what it is *)
(* and, last, its time.  `NoEvent' is a slot nothing was written to.       *)
(***************************************************************************)
EXTENDS Integers, Sequences, FiniteSets, Functions

CONSTANTS
  Recorders,       \* the threads that record
  kEventsPerThread,
  MaxEvents,       \* bound: events of a thread
  MaxTime          \* bound: ticks of the clock

VARIABLES
  now,             \* the clock, in microseconds
  buffers,         \* m_threadBuffers: the threads in the order they registered
  what, when,      \* the slots of each thread: event and time
  writeIndex,      \* of each thread
  step,            \* where record() of each thread is: "idle", "what", "when"
  stamped,         \* the time each event was given
  dump,            \* where the dump is: "idle", "sort", "what", "when", "done"
  summary,         \* it is that of printSummary()
  gathered,        \* the slots the dump has pointers to, <<thread, slot>>
  rows,            \* those that are left to be written, sorted
  written,         \* the events written
  busy             \* the threads that recorded since the dump began

traceVars ==
  <<now, buffers, what, when, writeIndex, step, stamped, dump, summary, gathered, rows, written,
    busy>>

NoEvent == <<"none", 0>>
Slots == 1..kEventsPerThread
Events == Recorders \X (1..MaxEvents)

Init ==
  /\ now = 0
  /\ buffers = << >>
  /\ what = [t \in Recorders |-> [i \in Slots |-> NoEvent]]
  /\ when = [t \in Recorders |-> [i \in Slots |-> 0]]
  /\ writeIndex = [t \in Recorders |-> 0]
  /\ step = [t \in Recorders |-> "idle"]
  /\ stamped = [e \in Events |-> 0]
  /\ dump = "idle" /\ summary = FALSE /\ busy = {}
  /\ gathered = {} /\ rows = << >> /\ written = << >>

-----------------------------------------------------------------------------
(* record().                                                               *)

Working(t) == busy' = busy \cup {t}

\* threadBuffer(): the first call of a thread registers it, under the lock.
threadBuffer(t) ==
  /\ t \notin Range(buffers)
  /\ buffers' = Append(buffers, t)
  /\ Working(t)
  /\ UNCHANGED <<now, what, when, writeIndex, step, stamped, dump, summary, gathered, rows, written>>

\* The slot of the n-th event; that of the last number fetch_add() gave.
Place(n) == ((n - 1) % kEventsPerThread) + 1
Slot(t) == Place(writeIndex[t])

Claim(t) ==
  /\ t \in Range(buffers) /\ step[t] = "idle" /\ writeIndex[t] < MaxEvents
  /\ writeIndex' = [writeIndex EXCEPT ![t] = @ + 1]
  /\ step' = [step EXCEPT ![t] = "what"]
  /\ Working(t)
  /\ UNCHANGED <<now, buffers, what, when, stamped, dump, summary, gathered, rows, written>>

WriteWhat(t) ==
  /\ step[t] = "what"
  /\ what' = [what EXCEPT ![t][Slot(t)] = <<t, writeIndex[t]>>]
  /\ step' = [step EXCEPT ![t] = "when"]
  /\ Working(t)
  /\ UNCHANGED <<now, buffers, when, writeIndex, stamped, dump, summary, gathered, rows, written>>

WriteWhen(t) ==
  /\ step[t] = "when"
  /\ when' = [when EXCEPT ![t][Slot(t)] = now]
  /\ stamped' = [stamped EXCEPT ![<<t, writeIndex[t]>>] = now]
  /\ step' = [step EXCEPT ![t] = "idle"]
  /\ Working(t)
  /\ UNCHANGED <<now, buffers, what, writeIndex, dump, summary, gathered, rows, written>>

record(t) == Claim(t) \/ WriteWhat(t) \/ WriteWhen(t)

Tick ==
  /\ now < MaxTime
  /\ now' = now + 1
  /\ UNCHANGED <<buffers, what, when, writeIndex, step, stamped, dump, summary, gathered, rows, written, busy>>

-----------------------------------------------------------------------------
(* The dump.                                                               *)

\* Mutant: the rest of the division, which is the place of the next event.
UsedModulo(t) == 1..(writeIndex[t] % kEventsPerThread)

Used(t) == 1..(IF writeIndex[t] < kEventsPerThread THEN writeIndex[t] ELSE kEventsPerThread)

\* gatherSortedRows(): the pointers to all slots used, under the lock for the list of the
\* threads only ...
Gather(isSummary) ==
  /\ dump \in {"idle", "done"} /\ buffers # << >>
  /\ gathered' = {row \in Range(buffers) \X Slots : row[2] \in Used(row[1])}
  /\ dump' = "sort" /\ summary' = isSummary
  /\ busy' = {t \in Recorders : step[t] # "idle"}
  /\ rows' = << >> /\ written' = << >>
  /\ UNCHANGED <<now, buffers, what, when, writeIndex, step, stamped>>

\* ... sorted by their times of now; std::sort() leaves equal ones in any order.
TimeOf(row) == when[row[1]][row[2]]

Sort ==
  /\ dump = "sort"
  /\ \E sorted \in Bijection(1..Cardinality(gathered), gathered) :
       /\ \A i, j \in DOMAIN sorted : i < j => TimeOf(sorted[i]) <= TimeOf(sorted[j])
       /\ rows' = sorted
  /\ dump' = IF gathered = {} THEN "done" ELSE "what"
  /\ UNCHANGED <<now, buffers, what, when, writeIndex, step, stamped, summary, gathered, written,
                 busy>>

\* writeEvent() reads what the event is, and then its time; printSummary() counts the
\* beginnings.
ReadWhat ==
  /\ dump = "what"
  /\ LET event == what[Head(rows)[1]][Head(rows)[2]]
     IN IF summary /\ event[2] % 2 = 0
        THEN /\ rows' = Tail(rows) /\ written' = written
             /\ dump' = IF Len(rows) = 1 THEN "done" ELSE "what"
        ELSE /\ rows' = rows
             /\ written' = Append(written, [row |-> Head(rows), event |-> event, time |-> -1])
             /\ dump' = "when"
  /\ UNCHANGED <<now, buffers, what, when, writeIndex, step, stamped, summary, gathered, busy>>

ReadWhen ==
  /\ dump = "when"
  /\ written' = [written EXCEPT ![Len(written)].time = TimeOf(Head(rows))]
  /\ rows' = Tail(rows)
  /\ dump' = IF Len(rows) = 1 THEN "done" ELSE "what"
  /\ UNCHANGED <<now, buffers, what, when, writeIndex, step, stamped, summary, gathered, busy>>

writeJson == Gather(FALSE)
printSummary == Gather(TRUE)

-----------------------------------------------------------------------------

Next ==
  \/ \E t \in Recorders : threadBuffer(t) \/ record(t)
  \/ Tick
  \/ writeJson \/ printSummary \/ Sort \/ ReadWhat \/ ReadWhen

Spec == Init /\ [][Next]_traceVars

-----------------------------------------------------------------------------
(* Properties.                                                             *)

\* The last events of a thread, as many as its ring takes.
Latest(t) == {n \in 1..writeIndex[t] : n > writeIndex[t] - kEventsPerThread}

\* Those that are dumped: printSummary() counts the beginnings only.
Dumped(t) == {n \in Latest(t) : summary => n % 2 = 1}

\* Whatever the others record meanwhile, a dump has of each thread that rests its latest
\* events, each of them once, with its time and in the order of time: only the thread that
\* records is torn, stale or out of order.
RestingThreadsAreWhole ==
  dump = "done" =>
    \A t \in Range(buffers) \ busy :
      LET mine == {i \in DOMAIN written : written[i].row[1] = t}
      IN /\ \A n \in Dumped(t) : \E i \in mine : written[i].event = <<t, n>>
         /\ \A i \in mine : /\ \E n \in Dumped(t) : written[i].event = <<t, n>>
                             /\ written[i].time = stamped[written[i].event]
         /\ \A i, j \in mine : i < j => /\ written[i].event # written[j].event
                                        /\ written[i].time <= written[j].time

=============================================================================
