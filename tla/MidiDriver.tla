------------------------------ MODULE MidiDriver ------------------------------
(***************************************************************************)
(* DriverMIDI::enumerate(): for each pair of an output and an input port   *)
(* of the same name a task of its own opens both, asks for the identity    *)
(* and waits for an answer, at most 500 ms; what answers is put on the     *)
(* list under a mutex.  The list is returned before the tasks are waited   *)
(* for (by the destructors of their futures); where the compiler builds    *)
(* the list in place (NRVO), what they add still is in it.                 *)
(*                                                                         *)
(* Behind output n and input n is unit n; it answers on its input, to      *)
(* every task that has that open.                                          *)
(***************************************************************************)
EXTENDS Integers, Sequences, FiniteSets, Functions

CONSTANTS
  Ports,           \* the numbers of the ports
  PortNames,       \* their names
  NoName,          \* the name of a port that has none
  NRVO             \* the list is built in place

VARIABLES
  names,           \* the names of the units
  answers,         \* the units that know the identity request
  cursor,          \* the pairs the loop has not looked at yet, <<output, input>>
  task,            \* where the task of each pair is
  inbox,           \* what RtMidi holds for it: "identity" or "other"
  replies,         \* the answers that are on their way from each unit
  heard,           \* the tasks that got an identity
  mtxDevices,      \* the task that holds the mutex
  collDevices,     \* the list
  seen,            \* the length of the list a task saw when it began to append
  result           \* what the caller has of it

midiVars == <<names, answers, cursor, task, inbox, replies, heard, mtxDevices, collDevices, seen, result>>

Pairs == Ports \X Ports
NoTask == <<0, 0>>
Running == <<NoTask>>

Init ==
  /\ names \in [Ports -> PortNames \cup {NoName}]
  /\ answers \in SUBSET Ports
  /\ cursor = Pairs
  /\ task = [p \in Pairs |-> "none"] /\ inbox = [p \in Pairs |-> << >>]
  /\ replies = [n \in Ports |-> 0]
  /\ heard = {} /\ mtxDevices = NoTask
  /\ collDevices = << >> /\ seen = [p \in Pairs |-> 0]
  /\ result = Running

-----------------------------------------------------------------------------

\* The loop: a task for a pair of the same name.  Pairs come in the order of the outputs.
Look(p) ==
  /\ p \in cursor /\ \A q \in cursor : q[1] > p[1] \/ (q[1] = p[1] /\ q[2] >= p[2])
  /\ cursor' = cursor \ {p}
  /\ task' = [task EXCEPT ![p] = IF names[p[1]] # NoName /\ names[p[1]] = names[p[2]]
                                 THEN "launched" ELSE "none"]
  /\ UNCHANGED <<names, answers, inbox, replies, heard, mtxDevices, collDevices, seen, result>>

\* The task opens its ports; if it cannot, the exception stays in its future.
Open(p) ==
  /\ task[p] = "launched"
  /\ task' \in {[task EXCEPT ![p] = s] : s \in {"open", "done"}}
  /\ UNCHANGED <<names, answers, cursor, inbox, replies, heard, mtxDevices, collDevices, seen, result>>

SendIdentityRequest(p) ==
  /\ task[p] = "open"
  /\ task' = [task EXCEPT ![p] = "waiting"]
  /\ replies' = [replies EXCEPT ![p[1]] = IF p[1] \in answers THEN @ + 1 ELSE @]
  /\ UNCHANGED <<names, answers, cursor, inbox, heard, mtxDevices, collDevices, seen, result>>

\* A message of unit n arrives: an answer, or something else it happens to play.
Arrive(n, message) ==
  /\ IF message = "identity" THEN replies[n] > 0 /\ replies' = [replies EXCEPT ![n] = @ - 1]
                             ELSE UNCHANGED replies
  /\ inbox' = [p \in Pairs |-> IF p[2] = n /\ task[p] \in {"open", "waiting"} /\ Len(inbox[p]) < 2
                               THEN Append(inbox[p], message) ELSE inbox[p]]
  /\ inbox' # inbox \/ message = "identity"
  /\ UNCHANGED <<names, answers, cursor, task, heard, mtxDevices, collDevices, seen, result>>

\* getMessage(): an identity ends the wait, another message is passed over, and the time is
\* looked at only when there is none.
Poll(p) ==
  /\ task[p] = "waiting" /\ inbox[p] # << >>
  /\ inbox' = [inbox EXCEPT ![p] = Tail(@)]
  /\ IF Head(inbox[p]) = "identity"
     THEN task' = [task EXCEPT ![p] = "found"] /\ heard' = heard \cup {p}
     ELSE UNCHANGED <<task, heard>>
  /\ UNCHANGED <<names, answers, cursor, replies, mtxDevices, collDevices, seen, result>>

Timeout(p) ==
  /\ task[p] = "waiting" /\ inbox[p] = << >>
  /\ task' = [task EXCEPT ![p] = "done"]
  /\ UNCHANGED <<names, answers, cursor, inbox, replies, heard, mtxDevices, collDevices, seen, result>>

\* Mutant: the list is appended to without the mutex.
LockUnlocked(p) ==
  /\ task[p] = "found"
  /\ task' = [task EXCEPT ![p] = "append"]
  /\ seen' = [seen EXCEPT ![p] = Len(collDevices)]
  /\ UNCHANGED <<names, answers, cursor, inbox, replies, heard, mtxDevices, collDevices, result>>

\* emplace_back() under the mutex: reads how long the list is ...
Lock(p) ==
  /\ task[p] = "found" /\ mtxDevices = NoTask
  /\ task' = [task EXCEPT ![p] = "append"] /\ mtxDevices' = p
  /\ seen' = [seen EXCEPT ![p] = Len(collDevices)]
  /\ UNCHANGED <<names, answers, cursor, inbox, replies, heard, collDevices, result>>

\* ... and puts the device behind.  The list of the caller is the same one, or has been
\* moved away.
EmplaceBack(p) ==
  /\ task[p] = "append"
  /\ collDevices' = Append(SubSeq(collDevices, 1, seen[p]), p)
  /\ result' = IF result # Running /\ NRVO THEN collDevices' ELSE result
  /\ mtxDevices' = IF mtxDevices = p THEN NoTask ELSE mtxDevices
  /\ task' = [task EXCEPT ![p] = "done"]
  /\ UNCHANGED <<names, answers, cursor, inbox, replies, heard, seen>>

\* The return statement; the caller goes on when all tasks are done.
Return ==
  /\ cursor = {} /\ result = Running
  /\ result' = collDevices
  /\ collDevices' = IF NRVO THEN collDevices ELSE << >>
  /\ UNCHANGED <<names, answers, cursor, task, inbox, replies, heard, mtxDevices, seen>>

Next ==
  \/ \E p \in Pairs : \/ Look(p) \/ Open(p) \/ SendIdentityRequest(p) \/ Poll(p) \/ Timeout(p)
                      \/ Lock(p) \/ EmplaceBack(p)
  \/ \E n \in Ports : Arrive(n, "identity") \/ (n \notin answers /\ Arrive(n, "other"))
  \/ Return

Spec == Init /\ [][Next]_midiVars

-----------------------------------------------------------------------------
(* Properties.                                                             *)

\* The futures are waited for: what the caller goes on with.
Returned == result # Running /\ \A p \in Pairs : task[p] \in {"none", "done"}

Distinct == \A m, n \in Ports : m # n /\ names[m] = names[n] => names[m] = NoName

\* However the tasks and their answers interleave, every task that heard an identity has
\* put its device on the list once and no other has; with names of their own, ports are not
\* crossed.  (Two units of one name are: each is listed with the ports of the other too.)
DevicesAreListed ==
  Returned =>
    /\ Range(result) = heard /\ Len(result) = Cardinality(heard)
    /\ Distinct => \A p \in heard : p[1] = p[2]

=============================================================================
