---------------------------- MODULE MCCoordinator ----------------------------
(***************************************************************************)
(* Coordinator for TLC.                                                    *)
(***************************************************************************)
EXTENDS Coordinator, TLC

CONSTANTS a, b

MCThreads == {"cabl", "usb", "main"}
AnyDevice == [k \in Clients |-> Devices]

\* The two clients want the same devices, so that they may change places.
ClientSymmetry == Permutations(Clients)

\* What the application and the bus choose not to do in a run, to keep it small.  None of it
\* has to happen: fairness asks for no such step.  Both clients are there only when the bus
\* has changed n times at the most.
SharedAfter(n) == (\A k \in Clients : phase'[k] # "unborn") => plugs' <= n
SafetyChoices == SharedAfter(1)
LiveChoices ==
  /\ SharedAfter(0)
  /\ (\A k \in Clients : phase'[k] # "unborn") => ~MainRescan
  /\ ~PlugOther /\ ~(\E t \in Threads : ScanSkip(t))

SafeSpec == Init /\ [][Next /\ SafetyChoices]_vars
LiveSpec == Init /\ [][Next /\ LiveChoices]_vars /\ Fairness

\* A client's request for a frame is rendered as long as the client's callback is the one
\* that is bound.  Clients may change places: what holds for one holds for each.
RequestsAreRendered == RequestIsRendered(a)
==============================================================================
