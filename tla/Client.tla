-------------------------------- MODULE Client --------------------------------
(***************************************************************************)
(* What a Client object (inc/cabl/client/Client.h, src/client/Client.cpp)  *)
(* keeps, and how far its construction or destruction has come.  Its       *)
(* methods run on whatever thread calls them: Coordinator composes them.   *)
(***************************************************************************)
EXTENDS Device

CONSTANT Policy   \* per client: the devices its DiscoveryPolicy matches
ASSUME PolicyAssumption == Policy \in [Clients -> SUBSET Devices]

VARIABLES phase,       \* per client: "unborn", "ctor", "alive", "dtor" or "gone"
          m_pDevice,   \* per client: the device it uses, or None
          m_update     \* per client: render() is wanted

clientVars == <<phase, m_pDevice, m_update>>

ClientInit ==
  /\ phase = [k \in Clients |-> "unborn"]
  /\ m_pDevice = [k \in Clients |-> None]
  /\ m_update = [k \in Clients |-> TRUE]

ClientTypeOK ==
  /\ phase \in [Clients -> {"unborn", "ctor", "alive", "dtor", "gone"}]
  /\ m_pDevice \in [Clients -> Devices \cup {None}]
  /\ m_update \in [Clients -> BOOLEAN]

Enter(k, p) ==
  /\ phase' = [phase EXCEPT ![k] = p]
  /\ UNCHANGED <<m_pDevice, m_update>>

\* The members behind m_clientId are initialised after the client has been
\* registered, and over whatever an early devicesListChanged() left in them.
Construct(k) ==
  /\ phase' = [phase EXCEPT ![k] = "alive"]
  /\ m_pDevice' = [m_pDevice EXCEPT ![k] = None]
  /\ m_update' = [m_update EXCEPT ![k] = TRUE]

TakeDevice(k, d) ==
  /\ m_pDevice' = [m_pDevice EXCEPT ![k] = d]
  /\ UNCHANGED <<phase, m_update>>

RequestUpdate(k) ==
  /\ m_update' = [m_update EXCEPT ![k] = TRUE]
  /\ UNCHANGED <<phase, m_pDevice>>

\* The exchange in onRender(): the request is taken before render() runs, so
\* that one made meanwhile is kept for the next tick.
TakeUpdate(k) ==
  /\ m_update[k]
  /\ m_update' = [m_update EXCEPT ![k] = FALSE]
  /\ UNCHANGED <<phase, m_pDevice>>

MayRender(k) == m_pDevice[k] # None /\ HasDeviceHandle(m_pDevice[k])

\* devicesListChanged() looks for a device only when it has none that is open,
\* and takes the first one in the list that the policy matches.
NeedsDevice(k) == m_pDevice[k] = None \/ ~HasDeviceHandle(m_pDevice[k])

First(S) == CHOOSE d \in S : \A e \in S : d <= e
===============================================================================
