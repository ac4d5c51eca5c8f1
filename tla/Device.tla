-------------------------------- MODULE Device --------------------------------
(***************************************************************************)
(* The part of Device (inc/cabl/devices/Device.h, src/devices/Device.cpp)  *)
(* that every controller shares and several threads touch: the handle, the *)
(* m_connected flag and the callbacks, which m_mtxCallbacks guards.        *)
(* m_mtxDeviceHandle is taken last, held for one access only and never     *)
(* while another lock is requested: an access under it is one step.        *)
(***************************************************************************)
EXTENDS Naturals

CONSTANTS Devices,   \* the device descriptors, numbers in the order of operator<
          Clients,   \* the Client objects of the application
          Threads,   \* the threads that run this code
          None       \* no client, no device, no thread

ASSUME DevicesAssumption == Devices \subseteq Nat
ASSUME NoneAssumption    == None \notin Devices /\ None \notin Clients /\ None \notin Threads

VARIABLES m_pDeviceHandle,   \* per device: "none", "open" or "armed" (reading)
          m_connected,       \* per device
          m_cb,              \* per device and kind of callback: the client bound
          m_mtxCallbacks     \* per device: the thread that holds it, or None

deviceVars == <<m_pDeviceHandle, m_connected, m_cb, m_mtxCallbacks>>

\* The callbacks in the order in which clients set and clear them; "input"
\* stands for the button, encoder, key and control callbacks.
Kinds == <<"disconnect", "render", "input">>
Kind  == {"disconnect", "render", "input"}

DeviceInit ==
  /\ m_pDeviceHandle = [d \in Devices |-> "none"]
  /\ m_connected = [d \in Devices |-> FALSE]
  /\ m_cb = [d \in Devices |-> [c \in Kind |-> None]]
  /\ m_mtxCallbacks = [d \in Devices |-> None]

DeviceTypeOK ==
  /\ m_pDeviceHandle \in [Devices -> {"none", "open", "armed"}]
  /\ m_connected \in [Devices -> BOOLEAN]
  /\ m_cb \in [Devices -> [Kind -> Clients \cup {None}]]
  /\ m_mtxCallbacks \in [Devices -> Threads \cup {None}]

HasDeviceHandle(d) == m_pDeviceHandle[d] # "none"

SetDeviceHandle(d) ==
  /\ m_pDeviceHandle' = [m_pDeviceHandle EXCEPT ![d] = "open"]
  /\ UNCHANGED <<m_connected, m_cb, m_mtxCallbacks>>

\* init() of the controller, the first half of onConnect(): it starts the
\* asynchronous reads whose results arrive on the USB thread.
InitDevice(d) ==
  /\ m_pDeviceHandle' = [m_pDeviceHandle EXCEPT ![d] = IF @ = "none" THEN @ ELSE "armed"]
  /\ UNCHANGED <<m_connected, m_cb, m_mtxCallbacks>>

\* m_connected = true, the second half of onConnect().
Connected(d) ==
  /\ m_connected' = [m_connected EXCEPT ![d] = TRUE]
  /\ UNCHANGED <<m_pDeviceHandle, m_cb, m_mtxCallbacks>>

\* onDisconnect() up to its callback; stopFastThread() is in RTThreadRunner.
Disconnect(d) ==
  /\ m_connected' = [m_connected EXCEPT ![d] = FALSE]
  /\ m_pDeviceHandle' = [m_pDeviceHandle EXCEPT ![d] = "none"]
  /\ UNCHANGED <<m_cb, m_mtxCallbacks>>

SetCallbackUnlocked(d, c, k) ==   \* mutant: no lock_guard
  /\ m_cb' = [m_cb EXCEPT ![d][c] = k]
  /\ UNCHANGED <<m_pDeviceHandle, m_connected, m_mtxCallbacks>>

\* setCallbackX(): the lock is taken and given back within the step.
SetCallback(d, c, k) ==
  /\ m_mtxCallbacks[d] = None
  /\ m_cb' = [m_cb EXCEPT ![d][c] = k]
  /\ UNCHANGED <<m_pDeviceHandle, m_connected, m_mtxCallbacks>>

\* buttonChanged(), render() and their like: thread t enters the client bound
\* to c, and keeps the lock until the client returns.
Call(t, d, c) ==
  /\ m_mtxCallbacks[d] = None
  /\ m_cb[d][c] # None
  /\ m_mtxCallbacks' = [m_mtxCallbacks EXCEPT ![d] = t]
  /\ UNCHANGED <<m_pDeviceHandle, m_connected, m_cb>>

\* The same with an empty callback: lock, look, unlock.
CallNothing(d, c) ==
  /\ m_mtxCallbacks[d] = None
  /\ m_cb[d][c] = None
  /\ UNCHANGED deviceVars

\* The client has returned.
Return(d) ==
  /\ m_mtxCallbacks' = [m_mtxCallbacks EXCEPT ![d] = None]
  /\ UNCHANGED <<m_pDeviceHandle, m_connected, m_cb>>
===============================================================================
