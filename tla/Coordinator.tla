------------------------------ MODULE Coordinator ------------------------------
(***************************************************************************)
(* The Coordinator (src/devices/Coordinator.cpp) with the devices and the  *)
(* clients it serves, and the three threads that run them:                 *)
(*   - "cabl", the Coordinator's own thread: one scan, then ticks;         *)
(*   - "usb", DriverLibUSB's event thread: a scan per hotplug event, and   *)
(*     the input events of asynchronous reads;                             *)
(*   - "main", the application: it makes, initialises and destroys its     *)
(*     clients, asks for scans, and ends the program.                      *)
(* A thread's step is a critical section or a call up to the next point    *)
(* where another thread can be seen: a lock, a callback, a shared field.   *)
(* m_collCbDevicesListChanged and m_collDevices are maps that some threads *)
(* read and write without a lock; a racing reader sees the entry or not.   *)
(***************************************************************************)
EXTENDS Client, Sequences

CONSTANT MaxPlugs   \* how many times something is plugged or unplugged

ASSUME ThreadsAssumption  == Threads = {"cabl", "usb", "main"}
ASSUME MaxPlugsAssumption == MaxPlugs \in Nat

VARIABLES
  plugged,              \* the devices on the bus
  plugs,                \* plugged/unplugged so far
  hotplugs,             \* hotplug events that libusb has not delivered yet
  registered,           \* libusb calls cbHotplug()
  unseen,               \* devices that the last scan could not open, or whose
                        \* coming or going since makes no event
  m_mtxDescriptors,     \* m_mtxDeviceDescriptors: its holder or None
  m_mtxDevices,         \* its holder or None
  m_descriptors,        \* m_collDeviceDescriptors
  m_devices,            \* the keys of m_collDevices
  m_callbacks,          \* the keys of m_collCbDevicesListChanged
  m_scanDone, m_clientRegistered, m_running,
  previous,             \* scan(): the list before this scan
  pc, dev, cli,         \* per thread: control, current device and client
  current,              \* the client that main makes, initialises or destroys
  due,                  \* per thread: what a loop has still to visit
  list,                 \* per thread: the descriptors passed to a client
  step                  \* per thread: position in Kinds while (un)binding

threadVars == <<pc, dev, cli, due, list, step>>
scanVars   == <<m_descriptors, m_scanDone, previous>>
lockVars   == <<m_mtxDescriptors, m_mtxDevices>>
appVars    == <<m_callbacks, m_clientRegistered, m_running, current>>
busVars    == <<plugged, plugs, hotplugs, registered, unseen>>
vars == <<deviceVars, clientVars, threadVars, scanVars, lockVars, appVars,
          busVars, m_devices>>

Init ==
  /\ DeviceInit /\ ClientInit
  /\ plugged \in SUBSET Devices /\ plugs = 0
  /\ hotplugs = <<>> /\ registered = TRUE /\ unseen = {}
  /\ m_mtxDescriptors = None /\ m_mtxDevices = None
  /\ m_descriptors = {} /\ m_devices = {} /\ m_callbacks = {} /\ previous = {}
  /\ m_scanDone = FALSE /\ m_clientRegistered = FALSE /\ m_running = TRUE
  /\ pc = [t \in Threads |-> IF t = "cabl" THEN "wait" ELSE "run"]
  /\ dev = [t \in Threads |-> None] /\ cli = [t \in Threads |-> None]
  /\ due = [t \in Threads |-> {}] /\ list = [t \in Threads |-> {}]
  /\ step = [t \in Threads |-> 1] /\ current = None

Goto(t, label) == pc' = [pc EXCEPT ![t] = label]
At(t, label)   == pc[t] = label
Set(f, t, v)   == [f EXCEPT ![t] = v]

\* Where scan() returns to: "main" called it from enumerate().
AfterScan(t) ==
  CASE t = "cabl" -> "loop" [] t = "usb" -> "run" [] t = "main" -> "copy"
------------------------------------------------------------------------------
(***************************************************************************)
(* scan()                                                                  *)
(***************************************************************************)
ScanLock(t) ==
  /\ At(t, "scan") /\ m_mtxDescriptors = None
  /\ m_mtxDescriptors' = t
  /\ previous' = m_descriptors /\ m_descriptors' = {}
  /\ unseen' = {}
  /\ due' = Set(due, t, plugged)
  /\ Goto(t, "fill")
  /\ UNCHANGED <<deviceVars, clientVars, dev, cli, list, step, m_scanDone,
                 m_mtxDevices, appVars, plugged, plugs, hotplugs, registered,
                 m_devices>>

\* One descriptor after the other: enumerate() copies the list without a lock.
ScanFill(t) ==
  /\ At(t, "fill") /\ due[t] # {}
  /\ m_descriptors' = m_descriptors \cup {First(due[t])}
  /\ due' = Set(due, t, due[t] \ {First(due[t])})
  /\ UNCHANGED <<deviceVars, clientVars, pc, dev, cli, list, step, m_scanDone,
                 previous, lockVars, appVars, busVars, m_devices>>

\* A device that libusb cannot open is left out.
ScanSkip(t) ==
  /\ At(t, "fill") /\ due[t] # {}
  /\ unseen' = unseen \cup {First(due[t])}
  /\ due' = Set(due, t, due[t] \ {First(due[t])})
  /\ UNCHANGED <<deviceVars, clientVars, pc, dev, cli, list, step, scanVars,
                 lockVars, appVars, plugged, plugs, hotplugs, registered,
                 m_devices>>

ScanDevicesUnlocked(t) ==   \* mutant: devices are dropped while they tick
  /\ At(t, "fill") /\ due[t] = {}
  /\ m_mtxDevices' = t
  /\ due' = Set(due, t, m_devices \ m_descriptors)
  /\ Goto(t, "drop")
  /\ UNCHANGED <<deviceVars, clientVars, dev, cli, list, step, scanVars,
                 m_mtxDescriptors, appVars, busVars, m_devices>>

ScanDevicesLock(t) ==
  /\ At(t, "fill") /\ due[t] = {} /\ m_mtxDevices = None
  /\ m_mtxDevices' = t
  /\ due' = Set(due, t, m_devices \ m_descriptors)
  /\ Goto(t, "drop")
  /\ UNCHANGED <<deviceVars, clientVars, dev, cli, list, step, scanVars,
                 m_mtxDescriptors, appVars, busVars, m_devices>>

\* onDisconnect() of every device that is not in the list, new or long gone.
ScanDrop(t) ==
  /\ At(t, "drop") /\ due[t] # {}
  /\ Disconnect(First(due[t]))
  /\ dev' = Set(dev, t, First(due[t]))
  /\ due' = Set(due, t, due[t] \ {First(due[t])})
  /\ Goto(t, "dropped")
  /\ UNCHANGED <<clientVars, cli, list, step, scanVars, lockVars, appVars,
                 busVars, m_devices>>

ScanTellDropped(t) ==
  /\ At(t, "dropped")
  /\ \/ /\ CallNothing(dev[t], "disconnect")
        /\ Goto(t, "drop") /\ dev' = Set(dev, t, None) /\ cli' = cli
     \/ /\ Call(t, dev[t], "disconnect")
        /\ cli' = Set(cli, t, m_cb[dev[t]]["disconnect"])
        /\ Goto(t, "disconnected") /\ dev' = dev
  /\ UNCHANGED <<clientVars, due, list, step, scanVars, lockVars, appVars,
                 busVars, m_devices>>

ScanToldDroppedRescan(t) ==   \* mutant: disconnected() calls enumerate(true)
  /\ At(t, "disconnected")
  /\ Goto(t, "scan")
  /\ UNCHANGED <<deviceVars, clientVars, dev, cli, due, list, step, scanVars,
                 lockVars, appVars, busVars, m_devices>>

\* Client::disconnected() returns.
ScanToldDropped(t) ==
  /\ At(t, "disconnected")
  /\ Return(dev[t])
  /\ Goto(t, "drop")
  /\ dev' = Set(dev, t, None) /\ cli' = Set(cli, t, None)
  /\ UNCHANGED <<clientVars, due, list, step, scanVars, lockVars,
                 appVars, busVars, m_devices>>

\* The devices lock is given back; scan() ends here when the list is the same.
ScanCompare(t) ==
  /\ At(t, "drop") /\ due[t] = {}
  /\ m_mtxDevices' = None
  /\ m_scanDone' = TRUE /\ previous' = {}
  /\ IF m_descriptors = previous
       THEN Goto(t, AfterScan(t)) /\ m_mtxDescriptors' = None
       ELSE Goto(t, "notify") /\ m_mtxDescriptors' = t
  /\ UNCHANGED <<deviceVars, clientVars, dev, cli, due, list, step,
                 m_descriptors, appVars, busVars, m_devices>>

\* devicesListChanged(): the callbacks are called one by one; due[t] holds the
\* clients already called.  The loop copies an entry before it calls it, so
\* that a client erased in between is still called.
ScanNotify(t) ==
  /\ At(t, "notify")
  /\ \/ /\ m_callbacks \subseteq due[t]
        /\ m_mtxDescriptors' = None
        /\ due' = Set(due, t, {}) /\ cli' = Set(cli, t, None)
        /\ Goto(t, AfterScan(t))
        /\ UNCHANGED list
     \/ \E k \in m_callbacks \ due[t] :
          /\ cli' = Set(cli, t, k) /\ due' = Set(due, t, due[t] \cup {k})
          /\ list' = Set(list, t, m_descriptors)
          /\ Goto(t, "list")
          /\ UNCHANGED m_mtxDescriptors
  /\ UNCHANGED <<deviceVars, clientVars, dev, step, scanVars, m_mtxDevices,
                 appVars, busVars, m_devices>>
------------------------------------------------------------------------------
(***************************************************************************)
(* Client::devicesListChanged(), Coordinator::connect() and                *)
(* Client::onInitDevice() for client cli[t], on the thread that scanned or *)
(* on "main" from Client::init()                                           *)
(***************************************************************************)

\* The scanning thread goes on with the next callback.
Back(t) ==
  /\ Goto(t, IF m_mtxDescriptors = t THEN "notify" ELSE "run")
  /\ list' = Set(list, t, {}) /\ step' = Set(step, t, 1)
  /\ dev' = Set(dev, t, None) /\ cli' = Set(cli, t, None)

\* What the policy matches; before its construction and after its destruction
\* it may match nothing.
Matches(t, k) ==
  {list[t] \cap Policy[k]} \cup (IF phase[k] = "alive" THEN {} ELSE {{}})

ListChanged(t) ==
  /\ At(t, "list")
  /\ \E found \in Matches(t, cli[t]) :
       IF found # {} /\ NeedsDevice(cli[t])
         THEN /\ dev' = Set(dev, t, First(found))
              /\ list' = Set(list, t, {})
              /\ Goto(t, "open") /\ UNCHANGED <<cli, step>>
         ELSE Back(t)
  /\ UNCHANGED <<deviceVars, clientVars, due, scanVars, lockVars, appVars,
                 busVars, m_devices>>

\* connect() opens the device whether or not it is still there, for
\* Driver::connect() wraps the failure in a handle too.
ConnectOpen(t) ==
  /\ At(t, "open")
  /\ SetDeviceHandle(dev[t])
  /\ m_devices' = m_devices \cup {dev[t]}
  /\ Goto(t, "init")
  /\ UNCHANGED <<clientVars, dev, cli, due, list, step, scanVars, lockVars,
                 appVars, busVars>>

ConnectInit(t) ==
  /\ At(t, "init")
  /\ InitDevice(dev[t])
  /\ Goto(t, "connected")
  /\ UNCHANGED <<clientVars, dev, cli, due, list, step, scanVars, lockVars,
                 appVars, busVars, m_devices>>

ConnectDone(t) ==
  /\ At(t, "connected")
  /\ Connected(dev[t])
  /\ Goto(t, "taken")
  /\ UNCHANGED <<clientVars, dev, cli, due, list, step, scanVars, lockVars,
                 appVars, busVars, m_devices>>

ConnectTaken(t) ==
  /\ At(t, "taken")
  /\ TakeDevice(cli[t], dev[t])
  /\ Goto(t, "bind")
  /\ UNCHANGED <<deviceVars, dev, cli, due, list, step, scanVars, lockVars,
                 appVars, busVars, m_devices>>

\* m_pDevice is read again for every callback.
BindOne(t) ==
  /\ At(t, "bind") /\ step[t] <= Len(Kinds) /\ m_pDevice[cli[t]] # None
  /\ SetCallback(m_pDevice[cli[t]], Kinds[step[t]], cli[t])
  /\ step' = Set(step, t, step[t] + 1)
  /\ UNCHANGED <<clientVars, pc, dev, cli, due, list, scanVars, lockVars,
                 appVars, busVars, m_devices>>

BindDone(t) ==
  /\ At(t, "bind")
  /\ \/ step[t] > Len(Kinds) /\ RequestUpdate(cli[t])
     \/ m_pDevice[cli[t]] = None /\ UNCHANGED clientVars
  /\ Back(t)
  /\ UNCHANGED <<deviceVars, due, scanVars, lockVars, appVars, busVars,
                 m_devices>>
------------------------------------------------------------------------------
(***************************************************************************)
(* A callback for input: thread t is in tick() or in an asynchronous read. *)
(***************************************************************************)
AfterEvent(t) == IF t = "cabl" THEN "next" ELSE "run"

Event(t) ==
  /\ At(t, "event")
  /\ \/ /\ CallNothing(dev[t], "input")
        /\ dev' = Set(dev, t, None) /\ cli' = cli
        /\ Goto(t, AfterEvent(t))
     \/ /\ Call(t, dev[t], "input")
        /\ cli' = Set(cli, t, m_cb[dev[t]]["input"]) /\ dev' = dev
        /\ Goto(t, "inevent")
  /\ UNCHANGED <<clientVars, due, list, step, scanVars, lockVars, appVars,
                 busVars, m_devices>>

InEvent(t) ==
  /\ At(t, "inevent")
  /\ RequestUpdate(cli[t])
  /\ Return(dev[t])
  /\ dev' = Set(dev, t, None) /\ cli' = Set(cli, t, None)
  /\ Goto(t, AfterEvent(t))
  /\ UNCHANGED <<due, list, step, scanVars, lockVars, appVars, busVars,
                 m_devices>>
------------------------------------------------------------------------------
(***************************************************************************)
(* "cabl": run()                                                           *)
(***************************************************************************)
CablWait ==
  /\ At("cabl", "wait") /\ m_clientRegistered
  /\ Goto("cabl", "scan")
  /\ UNCHANGED <<deviceVars, clientVars, dev, cli, due, list, step, scanVars,
                 lockVars, appVars, busVars, m_devices>>

CablLockForever ==   \* mutant: the loop does not look at m_running
  /\ At("cabl", "loop") /\ m_mtxDevices = None
  /\ m_mtxDevices' = "cabl"
  /\ due' = Set(due, "cabl", m_devices)
  /\ Goto("cabl", "next")
  /\ UNCHANGED <<deviceVars, clientVars, dev, cli, list, step, scanVars,
                 m_mtxDescriptors, appVars, busVars, m_devices>>

\* A round: the lock is held until every device has ticked.  A device that is
\* inserted meanwhile is seen in the next round.
CablLock ==
  /\ At("cabl", "loop") /\ m_running /\ m_mtxDevices = None
  /\ m_mtxDevices' = "cabl"
  /\ due' = Set(due, "cabl", m_devices)
  /\ Goto("cabl", "next")
  /\ UNCHANGED <<deviceVars, clientVars, dev, cli, list, step, scanVars,
                 m_mtxDescriptors, appVars, busVars, m_devices>>

CablStop ==
  /\ At("cabl", "loop") /\ ~m_running
  /\ Goto("cabl", "done")
  /\ UNCHANGED <<deviceVars, clientVars, dev, cli, due, list, step, scanVars,
                 lockVars, appVars, busVars, m_devices>>

CablUnlock ==
  /\ At("cabl", "next") /\ due["cabl"] = {}
  /\ m_mtxDevices' = None
  /\ Goto("cabl", "loop")
  /\ UNCHANGED <<deviceVars, clientVars, dev, cli, due, list, step, scanVars,
                 m_mtxDescriptors, appVars, busVars, m_devices>>

\* onTick() of the next device, which does nothing without a handle.
CablNext ==
  /\ At("cabl", "next") /\ due["cabl"] # {}
  /\ LET d == First(due["cabl"]) IN
       /\ due' = Set(due, "cabl", due["cabl"] \ {d})
       /\ IF HasDeviceHandle(d)
            THEN Goto("cabl", "render") /\ dev' = Set(dev, "cabl", d)
            ELSE UNCHANGED <<pc, dev>>
  /\ UNCHANGED <<deviceVars, clientVars, cli, list, step, scanVars, lockVars,
                 appVars, busVars, m_devices>>

CablRender ==
  /\ At("cabl", "render")
  /\ \/ /\ CallNothing(dev["cabl"], "render")
        /\ Goto("cabl", "tick") /\ cli' = cli
     \/ /\ Call("cabl", dev["cabl"], "render")
        /\ cli' = Set(cli, "cabl", m_cb[dev["cabl"]]["render"])
        /\ Goto("cabl", "inrender")
  /\ UNCHANGED <<clientVars, dev, due, list, step, scanVars, lockVars, appVars,
                 busVars, m_devices>>

\* onRender(): the exchange takes the request, and a frame is drawn.
OnRender ==
  /\ At("cabl", "inrender")
  /\ TakeUpdate(cli["cabl"]) /\ MayRender(cli["cabl"])
  /\ Goto("cabl", "rendering")
  /\ UNCHANGED <<deviceVars, dev, cli, due, list, step, scanVars, lockVars,
                 appVars, busVars, m_devices>>

\* No request, no device to draw on (the request is taken all the same), or an
\* exchange that fails without a reason.
OnRenderSkip ==
  /\ At("cabl", "inrender")
  /\ \/ TakeUpdate(cli["cabl"]) /\ ~MayRender(cli["cabl"])
     \/ UNCHANGED clientVars
  /\ Return(dev["cabl"])
  /\ Goto("cabl", "tick") /\ cli' = Set(cli, "cabl", None)
  /\ UNCHANGED <<dev, due, list, step, scanVars, lockVars, appVars, busVars,
                 m_devices>>

RenderingLate ==   \* mutant: the request is cleared when the frame is drawn
  /\ At("cabl", "rendering")
  /\ m_update' = [m_update EXCEPT ![cli["cabl"]] = FALSE]
  /\ Return(dev["cabl"])
  /\ Goto("cabl", "tick") /\ cli' = Set(cli, "cabl", None)
  /\ UNCHANGED <<phase, m_pDevice, dev, due, list, step, scanVars, lockVars,
                 appVars, busVars, m_devices>>

\* The client's render(), which may ask for the next frame.
Rendering ==
  /\ At("cabl", "rendering")
  /\ RequestUpdate(cli["cabl"]) \/ UNCHANGED clientVars
  /\ Return(dev["cabl"])
  /\ Goto("cabl", "tick") /\ cli' = Set(cli, "cabl", None)
  /\ UNCHANGED <<dev, due, list, step, scanVars, lockVars, appVars, busVars,
                 m_devices>>

\* tick(), when the device is connected, may read an input.
CablTick ==
  /\ At("cabl", "tick")
  /\ \/ m_connected[dev["cabl"]] /\ Goto("cabl", "event") /\ dev' = dev
     \/ Goto("cabl", "next") /\ dev' = Set(dev, "cabl", None)
  /\ UNCHANGED <<deviceVars, clientVars, cli, due, list, step, scanVars,
                 lockVars, appVars, busVars, m_devices>>

Cabl == CablWait \/ CablLock \/ CablStop \/ CablUnlock \/ CablNext
          \/ CablRender \/ OnRender \/ OnRenderSkip \/ Rendering \/ CablTick
------------------------------------------------------------------------------
(***************************************************************************)
(* "usb": hotplug events and the ends of asynchronous reads                *)
(***************************************************************************)

UsbHotplugUnlessBusy ==   \* mutant: the event is dropped during a scan
  /\ At("usb", "run") /\ hotplugs # <<>>
  /\ hotplugs' = Tail(hotplugs)
  /\ IF m_mtxDescriptors = None THEN Goto("usb", "scan") ELSE pc' = pc
  /\ UNCHANGED <<deviceVars, clientVars, dev, cli, due, list, step, scanVars,
                 lockVars, appVars, plugged, plugs, registered, unseen, m_devices>>

\* The devices of the events that are still to come.
Pending == {hotplugs[i].device : i \in 1..Len(hotplugs)}

\* cbHotplug(): a scan.  But if what has arrived, a device of the library or any other,
\* cannot be opened, the answer -1 makes libusb forget the callback: neither this event
\* nor those behind it, nor any later one, leads to a scan.
UsbHotplug ==
  /\ At("usb", "run") /\ hotplugs # <<>>
  /\ \/ /\ Goto("usb", "scan")
        /\ hotplugs' = Tail(hotplugs)
        /\ UNCHANGED <<registered, unseen>>
     \/ /\ Head(hotplugs).arrived
        /\ registered' = FALSE /\ hotplugs' = <<>>
        /\ unseen' = unseen \cup (Pending \ {None})
        /\ UNCHANGED pc
  /\ UNCHANGED <<deviceVars, clientVars, dev, cli, due, list, step, scanVars,
                 lockVars, appVars, plugged, plugs, m_devices>>

UsbInput(d) ==
  /\ At("usb", "run") /\ m_pDeviceHandle[d] = "armed"
  /\ dev' = Set(dev, "usb", d)
  /\ Goto("usb", "event")
  /\ UNCHANGED <<deviceVars, clientVars, cli, due, list, step, scanVars,
                 lockVars, appVars, busVars, m_devices>>

\* The bus: a device comes or goes, and an event is queued if libusb still has a callback.
Plug(d) ==
  /\ plugs < MaxPlugs
  /\ plugs' = plugs + 1
  /\ plugged' = IF d \in plugged THEN plugged \ {d} ELSE plugged \cup {d}
  /\ IF registered
       THEN /\ hotplugs' = Append(hotplugs, [device |-> d, arrived |-> d \notin plugged])
            /\ UNCHANGED unseen
       ELSE /\ unseen' = unseen \cup {d}
            /\ UNCHANGED hotplugs
  /\ UNCHANGED <<deviceVars, clientVars, threadVars, scanVars, lockVars,
                 appVars, registered, m_devices>>

\* Something arrives that the library has no use for: cbHotplug() is called all the same.
PlugOther ==
  /\ plugs < MaxPlugs /\ registered
  /\ plugs' = plugs + 1
  /\ hotplugs' = Append(hotplugs, [device |-> None, arrived |-> TRUE])
  /\ UNCHANGED <<deviceVars, clientVars, threadVars, scanVars, lockVars,
                 appVars, plugged, registered, unseen, m_devices>>
------------------------------------------------------------------------------
(***************************************************************************)
(* "main": the application                                                 *)
(***************************************************************************)
MainNew(k) ==
  /\ At("main", "run") /\ m_running /\ phase[k] = "unborn"
  /\ Enter(k, "ctor")
  /\ m_callbacks' = m_callbacks \cup {k} /\ m_clientRegistered' = TRUE
  /\ current' = k
  /\ Goto("main", "ctor")
  /\ UNCHANGED <<deviceVars, dev, cli, due, list, step, scanVars, lockVars,
                 m_running, busVars, m_devices>>

MainConstruct ==
  /\ At("main", "ctor")
  /\ Construct(current)
  /\ Goto("main", "enum")
  /\ UNCHANGED <<deviceVars, dev, cli, due, list, step, scanVars, lockVars,
                 appVars, busVars, m_devices>>

\* Client::init(): enumerate() scans only when nobody has yet.
MainEnumerate ==
  /\ At("main", "enum")
  /\ Goto("main", IF m_scanDone THEN "copy" ELSE "scan")
  /\ UNCHANGED <<deviceVars, clientVars, dev, cli, due, list, step, scanVars,
                 lockVars, appVars, busVars, m_devices>>

\* The list is copied without a lock, while another thread may be filling it.
MainCopy ==
  /\ At("main", "copy")
  /\ IF current = None
       THEN Goto("main", "run") /\ UNCHANGED <<list, cli>>
       ELSE /\ Goto("main", "list") /\ cli' = Set(cli, "main", current)
            /\ list' = Set(list, "main", m_descriptors)
  /\ current' = None
  /\ UNCHANGED <<deviceVars, clientVars, dev, due, step, scanVars, lockVars,
                 m_callbacks, m_clientRegistered, m_running, busVars, m_devices>>

\* enumerate(true)
MainRescan ==
  /\ At("main", "run") /\ m_running
  /\ Goto("main", "scan")
  /\ UNCHANGED <<deviceVars, clientVars, dev, cli, due, list, step, scanVars,
                 lockVars, appVars, busVars, m_devices>>

\* ~Client(): the callbacks are cleared one by one, then the client leaves.
MainDestroy(k) ==
  /\ At("main", "run") /\ phase[k] = "alive"
  /\ Enter(k, "dtor")
  /\ current' = k
  /\ Goto("main", "clear")
  /\ UNCHANGED <<deviceVars, dev, cli, due, list, step, scanVars, lockVars,
                 m_callbacks, m_clientRegistered, m_running, busVars, m_devices>>

MainClear ==
  /\ At("main", "clear") /\ step["main"] <= Len(Kinds)
  /\ m_pDevice[current] # None
  /\ SetCallback(m_pDevice[current], Kinds[step["main"]], None)
  /\ step' = Set(step, "main", step["main"] + 1)
  /\ UNCHANGED <<clientVars, pc, dev, cli, due, list, scanVars, lockVars,
                 appVars, busVars, m_devices>>

MainUnregister ==
  /\ At("main", "clear")
  /\ step["main"] > Len(Kinds) \/ m_pDevice[current] = None
  /\ m_callbacks' = m_callbacks \ {current}
  /\ Enter(current, "gone")
  /\ current' = None /\ step' = Set(step, "main", 1)
  /\ Goto("main", "run")
  /\ UNCHANGED <<deviceVars, dev, cli, due, list, scanVars, lockVars,
                 m_clientRegistered, m_running, busVars, m_devices>>

\* requestDeviceUpdate() from the application.
MainRequest(k) ==
  /\ At("main", "run") /\ phase[k] = "alive"
  /\ RequestUpdate(k)
  /\ UNCHANGED <<deviceVars, threadVars, scanVars, lockVars, appVars, busVars,
                 m_devices>>

\* The program ends when its clients are gone: ~Coordinator() joins "cabl".
MainExit ==
  /\ At("main", "run") /\ m_running
  /\ \A k \in Clients : phase[k] \in {"unborn", "gone"}
  /\ m_running' = FALSE
  /\ Goto("main", "join")
  /\ UNCHANGED <<deviceVars, clientVars, dev, cli, due, list, step, scanVars,
                 lockVars, m_callbacks, m_clientRegistered, current, busVars,
                 m_devices>>

MainJoin ==
  /\ At("main", "join") /\ At("cabl", "done")
  /\ Goto("main", "exited")
  /\ UNCHANGED <<deviceVars, clientVars, dev, cli, due, list, step, scanVars,
                 lockVars, appVars, busVars, m_devices>>
------------------------------------------------------------------------------
Scan(t) == ScanLock(t) \/ ScanFill(t) \/ ScanSkip(t) \/ ScanDevicesLock(t)
             \/ ScanDrop(t) \/ ScanTellDropped(t) \/ ScanToldDropped(t)
             \/ ScanCompare(t) \/ ScanNotify(t)

Connect(t) == ListChanged(t) \/ ConnectOpen(t) \/ ConnectInit(t)
                \/ ConnectDone(t) \/ ConnectTaken(t) \/ BindOne(t) \/ BindDone(t)

\* What a thread does once it has begun something.
Step(t) == Scan(t) \/ Connect(t) \/ Event(t) \/ InEvent(t)

\* What main does once it has begun something.
Main == MainConstruct \/ MainEnumerate \/ MainCopy \/ MainClear
          \/ MainUnregister \/ MainJoin

\* What the application and the bus may do, and need not.
Choice == \/ \E k \in Clients : MainNew(k) \/ MainDestroy(k) \/ MainRequest(k)
          \/ MainRescan \/ MainExit
          \/ \E d \in Devices : UsbInput(d) \/ Plug(d)
          \/ PlugOther

Next == (\E t \in Threads : Step(t)) \/ Cabl \/ UsbHotplug \/ Main \/ Choice

Spec == Init /\ [][Next]_vars

\* What a thread does when it has to wait for a lock first.
Acquire(t) ==
  \/ ScanLock(t) \/ ScanDevicesLock(t) \/ ScanTellDropped(t) \/ BindOne(t)
  \/ Event(t)
  \/ t = "cabl" /\ (CablLock \/ CablRender)
  \/ t = "main" /\ MainClear

\* Every thread that can go on goes on; a mutex is not handed over in order, but
\* a thread that waits for one gets it in the end; and the exchange in onRender()
\* does not fail for ever.
Fairness ==
  /\ \A t \in Threads : WF_vars(Step(t)) /\ SF_vars(Acquire(t))
  /\ WF_vars(Cabl) /\ SF_vars(OnRender) /\ WF_vars(UsbHotplug) /\ WF_vars(Main)
------------------------------------------------------------------------------
Labels == {"wait", "loop", "next", "render", "inrender", "rendering", "tick",
           "done", "run", "scan", "fill", "drop", "dropped", "disconnected",
           "notify", "list", "open", "init", "connected", "taken", "bind",
           "event", "inevent", "ctor", "enum", "copy", "clear", "join", "exited"}

\* What has come or gone: a device of the library or, None, another.
HotplugEvents == [device: Devices \cup {None}, arrived: BOOLEAN]

\* Every variable keeps its type.
TypeOK ==
  /\ DeviceTypeOK /\ ClientTypeOK
  /\ plugged \in SUBSET Devices /\ plugs \in 0..MaxPlugs
  /\ hotplugs \in Seq(HotplugEvents)
  /\ registered \in BOOLEAN
  /\ unseen \in SUBSET Devices
  /\ m_mtxDescriptors \in Threads \cup {None}
  /\ m_mtxDevices \in Threads \cup {None}
  /\ m_descriptors \in SUBSET Devices /\ previous \in SUBSET Devices
  /\ m_devices \in SUBSET Devices /\ m_callbacks \in SUBSET Clients
  /\ m_scanDone \in BOOLEAN /\ m_clientRegistered \in BOOLEAN
  /\ m_running \in BOOLEAN
  /\ pc \in [Threads -> Labels]
  /\ dev \in [Threads -> Devices \cup {None}]
  /\ cli \in [Threads -> Clients \cup {None}]
  /\ due \in [Threads -> SUBSET (Devices \cup Clients)]
  /\ list \in [Threads -> SUBSET Devices]
  /\ step \in [Threads -> 1..(Len(Kinds) + 1)]
  /\ current \in Clients \cup {None}

\* The kind of callback that a thread at a label is inside.
CallbackOf == [disconnected |-> "disconnect", inrender |-> "render",
               rendering |-> "render", inevent |-> "input"]
InCallback(t) == pc[t] \in DOMAIN CallbackOf

\* Device.h, m_mtxCallbacks: a callback is never run while another thread runs
\* one of the same device, and the one that runs is the one that is bound: no
\* setCallback of a Client that comes or goes replaces it under way.
CallbacksAreSerialized ==
  \A t \in Threads : InCallback(t) =>
    /\ m_cb[dev[t]][CallbackOf[pc[t]]] = cli[t]
    /\ \A u \in Threads \ {t} : InCallback(u) => dev[u] # dev[t]

\* The rank of the lock a thread waits for, and of the locks it holds: the
\* descriptors (1) come before the devices (2), these before the callbacks (3).
Wants(t) ==
  CASE pc[t] = "scan" -> 1
    [] pc[t] = "loop" \/ (pc[t] = "fill" /\ due[t] = {}) -> 2
    [] pc[t] \in {"dropped", "bind", "render", "event", "clear"} -> 3
    [] OTHER -> 4
Holds(t) == {1 : x \in {m_mtxDescriptors} \cap {t}}
              \cup {2 : x \in {m_mtxDevices} \cap {t}}
              \cup {3 : d \in {e \in Devices : m_mtxCallbacks[e] = t}}

\* A thread only ever waits for a lock of a higher rank than those it holds, on
\* whichever thread scan(), onTick() and the client's callbacks run: no circle
\* of threads can wait for one another, and no thread for itself.
LocksAreOrdered == \A t \in Threads : \A held \in Holds(t) : held < Wants(t)

\* From hasDeviceHandle() to the end of tick() the device of the Coordinator's
\* thread keeps a handle: a scan elsewhere cannot take it away meanwhile.
HandleStaysDuringTick ==
  pc["cabl"] \in {"render", "inrender", "rendering", "tick"} =>
    HasDeviceHandle(dev["cabl"])

\* Two sets of devices are the same outside of a third.
AgreeOutside(S, P, except) == S \ except = P \ except

\* When no scan runs, the list is that of the bus.  It is wrong about no device but those
\* whose event is still to be delivered, that could not be opened, or that came or went
\* when libusb had forgotten the callback: an event that comes during a scan is not lost.
ListIsCurrent ==
  m_scanDone /\ m_mtxDescriptors = None /\ pc["usb"] # "scan" =>
    AgreeOutside(m_descriptors, plugged, unseen \cup Pending)

\* The client can render, and its callback is the one that its device calls: another that
\* takes the same device binds its own in its place.
IsRendered(k) ==
  phase[k] = "alive" /\ MayRender(k) /\ m_cb[m_pDevice[k]]["render"] = k

\* A request for a frame, of an input, of the application or of a client that has
\* just bound its device, is found by onRender() unless the client goes, loses its device
\* to another, its device loses its handle or the program ends: one that comes while a
\* frame is drawn is not taken for the one being served.
RequestIsRendered(k) ==
  m_update[k] /\ IsRendered(k) ~>
    \/ At("cabl", "inrender") /\ cli["cabl"] = k /\ m_update[k]
    \/ ~IsRendered(k) \/ ~m_running

\* ~Coordinator() returns, whatever the other threads are doing, if a client was
\* ever registered; the thread waits for one without looking at m_running.
ShutdownTerminates ==
  At("main", "join") /\ m_clientRegistered ~> At("main", "exited")

\* Client.cpp 43-47: the callbacks are cleared so that nothing "calls back into a
\* dangling `this`" when a client is gone.
NoCallIntoDestroyedClient ==
  \A t \in Threads : InCallback(t) => phase[cli[t]] # "gone"
===============================================================================
