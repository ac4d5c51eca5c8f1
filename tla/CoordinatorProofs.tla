--------------------------- MODULE CoordinatorProofs ---------------------------
(***************************************************************************)
(* Proofs about Coordinator for every set of devices and clients, every    *)
(* policy and any number of devices that come and go.                      *)
(***************************************************************************)
EXTENDS Coordinator, WellFoundedInduction, TLAPS

\* The first of a set of devices is one of them.
LEMMA FirstIsMember ==
  ASSUME NEW S, S \subseteq Devices, S # {}
  PROVE  First(S) \in S
<1>1. S \subseteq Nat
  BY DevicesAssumption
<1>2. \E d \in S : \A e \in S : ~(<<e, d>> \in OpToRel(<, Nat))
  BY <1>1, NatLessThanWellFounded, WFMin, Zenon
<1>3. PICK d \in S : \A e \in S : ~(<<e, d>> \in OpToRel(<, Nat))
  BY <1>2
<1>4. \A e \in S : ~(e < d)
  BY <1>1, <1>3 DEF OpToRel
<1>5. \E x \in S : \A e \in S : x <= e
  BY <1>1, <1>4
<1>6. QED
  BY <1>5 DEF First

\* The kinds of callbacks, by their number.
LEMMA KindsAreKind ==
  /\ Len(Kinds) = 3
  /\ \A i \in 1 .. 3 : Kinds[i] \in Kind
BY DEF Kinds, Kind

\* The queue of events keeps its type.
LEMMA QueueOfEvents ==
  ASSUME NEW q \in Seq(HotplugEvents), NEW e \in HotplugEvents
  PROVE  Append(q, e) \in Seq(HotplugEvents) /\ (q # <<>> => Tail(q) \in Seq(HotplugEvents))
OBVIOUS

LEMMA PendingAreDevices ==
  ASSUME hotplugs \in Seq(HotplugEvents)
  PROVE  Pending \subseteq Devices \cup {None}
<1>1. \A i \in 1 .. Len(hotplugs) : hotplugs[i] \in HotplugEvents
  OBVIOUS
<1>2. QED
  BY <1>1 DEF Pending, HotplugEvents

\* An event that is queued is about its device.
LEMMA PendingOfAppend ==
  ASSUME hotplugs \in Seq(HotplugEvents), NEW e \in HotplugEvents,
         hotplugs' = Append(hotplugs, e)
  PROVE  Pending' = Pending \cup {e.device}
<1>1. /\ Len(hotplugs) \in Nat /\ Len(hotplugs') = Len(hotplugs) + 1
      /\ hotplugs'[Len(hotplugs) + 1] = e
      /\ \A i \in 1 .. Len(hotplugs) : hotplugs'[i] = hotplugs[i]
  OBVIOUS
<1>2. 1 .. Len(hotplugs') = 1 .. Len(hotplugs) \cup {Len(hotplugs) + 1}
  BY <1>1
<1>3. QED
  BY <1>1, <1>2 DEF Pending

\* Where a thread is inside a callback, and inside which.
LEMMA InCallbackIs ==
  /\ DOMAIN CallbackOf = {"disconnected", "inrender", "rendering", "inevent"}
  /\ CallbackOf["disconnected"] = "disconnect" /\ CallbackOf["inrender"] = "render"
  /\ CallbackOf["rendering"] = "render" /\ CallbackOf["inevent"] = "input"
BY DEF CallbackOf
------------------------------------------------------------------------------
(***************************************************************************)
(* The inductive invariant: where a thread is when it holds a lock, and    *)
(* what it has in hand there.                                              *)
(***************************************************************************)
Dropping == {"drop", "dropped", "disconnected"}
Ticking  == {"next", "render", "inrender", "rendering", "tick", "event", "inevent"}
Listing  == {"notify", "list", "open", "init", "connected", "taken", "bind"}

\* A thread in the map of the devices: to drop some, or to let them tick.
InDevices(t) == \/ pc[t] \in Dropping
                \/ t = "cabl" /\ pc[t] \in Ticking

DescriptorsHeld ==
  \A t \in Threads :
    /\ m_mtxDescriptors = t => pc[t] \in {"fill"} \cup Dropping \cup Listing
    /\ pc[t] \in {"fill", "notify"} \cup Dropping => m_mtxDescriptors = t

DevicesHeld == \A t \in Threads : m_mtxDevices = t <=> InDevices(t)

\* What a loop over devices has still to visit, and the device a thread is at.
LoopsVisitDevices ==
  \A t \in Threads : InDevices(t) \/ pc[t] = "fill" => due[t] \subseteq Devices
TargetsAreDevices ==
  \A t \in Threads :
    pc[t] \in {"dropped", "disconnected", "open"} \cup (Ticking \ {"next"}) => dev[t] \in Devices

CallbacksHeld ==
  \A t \in Threads :
    /\ InCallback(t) => /\ m_mtxCallbacks[dev[t]] = t
                        /\ m_cb[dev[t]][CallbackOf[pc[t]]] = cli[t]
    /\ \A d \in Devices : m_mtxCallbacks[d] = t => InCallback(t) /\ dev[t] = d

\* The list is what a scan has found of the bus, or will be when it has taken over what it
\* has found; but for the devices that could not be opened or about which an event is still
\* to come or never will, and until "usb" has begun the scan of the event it has taken.
ListFollowsBus ==
  pc["usb"] # "scan" =>
    /\ \A t \in Threads : pc[t] = "fill" =>
         AgreeOutside(m_descriptors \cup due[t], plugged, unseen \cup Pending)
    /\ (\A t \in Threads : pc[t] # "fill") /\ (m_scanDone \/ \E t \in Threads : pc[t] \in Dropping)
         => AgreeOutside(m_descriptors, plugged, unseen \cup Pending)

IInv == /\ TypeOK /\ DescriptorsHeld /\ DevicesHeld /\ LoopsVisitDevices
        /\ TargetsAreDevices /\ CallbacksHeld /\ HandleStaysDuringTick
        /\ ListFollowsBus

\* The invariant holds at the start, when no lock is held.
LEMMA InitIInv == Init => IInv
<1> SUFFICES ASSUME Init PROVE IInv
  OBVIOUS
<1> USE ThreadsAssumption, NoneAssumption DEF Init, DeviceInit, ClientInit
<1>1. \A t \in Threads : pc[t] \in {"wait", "run"}
  OBVIOUS
<1>2. DeviceTypeOK /\ ClientTypeOK
  BY DEF DeviceTypeOK, ClientTypeOK
<1>3. TypeOK
  <2>1. plugs \in 0 .. MaxPlugs /\ hotplugs \in Seq(HotplugEvents)
    BY MaxPlugsAssumption
  <2>2. pc \in [Threads -> Labels] /\ step \in [Threads -> 1 .. (Len(Kinds) + 1)]
    BY KindsAreKind DEF Labels
  <2>3. QED
    BY <1>2, <2>1, <2>2 DEF TypeOK
<1>4. \A t \in Threads : ~InDevices(t) /\ ~InCallback(t)
  BY <1>1, InCallbackIs DEF InDevices, InCallback, Dropping, Ticking
<1>5. DescriptorsHeld /\ DevicesHeld /\ LoopsVisitDevices
  BY <1>1, <1>4 DEF DescriptorsHeld, DevicesHeld, LoopsVisitDevices, Dropping, Listing
<1>6. TargetsAreDevices /\ HandleStaysDuringTick
  BY <1>1 DEF TargetsAreDevices, HandleStaysDuringTick, Ticking
<1>7. CallbacksHeld
  BY <1>4 DEF CallbacksHeld
<1>8. ListFollowsBus
  BY <1>1 DEF ListFollowsBus, Dropping
<1>9. QED
  BY <1>3, <1>5, <1>6, <1>7, <1>8 DEF IInv

\* Every step keeps the types.
LEMMA TypeStep == IInv /\ [Next]_vars => TypeOK'
<1> SUFFICES ASSUME TypeOK, LoopsVisitDevices, TargetsAreDevices, [Next]_vars PROVE TypeOK'
  BY DEF IInv
<1> USE ThreadsAssumption, KindsAreKind
    DEF TypeOK, DeviceTypeOK, ClientTypeOK, Labels, Goto, At, Set, deviceVars, clientVars,
        threadVars, scanVars, lockVars, appVars, busVars
<1>1. ASSUME NEW t \in Threads, ScanLock(t) PROVE TypeOK'
  BY <1>1 DEF ScanLock
<1>2. ASSUME NEW t \in Threads, ScanFill(t) PROVE TypeOK'
  <2>1. First(due[t]) \in Devices
    BY <1>2, FirstIsMember DEF ScanFill, LoopsVisitDevices
  <2>2. QED
    BY <1>2, <2>1 DEF ScanFill
<1>3. ASSUME NEW t \in Threads, ScanDevicesLock(t) PROVE TypeOK'
  BY <1>3 DEF ScanDevicesLock
<1>4. ASSUME NEW t \in Threads, ScanDrop(t) PROVE TypeOK'
  <2>1. InDevices(t)
    BY <1>4 DEF ScanDrop, InDevices, Dropping
  <2>2. due[t] \subseteq Devices
    BY <2>1 DEF LoopsVisitDevices
  <2>3. First(due[t]) \in Devices
    BY <1>4, <2>2, FirstIsMember DEF ScanDrop
  <2>4. DeviceTypeOK'
    BY <1>4, <2>3 DEF ScanDrop, Disconnect
  <2>5. QED
    BY <1>4, <2>3, <2>4 DEF ScanDrop
<1>5. ASSUME NEW t \in Threads, ScanTellDropped(t) PROVE TypeOK'
  <2>1. dev[t] \in Devices
    BY <1>5 DEF ScanTellDropped, TargetsAreDevices
  <2>2. m_cb[dev[t]]["disconnect"] \in Clients \cup {None}
    BY <2>1 DEF Kind
  <2>3. DeviceTypeOK'
    <3>1. CASE CallNothing(dev[t], "disconnect")
      BY <3>1 DEF CallNothing
    <3>2. CASE Call(t, dev[t], "disconnect")
      BY <2>1, <3>2 DEF Call
    <3>3. QED
      BY <1>5, <3>1, <3>2 DEF ScanTellDropped
  <2>4. ClientTypeOK' /\ UNCHANGED <<due, list, step, current>>
    BY <1>5 DEF ScanTellDropped
  <2>5. /\ pc' \in [Threads -> Labels] /\ dev' \in [Threads -> Devices \cup {None}]
        /\ cli' \in [Threads -> Clients \cup {None}]
    BY <1>5, <2>2 DEF ScanTellDropped
  <2>6. QED
    BY <1>5, <2>3, <2>4, <2>5 DEF ScanTellDropped
<1>6. ASSUME NEW t \in Threads, ScanToldDropped(t) PROVE TypeOK'
  BY <1>6 DEF ScanToldDropped, Return
<1>7. ASSUME NEW t \in Threads, ScanCompare(t) PROVE TypeOK'
  BY <1>7 DEF ScanCompare, AfterScan
<1>8. ASSUME NEW t \in Threads, ScanNotify(t) PROVE TypeOK'
  BY <1>8 DEF ScanNotify, AfterScan
<1>9. ASSUME NEW t \in Threads, ListChanged(t) PROVE TypeOK'
  <2>1. DeviceTypeOK' /\ ClientTypeOK'
    BY <1>9 DEF ListChanged
  <2>2. PICK found \in Matches(t, cli[t]) :
          IF found # {} /\ NeedsDevice(cli[t])
            THEN /\ dev' = Set(dev, t, First(found))
                 /\ list' = Set(list, t, {})
                 /\ Goto(t, "open") /\ UNCHANGED <<cli, step>>
            ELSE Back(t)
    BY <1>9 DEF ListChanged
  <2>3. found # {} => First(found) \in Devices
    BY <2>2, FirstIsMember DEF Matches
  <2>4. CASE found # {} /\ NeedsDevice(cli[t])
    BY <1>9, <2>1, <2>2, <2>3, <2>4 DEF ListChanged
  <2>5. CASE ~(found # {} /\ NeedsDevice(cli[t]))
    <3>1. /\ pc' \in [Threads -> Labels] /\ dev' \in [Threads -> Devices \cup {None}]
          /\ cli' \in [Threads -> Clients \cup {None}]
      BY <2>2, <2>5 DEF Back
    <3>2. /\ list' \in [Threads -> SUBSET Devices]
          /\ step' \in [Threads -> 1 .. (Len(Kinds) + 1)]
      BY <2>2, <2>5 DEF Back
    <3>3. QED
      BY <1>9, <2>1, <3>1, <3>2 DEF ListChanged
  <2>6. QED
    BY <2>4, <2>5
<1>10. ASSUME NEW t \in Threads, ConnectOpen(t) PROVE TypeOK'
  <2>1. dev[t] \in Devices
    BY <1>10 DEF ConnectOpen, TargetsAreDevices
  <2>2. DeviceTypeOK'
    BY <1>10, <2>1 DEF ConnectOpen, SetDeviceHandle
  <2>3. QED
    BY <1>10, <2>1, <2>2 DEF ConnectOpen
<1>11. ASSUME NEW t \in Threads, ConnectInit(t) PROVE TypeOK'
  BY <1>11 DEF ConnectInit, InitDevice
<1>12. ASSUME NEW t \in Threads, ConnectDone(t) PROVE TypeOK'
  BY <1>12 DEF ConnectDone, Connected
<1>13. ASSUME NEW t \in Threads, ConnectTaken(t) PROVE TypeOK'
  BY <1>13 DEF ConnectTaken, TakeDevice
<1>14. ASSUME NEW t \in Threads, BindOne(t) PROVE TypeOK'
  <2>1. m_pDevice[cli[t]] \in Devices => DeviceTypeOK'
    BY <1>14 DEF BindOne, SetCallback
  <2>2. m_pDevice[cli[t]] \notin Devices => m_cb' = m_cb
    BY <1>14 DEF BindOne, SetCallback
  <2>3. DeviceTypeOK'
    BY <1>14, <2>1, <2>2 DEF BindOne, SetCallback
  <2>4. QED
    BY <1>14, <2>3 DEF BindOne
<1>15. ASSUME NEW t \in Threads, BindDone(t) PROVE TypeOK'
  <2>1. DeviceTypeOK' /\ ClientTypeOK'
    BY <1>15 DEF BindDone, RequestUpdate
  <2>2. QED
    BY <1>15, <2>1 DEF BindDone, Back
<1>16. ASSUME NEW t \in Threads, Event(t) PROVE TypeOK'
  <2>1. dev[t] \in Devices
    BY <1>16 DEF Event, TargetsAreDevices, Ticking
  <2>2. DeviceTypeOK'
    <3>1. CASE CallNothing(dev[t], "input")
      BY <3>1 DEF CallNothing
    <3>2. CASE Call(t, dev[t], "input")
      BY <2>1, <3>2 DEF Call
    <3>3. QED
      BY <1>16, <3>1, <3>2 DEF Event
  <2>3. ClientTypeOK'
    BY <1>16 DEF Event
  <2>4. m_cb[dev[t]]["input"] \in Clients \cup {None}
    BY <2>1 DEF Kind
  <2>5. QED
    BY <1>16, <2>2, <2>3, <2>4 DEF Event, AfterEvent
<1>17. ASSUME NEW t \in Threads, InEvent(t) PROVE TypeOK'
  BY <1>17 DEF InEvent, RequestUpdate, Return, AfterEvent
<1>18. CASE CablWait
  BY <1>18 DEF CablWait
<1>19. CASE CablLock
  BY <1>19 DEF CablLock
<1>20. CASE CablStop
  BY <1>20 DEF CablStop
<1>21. CASE CablUnlock
  BY <1>21 DEF CablUnlock
<1>22. CASE CablNext
  <2>1. First(due["cabl"]) \in Devices
    BY <1>22, FirstIsMember DEF CablNext, LoopsVisitDevices, InDevices, Ticking
  <2>2. QED
    BY <1>22, <2>1 DEF CablNext
<1>23. CASE CablRender
  <2>1. dev["cabl"] \in Devices
    BY <1>23 DEF CablRender, TargetsAreDevices, Ticking
  <2>2. DeviceTypeOK' /\ ClientTypeOK'
    BY <1>23, <2>1 DEF CablRender, Call, CallNothing
  <2>3. m_cb[dev["cabl"]]["render"] \in Clients \cup {None}
    BY <2>1 DEF Kind
  <2>4. QED
    BY <1>23, <2>2, <2>3 DEF CablRender
<1>24. CASE OnRender
  BY <1>24 DEF OnRender, TakeUpdate, MayRender
<1>25. CASE OnRenderSkip
  BY <1>25 DEF OnRenderSkip, TakeUpdate, Return
<1>26. CASE Rendering
  BY <1>26 DEF Rendering, RequestUpdate, Return
<1>27. CASE CablTick
  BY <1>27 DEF CablTick
<1>28. CASE UsbHotplug
  <2>1. hotplugs' = <<>> \/ (hotplugs # <<>> /\ hotplugs' = Tail(hotplugs))
    BY <1>28 DEF UsbHotplug
  <2>2. [device |-> None, arrived |-> TRUE] \in HotplugEvents /\ <<>> \in Seq(HotplugEvents)
    BY DEF HotplugEvents
  <2>3. hotplugs' \in Seq(HotplugEvents)
    BY <2>1, <2>2, QueueOfEvents
  <2>4. unseen' \in SUBSET Devices
    <3>1. unseen' = unseen \/ unseen' = unseen \cup (Pending \ {None})
      BY <1>28 DEF UsbHotplug
    <3>2. Pending \subseteq Devices \cup {None} /\ unseen \subseteq Devices
      BY PendingAreDevices, Zenon
    <3>3. QED
      BY <3>1, <3>2
  <2>5. pc' \in [Threads -> Labels] /\ registered' \in BOOLEAN
    <3>1. pc' = pc \/ pc' = [pc EXCEPT !["usb"] = "scan"]
      BY <1>28 DEF UsbHotplug
    <3>2. registered' = registered \/ registered' = FALSE
      BY <1>28 DEF UsbHotplug
    <3>3. pc' \in [Threads -> Labels]
      BY <3>1
    <3>4. QED
      BY <3>2, <3>3
  <2>6. QED
    BY <1>28, <2>3, <2>4, <2>5 DEF UsbHotplug
<1>29. CASE MainConstruct
  BY <1>29 DEF MainConstruct, Construct
<1>30. CASE MainEnumerate
  BY <1>30 DEF MainEnumerate
<1>31. CASE MainCopy
  BY <1>31 DEF MainCopy
<1>32. CASE MainClear
  <2>1. m_pDevice[current] \in Devices => DeviceTypeOK'
    BY <1>32 DEF MainClear, SetCallback
  <2>2. m_pDevice[current] \notin Devices => m_cb' = m_cb
    BY <1>32 DEF MainClear, SetCallback
  <2>3. DeviceTypeOK'
    BY <1>32, <2>1, <2>2 DEF MainClear, SetCallback
  <2>4. QED
    BY <1>32, <2>3 DEF MainClear
<1>33. CASE MainUnregister
  <2>1. DeviceTypeOK' /\ ClientTypeOK'
    BY <1>33 DEF MainUnregister, Enter
  <2>2. QED
    BY <1>33, <2>1 DEF MainUnregister
<1>34. CASE MainJoin
  BY <1>34 DEF MainJoin
<1>35. CASE MainRescan
  BY <1>35 DEF MainRescan
<1>36. CASE MainExit
  BY <1>36 DEF MainExit
<1>37. ASSUME NEW k \in Clients, MainNew(k) PROVE TypeOK'
  BY <1>37 DEF MainNew, Enter
<1>38. ASSUME NEW k \in Clients, MainDestroy(k) PROVE TypeOK'
  BY <1>38 DEF MainDestroy, Enter
<1>39. ASSUME NEW k \in Clients, MainRequest(k) PROVE TypeOK'
  BY <1>39 DEF MainRequest, RequestUpdate
<1>40. ASSUME NEW d \in Devices, UsbInput(d) PROVE TypeOK'
  BY <1>40 DEF UsbInput
<1>41. ASSUME NEW d \in Devices, Plug(d) PROVE TypeOK'
  <2>1. plugs' \in 0 .. MaxPlugs
    BY <1>41, MaxPlugsAssumption DEF Plug
  <2>2. plugged' \in SUBSET Devices /\ unseen' \in SUBSET Devices
    BY <1>41 DEF Plug
  <2>3. [device |-> d, arrived |-> d \notin plugged] \in HotplugEvents
    BY DEF HotplugEvents
  <2>4. hotplugs' \in Seq(HotplugEvents)
    <3>1. \/ hotplugs' = hotplugs
          \/ hotplugs' = Append(hotplugs, [device |-> d, arrived |-> d \notin plugged])
      BY <1>41 DEF Plug
    <3>2. hotplugs \in Seq(HotplugEvents)
      OBVIOUS
    <3>3. Append(hotplugs, [device |-> d, arrived |-> d \notin plugged]) \in Seq(HotplugEvents)
      BY <2>3, <3>2, QueueOfEvents, Zenon
    <3>4. QED
      BY <3>1, <3>2, <3>3, Zenon
  <2>5. QED
    BY <1>41, <2>1, <2>2, <2>4 DEF Plug
<1>42. CASE UNCHANGED vars
  BY <1>42 DEF vars
<1>43. ASSUME NEW t \in Threads, ScanSkip(t) PROVE TypeOK'
  <2>1. First(due[t]) \in Devices
    BY <1>43, FirstIsMember DEF ScanSkip, LoopsVisitDevices
  <2>2. QED
    BY <1>43, <2>1 DEF ScanSkip
<1>44. CASE PlugOther
  <2>1. plugs' \in 0 .. MaxPlugs
    BY <1>44, MaxPlugsAssumption DEF PlugOther
  <2>2. [device |-> None, arrived |-> TRUE] \in HotplugEvents
    BY DEF HotplugEvents
  <2>3. hotplugs' \in Seq(HotplugEvents)
    BY <1>44, <2>2, QueueOfEvents DEF PlugOther
  <2>4. QED
    BY <1>44, <2>1, <2>3 DEF PlugOther
<1>45. QED
  BY <1>1, <1>2, <1>3, <1>4, <1>5, <1>6, <1>7, <1>8, <1>9, <1>10, <1>11, <1>12, <1>13,
     <1>14, <1>15, <1>16, <1>17, <1>18, <1>19, <1>20, <1>21, <1>22, <1>23, <1>24, <1>25,
     <1>26, <1>27, <1>28, <1>29, <1>30, <1>31, <1>32, <1>33, <1>34, <1>35, <1>36, <1>37,
     <1>38, <1>39, <1>40, <1>41, <1>42, <1>43, <1>44
     DEF Next, Step, Scan, Connect, Cabl, Main, Choice

\* Every step keeps the two locks where they belong.
LEMMA LocksStep == IInv /\ [Next]_vars => DescriptorsHeld' /\ DevicesHeld'
<1> SUFFICES ASSUME pc \in [Threads -> Labels], DescriptorsHeld, DevicesHeld, [Next]_vars
             PROVE  DescriptorsHeld' /\ DevicesHeld'
  BY DEF IInv, TypeOK
<1> USE ThreadsAssumption, NoneAssumption
    DEF DescriptorsHeld, DevicesHeld, InDevices, Dropping, Ticking, Listing, Goto, At,
        threadVars, lockVars
<1>1. ASSUME NEW t \in Threads, ScanLock(t) PROVE DescriptorsHeld' /\ DevicesHeld'
  BY <1>1 DEF ScanLock
<1>2. ASSUME NEW t \in Threads, ScanFill(t) PROVE DescriptorsHeld' /\ DevicesHeld'
  BY <1>2 DEF ScanFill
<1>3. ASSUME NEW t \in Threads, ScanDevicesLock(t) PROVE DescriptorsHeld' /\ DevicesHeld'
  BY <1>3 DEF ScanDevicesLock
<1>4. ASSUME NEW t \in Threads, ScanDrop(t) PROVE DescriptorsHeld' /\ DevicesHeld'
  BY <1>4 DEF ScanDrop, Disconnect
<1>5. ASSUME NEW t \in Threads, ScanTellDropped(t) PROVE DescriptorsHeld' /\ DevicesHeld'
  BY <1>5 DEF ScanTellDropped, Call, CallNothing
<1>6. ASSUME NEW t \in Threads, ScanToldDropped(t) PROVE DescriptorsHeld' /\ DevicesHeld'
  BY <1>6 DEF ScanToldDropped, Return
<1>7. ASSUME NEW t \in Threads, ScanCompare(t) PROVE DescriptorsHeld' /\ DevicesHeld'
  BY <1>7 DEF ScanCompare, AfterScan
<1>8. ASSUME NEW t \in Threads, ScanNotify(t) PROVE DescriptorsHeld' /\ DevicesHeld'
  <2>1. CASE m_mtxDescriptors' = None /\ Goto(t, AfterScan(t))
    <3>1. AfterScan(t) \in {"loop", "run", "copy"}
      BY DEF AfterScan
    <3>2. QED
      BY <1>8, <2>1, <3>1 DEF ScanNotify
  <2>2. CASE \E k \in m_callbacks \ due[t] : Goto(t, "list") /\ UNCHANGED m_mtxDescriptors
    BY <1>8, <2>2 DEF ScanNotify
  <2>3. QED
    BY <1>8, <2>1, <2>2 DEF ScanNotify
<1>9. ASSUME NEW t \in Threads, ListChanged(t) PROVE DescriptorsHeld' /\ DevicesHeld'
  BY <1>9 DEF ListChanged, Matches, Back
<1>10. ASSUME NEW t \in Threads, ConnectOpen(t) PROVE DescriptorsHeld' /\ DevicesHeld'
  BY <1>10 DEF ConnectOpen, SetDeviceHandle
<1>11. ASSUME NEW t \in Threads, ConnectInit(t) PROVE DescriptorsHeld' /\ DevicesHeld'
  BY <1>11 DEF ConnectInit, InitDevice
<1>12. ASSUME NEW t \in Threads, ConnectDone(t) PROVE DescriptorsHeld' /\ DevicesHeld'
  BY <1>12 DEF ConnectDone, Connected
<1>13. ASSUME NEW t \in Threads, ConnectTaken(t) PROVE DescriptorsHeld' /\ DevicesHeld'
  BY <1>13 DEF ConnectTaken, TakeDevice
<1>14. ASSUME NEW t \in Threads, BindOne(t) PROVE DescriptorsHeld' /\ DevicesHeld'
  BY <1>14 DEF BindOne, SetCallback
<1>15. ASSUME NEW t \in Threads, BindDone(t) PROVE DescriptorsHeld' /\ DevicesHeld'
  BY <1>15 DEF BindDone, Back, RequestUpdate
<1>16. ASSUME NEW t \in Threads, Event(t) PROVE DescriptorsHeld' /\ DevicesHeld'
  BY <1>16 DEF Event, Call, CallNothing, AfterEvent
<1>17. ASSUME NEW t \in Threads, InEvent(t) PROVE DescriptorsHeld' /\ DevicesHeld'
  BY <1>17 DEF InEvent, RequestUpdate, Return, AfterEvent
<1>18. CASE CablWait
  BY <1>18 DEF CablWait
<1>19. CASE CablLock
  BY <1>19 DEF CablLock
<1>20. CASE CablStop
  BY <1>20 DEF CablStop
<1>21. CASE CablUnlock
  BY <1>21 DEF CablUnlock
<1>22. CASE CablNext
  BY <1>22 DEF CablNext, HasDeviceHandle
<1>23. CASE CablRender
  BY <1>23 DEF CablRender, Call, CallNothing
<1>24. CASE OnRender
  BY <1>24 DEF OnRender, TakeUpdate, MayRender
<1>25. CASE OnRenderSkip
  BY <1>25 DEF OnRenderSkip, TakeUpdate, Return
<1>26. CASE Rendering
  BY <1>26 DEF Rendering, RequestUpdate, Return
<1>27. CASE CablTick
  BY <1>27 DEF CablTick
<1>28. CASE UsbHotplug
  BY <1>28 DEF UsbHotplug
<1>29. CASE MainConstruct
  BY <1>29 DEF MainConstruct, Construct
<1>30. CASE MainEnumerate
  BY <1>30 DEF MainEnumerate
<1>31. CASE MainCopy
  BY <1>31 DEF MainCopy
<1>32. CASE MainClear
  BY <1>32 DEF MainClear, SetCallback
<1>33. CASE MainUnregister
  BY <1>33 DEF MainUnregister, Enter
<1>34. CASE MainJoin
  BY <1>34 DEF MainJoin
<1>35. CASE MainRescan
  BY <1>35 DEF MainRescan
<1>36. CASE MainExit
  BY <1>36 DEF MainExit
<1>37. ASSUME NEW k \in Clients, MainNew(k) PROVE DescriptorsHeld' /\ DevicesHeld'
  BY <1>37 DEF MainNew, Enter
<1>38. ASSUME NEW k \in Clients, MainDestroy(k) PROVE DescriptorsHeld' /\ DevicesHeld'
  BY <1>38 DEF MainDestroy, Enter
<1>39. ASSUME NEW k \in Clients, MainRequest(k) PROVE DescriptorsHeld' /\ DevicesHeld'
  BY <1>39 DEF MainRequest, RequestUpdate
<1>40. ASSUME NEW d \in Devices, UsbInput(d) PROVE DescriptorsHeld' /\ DevicesHeld'
  BY <1>40 DEF UsbInput
<1>41. ASSUME NEW d \in Devices, Plug(d) PROVE DescriptorsHeld' /\ DevicesHeld'
  BY <1>41 DEF Plug
<1>42. CASE UNCHANGED vars
  BY <1>42 DEF vars
<1>43. ASSUME NEW t \in Threads, ScanSkip(t) PROVE DescriptorsHeld' /\ DevicesHeld'
  BY <1>43 DEF ScanSkip
<1>44. CASE PlugOther
  BY <1>44 DEF PlugOther
<1>45. QED
  BY <1>1, <1>2, <1>3, <1>4, <1>5, <1>6, <1>7, <1>8, <1>9, <1>10, <1>11, <1>12, <1>13,
     <1>14, <1>15, <1>16, <1>17, <1>18, <1>19, <1>20, <1>21, <1>22, <1>23, <1>24, <1>25,
     <1>26, <1>27, <1>28, <1>29, <1>30, <1>31, <1>32, <1>33, <1>34, <1>35, <1>36, <1>37,
     <1>38, <1>39, <1>40, <1>41, <1>42, <1>43, <1>44
     DEF Next, Step, Scan, Connect, Cabl, Main, Choice

\* Every step keeps what a loop has still to visit, and the device a thread is at.
LEMMA VisitsStep == IInv /\ [Next]_vars => LoopsVisitDevices' /\ TargetsAreDevices'
<1> SUFFICES ASSUME TypeOK, LoopsVisitDevices, TargetsAreDevices, [Next]_vars
             PROVE  LoopsVisitDevices' /\ TargetsAreDevices'
  BY DEF IInv
<1>0. /\ pc \in [Threads -> Labels]
      /\ dev \in [Threads -> Devices \cup {None}]
      /\ due \in [Threads -> SUBSET (Devices \cup Clients)]
      /\ list \in [Threads -> SUBSET Devices]
      /\ plugged \subseteq Devices /\ m_devices \subseteq Devices
  BY DEF TypeOK
<1> HIDE DEF TypeOK
<1> USE ThreadsAssumption
    DEF LoopsVisitDevices, TargetsAreDevices, InDevices, Dropping, Ticking, Goto, At, Set,
        threadVars
<1>1. ASSUME NEW t \in Threads, ScanLock(t) PROVE LoopsVisitDevices' /\ TargetsAreDevices'
  BY <1>1, <1>0 DEF ScanLock
<1>2. ASSUME NEW t \in Threads, ScanFill(t) PROVE LoopsVisitDevices' /\ TargetsAreDevices'
  BY <1>2, <1>0 DEF ScanFill
<1>3. ASSUME NEW t \in Threads, ScanDevicesLock(t) PROVE LoopsVisitDevices' /\ TargetsAreDevices'
  BY <1>3, <1>0 DEF ScanDevicesLock
<1>4. ASSUME NEW t \in Threads, ScanDrop(t) PROVE LoopsVisitDevices' /\ TargetsAreDevices'
  <2>1. InDevices(t) /\ due[t] # {}
    BY <1>4 DEF ScanDrop
  <2>2. First(due[t]) \in Devices
    BY <2>1, FirstIsMember
  <2>3. QED
    BY <1>4, <1>0, <2>2 DEF ScanDrop
<1>5. ASSUME NEW t \in Threads, ScanTellDropped(t) PROVE LoopsVisitDevices' /\ TargetsAreDevices'
  BY <1>5, <1>0 DEF ScanTellDropped, Call, CallNothing
<1>6. ASSUME NEW t \in Threads, ScanToldDropped(t) PROVE LoopsVisitDevices' /\ TargetsAreDevices'
  BY <1>6, <1>0 DEF ScanToldDropped, Return
<1>7. ASSUME NEW t \in Threads, ScanCompare(t) PROVE LoopsVisitDevices' /\ TargetsAreDevices'
  BY <1>7, <1>0 DEF ScanCompare, AfterScan
<1>8. ASSUME NEW t \in Threads, ScanNotify(t) PROVE LoopsVisitDevices' /\ TargetsAreDevices'
  BY <1>8, <1>0 DEF ScanNotify, AfterScan
<1>9. ASSUME NEW t \in Threads, ListChanged(t) PROVE LoopsVisitDevices' /\ TargetsAreDevices'
  <2>1. PICK found \in Matches(t, cli[t]) :
          \/ /\ found # {} /\ dev' = Set(dev, t, First(found)) /\ Goto(t, "open")
          \/ Back(t)
    BY <1>9 DEF ListChanged
  <2>2. found # {} => First(found) \in Devices
    BY <1>0, <2>1, FirstIsMember DEF Matches
  <2>3. due' = due
    BY <1>9 DEF ListChanged
  <2>4. QED
    BY <1>9, <1>0, <2>1, <2>2, <2>3 DEF ListChanged, Back
<1>10. ASSUME NEW t \in Threads, ConnectOpen(t) PROVE LoopsVisitDevices' /\ TargetsAreDevices'
  BY <1>10, <1>0 DEF ConnectOpen, SetDeviceHandle
<1>11. ASSUME NEW t \in Threads, ConnectInit(t) PROVE LoopsVisitDevices' /\ TargetsAreDevices'
  BY <1>11, <1>0 DEF ConnectInit, InitDevice
<1>12. ASSUME NEW t \in Threads, ConnectDone(t) PROVE LoopsVisitDevices' /\ TargetsAreDevices'
  BY <1>12, <1>0 DEF ConnectDone, Connected
<1>13. ASSUME NEW t \in Threads, ConnectTaken(t) PROVE LoopsVisitDevices' /\ TargetsAreDevices'
  BY <1>13, <1>0 DEF ConnectTaken, TakeDevice
<1>14. ASSUME NEW t \in Threads, BindOne(t) PROVE LoopsVisitDevices' /\ TargetsAreDevices'
  BY <1>14, <1>0 DEF BindOne, SetCallback
<1>15. ASSUME NEW t \in Threads, BindDone(t) PROVE LoopsVisitDevices' /\ TargetsAreDevices'
  BY <1>15, <1>0 DEF BindDone, Back, RequestUpdate
<1>16. ASSUME NEW t \in Threads, Event(t) PROVE LoopsVisitDevices' /\ TargetsAreDevices'
  BY <1>16, <1>0 DEF Event, Call, CallNothing, AfterEvent
<1>17. ASSUME NEW t \in Threads, InEvent(t) PROVE LoopsVisitDevices' /\ TargetsAreDevices'
  BY <1>17, <1>0 DEF InEvent, RequestUpdate, Return, AfterEvent
<1>18. CASE CablWait
  BY <1>18, <1>0 DEF CablWait
<1>19. CASE CablLock
  BY <1>19, <1>0 DEF CablLock
<1>20. CASE CablStop
  BY <1>20, <1>0 DEF CablStop
<1>21. CASE CablUnlock
  BY <1>21, <1>0 DEF CablUnlock
<1>22. CASE CablNext
  <2>1. InDevices("cabl") /\ due["cabl"] # {}
    BY <1>22 DEF CablNext
  <2>2. First(due["cabl"]) \in Devices
    BY <2>1, FirstIsMember
  <2>3. QED
    BY <1>22, <1>0, <2>2 DEF CablNext
<1>23. CASE CablRender
  BY <1>23, <1>0 DEF CablRender, Call, CallNothing
<1>24. CASE OnRender
  BY <1>24, <1>0 DEF OnRender, TakeUpdate, MayRender
<1>25. CASE OnRenderSkip
  BY <1>25, <1>0 DEF OnRenderSkip, TakeUpdate, Return
<1>26. CASE Rendering
  BY <1>26, <1>0 DEF Rendering, RequestUpdate, Return
<1>27. CASE CablTick
  BY <1>27, <1>0 DEF CablTick
<1>28. CASE UsbHotplug
  BY <1>28, <1>0 DEF UsbHotplug
<1>29. CASE MainConstruct
  BY <1>29, <1>0 DEF MainConstruct, Construct
<1>30. CASE MainEnumerate
  BY <1>30, <1>0 DEF MainEnumerate
<1>31. CASE MainCopy
  BY <1>31, <1>0 DEF MainCopy
<1>32. CASE MainClear
  BY <1>32, <1>0 DEF MainClear, SetCallback
<1>33. CASE MainUnregister
  BY <1>33, <1>0 DEF MainUnregister, Enter
<1>34. CASE MainJoin
  BY <1>34, <1>0 DEF MainJoin
<1>35. CASE MainRescan
  BY <1>35, <1>0 DEF MainRescan
<1>36. CASE MainExit
  BY <1>36, <1>0 DEF MainExit
<1>37. ASSUME NEW k \in Clients, MainNew(k) PROVE LoopsVisitDevices' /\ TargetsAreDevices'
  BY <1>37, <1>0 DEF MainNew, Enter
<1>38. ASSUME NEW k \in Clients, MainDestroy(k) PROVE LoopsVisitDevices' /\ TargetsAreDevices'
  BY <1>38, <1>0 DEF MainDestroy, Enter
<1>39. ASSUME NEW k \in Clients, MainRequest(k) PROVE LoopsVisitDevices' /\ TargetsAreDevices'
  BY <1>39, <1>0 DEF MainRequest, RequestUpdate
<1>40. ASSUME NEW d \in Devices, UsbInput(d) PROVE LoopsVisitDevices' /\ TargetsAreDevices'
  BY <1>40, <1>0 DEF UsbInput
<1>41. ASSUME NEW d \in Devices, Plug(d) PROVE LoopsVisitDevices' /\ TargetsAreDevices'
  BY <1>41, <1>0 DEF Plug
<1>42. CASE UNCHANGED vars
  BY <1>42, <1>0 DEF vars
<1>43. ASSUME NEW t \in Threads, ScanSkip(t) PROVE LoopsVisitDevices' /\ TargetsAreDevices'
  BY <1>43, <1>0 DEF ScanSkip
<1>44. CASE PlugOther
  BY <1>44, <1>0 DEF PlugOther
<1>45. QED
  BY <1>1, <1>2, <1>3, <1>4, <1>5, <1>6, <1>7, <1>8, <1>9, <1>10, <1>11, <1>12, <1>13,
     <1>14, <1>15, <1>16, <1>17, <1>18, <1>19, <1>20, <1>21, <1>22, <1>23, <1>24, <1>25,
     <1>26, <1>27, <1>28, <1>29, <1>30, <1>31, <1>32, <1>33, <1>34, <1>35, <1>36, <1>37,
     <1>38, <1>39, <1>40, <1>41, <1>42, <1>43, <1>44
     DEF Next, Step, Scan, Connect, Cabl, Main, Choice

\* Every step keeps the callbacks locked by the thread that is inside one, and bound to the
\* client it is inside.
LEMMA CallbacksStep == IInv /\ [Next]_vars => CallbacksHeld'
<1> SUFFICES ASSUME IInv, [Next]_vars PROVE CallbacksHeld'
  OBVIOUS
<1>0. /\ pc \in [Threads -> Labels] /\ dev \in [Threads -> Devices \cup {None}]
      /\ cli \in [Threads -> Clients \cup {None}]
      /\ m_mtxCallbacks \in [Devices -> Threads \cup {None}]
      /\ m_cb \in [Devices -> [Kind -> Clients \cup {None}]]
      /\ TargetsAreDevices /\ CallbacksHeld
  BY DEF IInv, TypeOK, DeviceTypeOK
<1> USE <1>0, ThreadsAssumption, NoneAssumption, InCallbackIs
    DEF CallbacksHeld, InCallback, Goto, At, Set, deviceVars, threadVars
<1>1. ASSUME NEW t \in Threads, ScanLock(t) PROVE CallbacksHeld'
  BY <1>1 DEF ScanLock
<1>2. ASSUME NEW t \in Threads, ScanFill(t) PROVE CallbacksHeld'
  BY <1>2 DEF ScanFill
<1>3. ASSUME NEW t \in Threads, ScanDevicesLock(t) PROVE CallbacksHeld'
  BY <1>3 DEF ScanDevicesLock
<1>4. ASSUME NEW t \in Threads, ScanDrop(t) PROVE CallbacksHeld'
  BY <1>4 DEF ScanDrop, Disconnect
<1>5. ASSUME NEW t \in Threads, ScanTellDropped(t) PROVE CallbacksHeld'
  <2>1. dev[t] \in Devices
    BY <1>5 DEF ScanTellDropped, TargetsAreDevices, Ticking
  <2>2. CASE /\ CallNothing(dev[t], "disconnect") /\ Goto(t, "drop")
             /\ dev' = Set(dev, t, None) /\ cli' = cli
    BY <1>5, <2>2 DEF CallNothing
  <2>3. CASE /\ Call(t, dev[t], "disconnect") /\ Goto(t, "disconnected") /\ dev' = dev
             /\ cli' = Set(cli, t, m_cb[dev[t]]["disconnect"])
    BY <2>1, <2>3 DEF Call
  <2>4. QED
    BY <1>5, <2>2, <2>3 DEF ScanTellDropped
<1>6. ASSUME NEW t \in Threads, ScanToldDropped(t) PROVE CallbacksHeld'
  BY <1>6 DEF ScanToldDropped, Return
<1>7. ASSUME NEW t \in Threads, ScanCompare(t) PROVE CallbacksHeld'
  BY <1>7 DEF ScanCompare, AfterScan
<1>8. ASSUME NEW t \in Threads, ScanNotify(t) PROVE CallbacksHeld'
  BY <1>8 DEF ScanNotify, AfterScan
<1>9. ASSUME NEW t \in Threads, ListChanged(t) PROVE CallbacksHeld'
  BY <1>9 DEF ListChanged, Matches, Back
<1>10. ASSUME NEW t \in Threads, ConnectOpen(t) PROVE CallbacksHeld'
  BY <1>10 DEF ConnectOpen, SetDeviceHandle
<1>11. ASSUME NEW t \in Threads, ConnectInit(t) PROVE CallbacksHeld'
  BY <1>11 DEF ConnectInit, InitDevice
<1>12. ASSUME NEW t \in Threads, ConnectDone(t) PROVE CallbacksHeld'
  BY <1>12 DEF ConnectDone, Connected
<1>13. ASSUME NEW t \in Threads, ConnectTaken(t) PROVE CallbacksHeld'
  BY <1>13 DEF ConnectTaken, TakeDevice
<1>14. ASSUME NEW t \in Threads, BindOne(t) PROVE CallbacksHeld'
  BY <1>14 DEF BindOne, SetCallback
<1>15. ASSUME NEW t \in Threads, BindDone(t) PROVE CallbacksHeld'
  BY <1>15 DEF BindDone, Back, RequestUpdate
<1>16. ASSUME NEW t \in Threads, Event(t) PROVE CallbacksHeld'
  <2>1. dev[t] \in Devices
    BY <1>16 DEF Event, TargetsAreDevices, Ticking
  <2>2. AfterEvent(t) \in {"next", "run"}
    BY DEF AfterEvent
  <2>3. CASE /\ CallNothing(dev[t], "input") /\ Goto(t, AfterEvent(t)) /\ dev' = Set(dev, t, None)
             /\ cli' = cli
    BY <1>16, <2>2, <2>3 DEF CallNothing
  <2>4. CASE /\ Call(t, dev[t], "input") /\ Goto(t, "inevent") /\ dev' = dev
             /\ cli' = Set(cli, t, m_cb[dev[t]]["input"])
    BY <2>1, <2>4 DEF Call
  <2>5. QED
    BY <1>16, <2>3, <2>4 DEF Event
<1>17. ASSUME NEW t \in Threads, InEvent(t) PROVE CallbacksHeld'
  BY <1>17 DEF InEvent, RequestUpdate, Return, AfterEvent
<1>18. CASE CablWait
  BY <1>18 DEF CablWait
<1>19. CASE CablLock
  BY <1>19 DEF CablLock
<1>20. CASE CablStop
  BY <1>20 DEF CablStop
<1>21. CASE CablUnlock
  BY <1>21 DEF CablUnlock
<1>22. CASE CablNext
  BY <1>22 DEF CablNext, HasDeviceHandle
<1>23. CASE CablRender
  <2>1. dev["cabl"] \in Devices
    BY <1>23 DEF CablRender, TargetsAreDevices, Ticking
  <2>2. CASE CallNothing(dev["cabl"], "render") /\ Goto("cabl", "tick") /\ dev' = dev /\ cli' = cli
    BY <1>23, <2>2 DEF CallNothing
  <2>3. CASE /\ Call("cabl", dev["cabl"], "render") /\ Goto("cabl", "inrender") /\ dev' = dev
             /\ cli' = Set(cli, "cabl", m_cb[dev["cabl"]]["render"])
    BY <2>1, <2>3 DEF Call
  <2>4. QED
    BY <1>23, <2>2, <2>3 DEF CablRender
<1>24. CASE OnRender
  BY <1>24 DEF OnRender, TakeUpdate, MayRender
<1>25. CASE OnRenderSkip
  BY <1>25 DEF OnRenderSkip, TakeUpdate, Return
<1>26. CASE Rendering
  BY <1>26 DEF Rendering, RequestUpdate, Return
<1>27. CASE CablTick
  BY <1>27 DEF CablTick
<1>28. CASE UsbHotplug
  BY <1>28 DEF UsbHotplug
<1>29. CASE MainConstruct
  BY <1>29 DEF MainConstruct, Construct
<1>30. CASE MainEnumerate
  BY <1>30 DEF MainEnumerate
<1>31. CASE MainCopy
  BY <1>31 DEF MainCopy
<1>32. CASE MainClear
  BY <1>32 DEF MainClear, SetCallback
<1>33. CASE MainUnregister
  BY <1>33 DEF MainUnregister, Enter
<1>34. CASE MainJoin
  BY <1>34 DEF MainJoin
<1>35. CASE MainRescan
  BY <1>35 DEF MainRescan
<1>36. CASE MainExit
  BY <1>36 DEF MainExit
<1>37. ASSUME NEW k \in Clients, MainNew(k) PROVE CallbacksHeld'
  BY <1>37 DEF MainNew, Enter
<1>38. ASSUME NEW k \in Clients, MainDestroy(k) PROVE CallbacksHeld'
  BY <1>38 DEF MainDestroy, Enter
<1>39. ASSUME NEW k \in Clients, MainRequest(k) PROVE CallbacksHeld'
  BY <1>39 DEF MainRequest, RequestUpdate
<1>40. ASSUME NEW d \in Devices, UsbInput(d) PROVE CallbacksHeld'
  BY <1>40 DEF UsbInput
<1>41. ASSUME NEW d \in Devices, Plug(d) PROVE CallbacksHeld'
  BY <1>41 DEF Plug
<1>42. CASE UNCHANGED vars
  BY <1>42 DEF vars
<1>43. ASSUME NEW t \in Threads, ScanSkip(t) PROVE CallbacksHeld'
  BY <1>43 DEF ScanSkip
<1>44. CASE PlugOther
  BY <1>44 DEF PlugOther
<1>45. QED
  BY <1>1, <1>2, <1>3, <1>4, <1>5, <1>6, <1>7, <1>8, <1>9, <1>10, <1>11, <1>12, <1>13,
     <1>14, <1>15, <1>16, <1>17, <1>18, <1>19, <1>20, <1>21, <1>22, <1>23, <1>24, <1>25,
     <1>26, <1>27, <1>28, <1>29, <1>30, <1>31, <1>32, <1>33, <1>34, <1>35, <1>36, <1>37,
     <1>38, <1>39, <1>40, <1>41, <1>42, <1>43, <1>44
     DEF Next, Step, Scan, Connect, Cabl, Main, Choice

\* No step takes the handle of the device that is ticking.
LEMMA HandleStep == IInv /\ [Next]_vars => HandleStaysDuringTick'
<1> SUFFICES ASSUME IInv, [Next]_vars PROVE HandleStaysDuringTick'
  OBVIOUS
<1>0. /\ pc \in [Threads -> Labels] /\ dev \in [Threads -> Devices \cup {None}]
      /\ m_pDeviceHandle \in [Devices -> {"none", "open", "armed"}]
      /\ DevicesHeld /\ LoopsVisitDevices /\ TargetsAreDevices /\ HandleStaysDuringTick
  BY DEF IInv, TypeOK, DeviceTypeOK
<1> USE <1>0, ThreadsAssumption
    DEF HandleStaysDuringTick, HasDeviceHandle, Goto, At, Set, deviceVars, threadVars
<1>1. ASSUME NEW t \in Threads, ScanLock(t) PROVE HandleStaysDuringTick'
  BY <1>1 DEF ScanLock
<1>2. ASSUME NEW t \in Threads, ScanFill(t) PROVE HandleStaysDuringTick'
  BY <1>2 DEF ScanFill
<1>3. ASSUME NEW t \in Threads, ScanDevicesLock(t) PROVE HandleStaysDuringTick'
  BY <1>3 DEF ScanDevicesLock
<1>4. ASSUME NEW t \in Threads, ScanDrop(t) PROVE HandleStaysDuringTick'
  <2>1. InDevices(t) /\ m_mtxDevices = t
    BY <1>4 DEF ScanDrop, InDevices, Dropping, DevicesHeld
  <2>2. t = "cabl" \/ ~InDevices("cabl")
    BY <2>1 DEF DevicesHeld
  <2>3. pc'["cabl"] \notin {"render", "inrender", "rendering", "tick"}
    BY <1>4, <2>2 DEF ScanDrop, InDevices, Ticking
  <2>4. QED
    BY <2>3
<1>5. ASSUME NEW t \in Threads, ScanTellDropped(t) PROVE HandleStaysDuringTick'
  BY <1>5 DEF ScanTellDropped, Call, CallNothing
<1>6. ASSUME NEW t \in Threads, ScanToldDropped(t) PROVE HandleStaysDuringTick'
  BY <1>6 DEF ScanToldDropped, Return
<1>7. ASSUME NEW t \in Threads, ScanCompare(t) PROVE HandleStaysDuringTick'
  BY <1>7 DEF ScanCompare, AfterScan
<1>8. ASSUME NEW t \in Threads, ScanNotify(t) PROVE HandleStaysDuringTick'
  BY <1>8 DEF ScanNotify, AfterScan
<1>9. ASSUME NEW t \in Threads, ListChanged(t) PROVE HandleStaysDuringTick'
  BY <1>9 DEF ListChanged, Matches, Back
<1>10. ASSUME NEW t \in Threads, ConnectOpen(t) PROVE HandleStaysDuringTick'
  BY <1>10 DEF ConnectOpen, SetDeviceHandle
<1>11. ASSUME NEW t \in Threads, ConnectInit(t) PROVE HandleStaysDuringTick'
  BY <1>11 DEF ConnectInit, InitDevice
<1>12. ASSUME NEW t \in Threads, ConnectDone(t) PROVE HandleStaysDuringTick'
  BY <1>12 DEF ConnectDone, Connected
<1>13. ASSUME NEW t \in Threads, ConnectTaken(t) PROVE HandleStaysDuringTick'
  BY <1>13 DEF ConnectTaken, TakeDevice
<1>14. ASSUME NEW t \in Threads, BindOne(t) PROVE HandleStaysDuringTick'
  BY <1>14 DEF BindOne, SetCallback
<1>15. ASSUME NEW t \in Threads, BindDone(t) PROVE HandleStaysDuringTick'
  BY <1>15 DEF BindDone, Back, RequestUpdate
<1>16. ASSUME NEW t \in Threads, Event(t) PROVE HandleStaysDuringTick'
  BY <1>16 DEF Event, Call, CallNothing, AfterEvent
<1>17. ASSUME NEW t \in Threads, InEvent(t) PROVE HandleStaysDuringTick'
  BY <1>17 DEF InEvent, RequestUpdate, Return, AfterEvent
<1>18. CASE CablWait
  BY <1>18 DEF CablWait
<1>19. CASE CablLock
  BY <1>19 DEF CablLock
<1>20. CASE CablStop
  BY <1>20 DEF CablStop
<1>21. CASE CablUnlock
  BY <1>21 DEF CablUnlock
<1>22. CASE CablNext
  BY <1>22 DEF CablNext, HasDeviceHandle
<1>23. CASE CablRender
  BY <1>23 DEF CablRender, Call, CallNothing
<1>24. CASE OnRender
  BY <1>24 DEF OnRender, TakeUpdate, MayRender
<1>25. CASE OnRenderSkip
  BY <1>25 DEF OnRenderSkip, TakeUpdate, Return
<1>26. CASE Rendering
  BY <1>26 DEF Rendering, RequestUpdate, Return
<1>27. CASE CablTick
  BY <1>27 DEF CablTick
<1>28. CASE UsbHotplug
  BY <1>28 DEF UsbHotplug
<1>29. CASE MainConstruct
  BY <1>29 DEF MainConstruct, Construct
<1>30. CASE MainEnumerate
  BY <1>30 DEF MainEnumerate
<1>31. CASE MainCopy
  BY <1>31 DEF MainCopy
<1>32. CASE MainClear
  BY <1>32 DEF MainClear, SetCallback
<1>33. CASE MainUnregister
  BY <1>33 DEF MainUnregister, Enter
<1>34. CASE MainJoin
  BY <1>34 DEF MainJoin
<1>35. CASE MainRescan
  BY <1>35 DEF MainRescan
<1>36. CASE MainExit
  BY <1>36 DEF MainExit
<1>37. ASSUME NEW k \in Clients, MainNew(k) PROVE HandleStaysDuringTick'
  BY <1>37 DEF MainNew, Enter
<1>38. ASSUME NEW k \in Clients, MainDestroy(k) PROVE HandleStaysDuringTick'
  BY <1>38 DEF MainDestroy, Enter
<1>39. ASSUME NEW k \in Clients, MainRequest(k) PROVE HandleStaysDuringTick'
  BY <1>39 DEF MainRequest, RequestUpdate
<1>40. ASSUME NEW d \in Devices, UsbInput(d) PROVE HandleStaysDuringTick'
  BY <1>40 DEF UsbInput
<1>41. ASSUME NEW d \in Devices, Plug(d) PROVE HandleStaysDuringTick'
  BY <1>41 DEF Plug
<1>42. CASE UNCHANGED vars
  BY <1>42 DEF vars
<1>43. ASSUME NEW t \in Threads, ScanSkip(t) PROVE HandleStaysDuringTick'
  BY <1>43 DEF ScanSkip
<1>44. CASE PlugOther
  BY <1>44 DEF PlugOther
<1>45. QED
  BY <1>1, <1>2, <1>3, <1>4, <1>5, <1>6, <1>7, <1>8, <1>9, <1>10, <1>11, <1>12, <1>13,
     <1>14, <1>15, <1>16, <1>17, <1>18, <1>19, <1>20, <1>21, <1>22, <1>23, <1>24, <1>25,
     <1>26, <1>27, <1>28, <1>29, <1>30, <1>31, <1>32, <1>33, <1>34, <1>35, <1>36, <1>37,
     <1>38, <1>39, <1>40, <1>41, <1>42, <1>43, <1>44
     DEF Next, Step, Scan, Connect, Cabl, Main, Choice

\* Every step keeps the list with the bus: only the holder of the lock touches the list, and
\* what happens on the bus makes an event, or is one that libusb tells nobody about.
LEMMA ListStep == IInv /\ [Next]_vars => ListFollowsBus'
<1> SUFFICES ASSUME IInv, [Next]_vars PROVE ListFollowsBus'
  OBVIOUS
<1>0. /\ pc \in [Threads -> Labels] /\ due \in [Threads -> SUBSET (Devices \cup Clients)]
      /\ plugged \subseteq Devices /\ m_descriptors \subseteq Devices
      /\ hotplugs \in Seq(HotplugEvents)
      /\ DescriptorsHeld /\ LoopsVisitDevices /\ ListFollowsBus
  BY DEF IInv, TypeOK
<1>p. UNCHANGED hotplugs => UNCHANGED Pending
  BY DEF Pending
<1> USE <1>0, <1>p, ThreadsAssumption, NoneAssumption
    DEF ListFollowsBus, AgreeOutside, DescriptorsHeld, Dropping, Goto, At, Set, threadVars, scanVars, busVars
<1>1. ASSUME NEW t \in Threads, ScanLock(t) PROVE ListFollowsBus'
  BY <1>1 DEF ScanLock
<1>2. ASSUME NEW t \in Threads, ScanFill(t) PROVE ListFollowsBus'
  <2>1. First(due[t]) \in due[t]
    BY <1>2, FirstIsMember DEF ScanFill, LoopsVisitDevices
  <2>2. QED
    BY <1>2, <2>1 DEF ScanFill
<1>3. ASSUME NEW t \in Threads, ScanDevicesLock(t) PROVE ListFollowsBus'
  BY <1>3 DEF ScanDevicesLock
<1>4. ASSUME NEW t \in Threads, ScanDrop(t) PROVE ListFollowsBus'
  BY <1>4 DEF ScanDrop, Disconnect
<1>5. ASSUME NEW t \in Threads, ScanTellDropped(t) PROVE ListFollowsBus'
  BY <1>5 DEF ScanTellDropped, Call, CallNothing
<1>6. ASSUME NEW t \in Threads, ScanToldDropped(t) PROVE ListFollowsBus'
  BY <1>6 DEF ScanToldDropped, Return
<1>7. ASSUME NEW t \in Threads, ScanCompare(t) PROVE ListFollowsBus'
  BY <1>7 DEF ScanCompare, AfterScan
<1>8. ASSUME NEW t \in Threads, ScanNotify(t) PROVE ListFollowsBus'
  BY <1>8 DEF ScanNotify, AfterScan
<1>9. ASSUME NEW t \in Threads, ListChanged(t) PROVE ListFollowsBus'
  BY <1>9 DEF ListChanged, Matches, Back
<1>10. ASSUME NEW t \in Threads, ConnectOpen(t) PROVE ListFollowsBus'
  BY <1>10 DEF ConnectOpen, SetDeviceHandle
<1>11. ASSUME NEW t \in Threads, ConnectInit(t) PROVE ListFollowsBus'
  BY <1>11 DEF ConnectInit, InitDevice
<1>12. ASSUME NEW t \in Threads, ConnectDone(t) PROVE ListFollowsBus'
  BY <1>12 DEF ConnectDone, Connected
<1>13. ASSUME NEW t \in Threads, ConnectTaken(t) PROVE ListFollowsBus'
  BY <1>13 DEF ConnectTaken, TakeDevice
<1>14. ASSUME NEW t \in Threads, BindOne(t) PROVE ListFollowsBus'
  BY <1>14 DEF BindOne, SetCallback
<1>15. ASSUME NEW t \in Threads, BindDone(t) PROVE ListFollowsBus'
  BY <1>15 DEF BindDone, Back, RequestUpdate
<1>16. ASSUME NEW t \in Threads, Event(t) PROVE ListFollowsBus'
  BY <1>16 DEF Event, Call, CallNothing, AfterEvent
<1>17. ASSUME NEW t \in Threads, InEvent(t) PROVE ListFollowsBus'
  BY <1>17 DEF InEvent, RequestUpdate, Return, AfterEvent
<1>18. CASE CablWait
  BY <1>18 DEF CablWait
<1>19. CASE CablLock
  BY <1>19 DEF CablLock
<1>20. CASE CablStop
  BY <1>20 DEF CablStop
<1>21. CASE CablUnlock
  BY <1>21 DEF CablUnlock
<1>22. CASE CablNext
  BY <1>22 DEF CablNext, HasDeviceHandle
<1>23. CASE CablRender
  BY <1>23 DEF CablRender, Call, CallNothing
<1>24. CASE OnRender
  BY <1>24 DEF OnRender, TakeUpdate, MayRender
<1>25. CASE OnRenderSkip
  BY <1>25 DEF OnRenderSkip, TakeUpdate, Return
<1>26. CASE Rendering
  BY <1>26 DEF Rendering, RequestUpdate, Return
<1>27. CASE CablTick
  BY <1>27 DEF CablTick
<1>28. CASE UsbHotplug
  <2>1. CASE Goto("usb", "scan")
    BY <1>28, <2>1 DEF UsbHotplug
  <2>2. CASE hotplugs' = <<>> /\ unseen' = unseen \cup (Pending \ {None}) /\ UNCHANGED pc
    <3>1. Pending' = {}
      BY <2>2 DEF Pending
    <3>2. None \notin Devices
      OBVIOUS
    <3>3. QED
      BY <1>28, <2>2, <3>1, <3>2 DEF UsbHotplug
  <2>3. QED
    BY <1>28, <2>1, <2>2 DEF UsbHotplug
<1>29. CASE MainConstruct
  BY <1>29 DEF MainConstruct, Construct
<1>30. CASE MainEnumerate
  BY <1>30 DEF MainEnumerate
<1>31. CASE MainCopy
  BY <1>31 DEF MainCopy
<1>32. CASE MainClear
  BY <1>32 DEF MainClear, SetCallback
<1>33. CASE MainUnregister
  BY <1>33 DEF MainUnregister, Enter
<1>34. CASE MainJoin
  BY <1>34 DEF MainJoin
<1>35. CASE MainRescan
  BY <1>35 DEF MainRescan
<1>36. CASE MainExit
  BY <1>36 DEF MainExit
<1>37. ASSUME NEW k \in Clients, MainNew(k) PROVE ListFollowsBus'
  BY <1>37 DEF MainNew, Enter
<1>38. ASSUME NEW k \in Clients, MainDestroy(k) PROVE ListFollowsBus'
  BY <1>38 DEF MainDestroy, Enter
<1>39. ASSUME NEW k \in Clients, MainRequest(k) PROVE ListFollowsBus'
  BY <1>39 DEF MainRequest, RequestUpdate
<1>40. ASSUME NEW d \in Devices, UsbInput(d) PROVE ListFollowsBus'
  BY <1>40 DEF UsbInput
<1>41. ASSUME NEW d \in Devices, Plug(d) PROVE ListFollowsBus'
  <2>1. plugged \ {d} = plugged' \ {d}
    BY <1>41 DEF Plug
  <2>2. unseen' \cup Pending' = unseen \cup Pending \cup {d}
    <3>1. CASE registered
      <4>1. [device |-> d, arrived |-> d \notin plugged] \in HotplugEvents
        BY DEF HotplugEvents
      <4>2. QED
        BY <1>41, <3>1, <4>1, PendingOfAppend DEF Plug
    <3>2. CASE ~registered
      BY <1>41, <3>2 DEF Plug
    <3>3. QED
      BY <3>1, <3>2
  <2>3. QED
    BY <1>41, <2>1, <2>2 DEF Plug
<1>42. CASE UNCHANGED vars
  BY <1>42 DEF vars
<1>43. ASSUME NEW t \in Threads, ScanSkip(t) PROVE ListFollowsBus'
  <2>1. First(due[t]) \in due[t]
    BY <1>43, FirstIsMember DEF ScanSkip, LoopsVisitDevices
  <2>2. QED
    BY <1>43, <2>1 DEF ScanSkip
<1>44. CASE PlugOther
  <2>1. [device |-> None, arrived |-> TRUE] \in HotplugEvents
    BY DEF HotplugEvents
  <2>2. Pending' = Pending \cup {None}
    BY <1>44, <2>1, PendingOfAppend DEF PlugOther
  <2>3. QED
    BY <1>44, <2>2 DEF PlugOther
<1>45. QED
  BY <1>1, <1>2, <1>3, <1>4, <1>5, <1>6, <1>7, <1>8, <1>9, <1>10, <1>11, <1>12, <1>13,
     <1>14, <1>15, <1>16, <1>17, <1>18, <1>19, <1>20, <1>21, <1>22, <1>23, <1>24, <1>25,
     <1>26, <1>27, <1>28, <1>29, <1>30, <1>31, <1>32, <1>33, <1>34, <1>35, <1>36, <1>37,
     <1>38, <1>39, <1>40, <1>41, <1>42, <1>43, <1>44
     DEF Next, Step, Scan, Connect, Cabl, Main, Choice

\* Every step keeps the invariant.
LEMMA NextIInv == IInv /\ [Next]_vars => IInv'
BY TypeStep, LocksStep, VisitsStep, CallbacksStep, HandleStep, ListStep DEF IInv

LEMMA Invariance == Spec => []IInv
BY InitIInv, NextIInv, PTL DEF Spec
------------------------------------------------------------------------------
\* Every variable keeps its type.
THEOREM TypeCorrect == Spec => []TypeOK
<1>1. IInv => TypeOK
  BY DEF IInv
<1>2. QED
  BY <1>1, Invariance, PTL

\* Coordinator::run() does not lose the device it ticks to a scan on another thread.
THEOREM HandleStays == Spec => []HandleStaysDuringTick
<1>1. IInv => HandleStaysDuringTick
  BY DEF IInv
<1>2. QED
  BY <1>1, Invariance, PTL

\* Coordinator::scan() and cbHotplug() together: when no scan runs, the list of devices that
\* clients are given is wrong about no device but those that could not be opened, whose
\* event is still queued, or that came or went after libusb had dropped the callback.
THEOREM ListCurrent == Spec => []ListIsCurrent
<1>1. IInv => ListIsCurrent
  <2> SUFFICES ASSUME IInv, m_scanDone, m_mtxDescriptors = None, pc["usb"] # "scan"
               PROVE  AgreeOutside(m_descriptors, plugged, unseen \cup Pending)
    BY DEF ListIsCurrent
  <2>1. \A t \in Threads : pc[t] # "fill"
    BY NoneAssumption DEF IInv, DescriptorsHeld
  <2>2. QED
    BY <2>1 DEF IInv, ListFollowsBus
<1>2. QED
  BY <1>1, Invariance, PTL

\* A thread is inside the callback that is bound, and no two are inside callbacks of one
\* device: Device's callbacks see one call at a time.
THEOREM CallbacksSerialized == Spec => []CallbacksAreSerialized
<1>1. IInv => CallbacksAreSerialized
  <2> SUFFICES ASSUME IInv, NEW t \in Threads, InCallback(t)
               PROVE  /\ m_cb[dev[t]][CallbackOf[pc[t]]] = cli[t]
                      /\ \A u \in Threads \ {t} : InCallback(u) => dev[u] # dev[t]
    BY DEF CallbacksAreSerialized
  <2>1. \A u \in Threads : InCallback(u) => m_mtxCallbacks[dev[u]] = u
    BY DEF IInv, CallbacksHeld
  <2>2. QED
    BY <2>1 DEF IInv, CallbacksHeld
<1>2. QED
  BY <1>1, Invariance, PTL

\* Locks are taken in the order descriptors, devices, callbacks on every thread and by every
\* way a callback leads back into the library: there is no deadlock of mutexes.
THEOREM LocksOrdered == Spec => []LocksAreOrdered
<1>1. IInv => LocksAreOrdered
  <2> SUFFICES ASSUME IInv, NEW t \in Threads, NEW held \in Holds(t)
               PROVE  held < Wants(t)
    BY DEF LocksAreOrdered
  <2>1. \/ held = 1 /\ m_mtxDescriptors = t
        \/ held = 2 /\ m_mtxDevices = t
        \/ held = 3 /\ InCallback(t)
    BY DEF IInv, CallbacksHeld, Holds
  <2>2. CASE held = 1 /\ m_mtxDescriptors = t
    BY <2>2 DEF IInv, DescriptorsHeld, Dropping, Listing, Wants
  <2>3. CASE held = 2 /\ m_mtxDevices = t
    BY <2>3 DEF IInv, DevicesHeld, InDevices, Dropping, Ticking, Wants
  <2>4. CASE held = 3 /\ InCallback(t)
    BY <2>4, InCallbackIs DEF InCallback, Wants
  <2>5. QED
    BY <2>1, <2>2, <2>3, <2>4
<1>2. QED
  BY <1>1, Invariance, PTL
===============================================================================
