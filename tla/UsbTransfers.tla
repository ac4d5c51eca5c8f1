----------------------------- MODULE UsbTransfers -----------------------------
(***************************************************************************)
(* A device of libusb: enumerate() and connect() of DriverLibUSB, and the  *)
(* transfers of DeviceHandleLibUSB, whose synchronous and asynchronous     *)
(* reads share one input buffer.                                           *)
(*                                                                         *)
(* The bus is a sequence of devices; each has an id (vendor and product),  *)
(* a serial number (0: none that can be read) and may refuse to be opened. *)
(***************************************************************************)
EXTENDS Integers, Sequences, FiniteSets

CONSTANTS
  MaxReports       \* bound: reports the device has for each of its two endpoints

-----------------------------------------------------------------------------
(* enumerate() and connect(), as functions of the bus.                     *)

\* Devices that can be opened are listed, the others passed over.
enumerate(bus) ==
  {[id |-> bus[i].id, serial |-> bus[i].serial] : i \in {j \in DOMAIN bus : bus[j].opens}}

\* Where connect() looks: the devices of the id that can be opened, until the serial number
\* is the one that is asked for.
Tried(bus, wanted) ==
  LET fits == {i \in DOMAIN bus : bus[i].id = wanted.id /\ bus[i].opens}
      match == {i \in fits : bus[i].serial = wanted.serial}
      last == IF match = {} THEN Len(bus) ELSE CHOOSE i \in match : \A j \in match : i <= j
  IN {i \in fits : i <= last}

\* The handles that do not fit are closed again; the pointer to the last of them is kept and
\* configured before connect() looks whether there is a device (0: a null pointer).
connect(bus, wanted) ==
  LET tried == Tried(bus, wanted)
      end == IF tried = {} THEN 0 ELSE CHOOSE i \in tried : \A j \in tried : i >= j
      found == end # 0 /\ bus[end].serial = wanted.serial
  IN [device |-> IF found THEN end ELSE 0, open |-> IF found THEN {end} ELSE {}, used |-> end]

\* connect() opens the first device on the bus that is what enumerate() listed, and leaves
\* no other open; a device that was listed and is still there is found again, even between
\* others of its kind.
ConnectFindsListed(bus) ==
  \A wanted \in enumerate(bus) :
    LET got == connect(bus, wanted)
        is(n) == bus[n].opens /\ bus[n].id = wanted.id /\ bus[n].serial = wanted.serial
    IN /\ got.device \in DOMAIN bus /\ is(got.device)
       /\ \A n \in 1..(got.device - 1) : ~is(n)
       /\ got.open = {got.device} /\ got.used = got.device

-----------------------------------------------------------------------------
(* The transfers of a handle.                                              *)

VARIABLES
  m_pCurrentDevice,  \* the handle is open
  plugged,           \* the device is there
  m_inputBuffer,     \* whose report it holds: <<endpoint, number>>
  transfer,          \* the asynchronous one: "none", "pending", "filled", "empty", "copied"
  armed,             \* readAsync() was called
  allocated,         \* transfers that were allocated; none is freed
  reading,           \* read(): "idle", "pending", "filled"
  sent,              \* the reports the device has sent, of each endpoint
  given,             \* the reports the callback got, and read() returned
  spoilt,            \* the reports of each endpoint the other overwrote before they were copied
  discarded          \* those whose transfer brought them and did not end well

usbVars == <<m_pCurrentDevice, plugged, m_inputBuffer, transfer, armed, allocated, reading, sent,
             given, spoilt, discarded>>

Endpoints == {"async", "sync"}

Init ==
  /\ m_pCurrentDevice = TRUE /\ plugged = TRUE
  /\ m_inputBuffer = <<"none", 0>>
  /\ transfer = "none" /\ armed = FALSE /\ allocated = 0
  /\ reading = "idle"
  /\ sent = [e \in Endpoints |-> 0]
  /\ given = [e \in Endpoints |-> << >>]
  /\ spoilt = [e \in Endpoints |-> {}] /\ discarded = [e \in Endpoints |-> {}]

\* What a transfer has put into the buffer and no one has copied yet.
Uncopied(e) == IF e = "async" THEN transfer = "filled" ELSE reading = "filled"

\* The report of an endpoint comes into the buffer; what it lays over was not copied yet.
Fill(e) ==
  LET other == IF e = "async" THEN "sync" ELSE "async"
  IN /\ plugged /\ sent[e] < MaxReports
     /\ sent' = [sent EXCEPT ![e] = @ + 1]
     /\ m_inputBuffer' = <<e, sent[e] + 1>>
     /\ spoilt' = IF Uncopied(other) THEN [spoilt EXCEPT ![other] = @ \cup {sent[other]}]
                                     ELSE spoilt

\* It comes all the same, but the transfer ends with a time-out or an error: neither
\* cbTransfer() nor read() looks at what is in the buffer then.
Discard(e) ==
  /\ Fill(e)
  /\ discarded' = [discarded EXCEPT ![e] = @ \cup {sent[e] + 1}]

\* readAsyncImpl(): what libusb_submit_transfer() returns is not looked at.
submit ==
  /\ transfer' \in (IF plugged THEN {"pending"} ELSE {"none"})
  /\ allocated' = allocated + 1

readAsync ==
  /\ ~armed /\ m_pCurrentDevice
  /\ armed' = TRUE
  /\ submit
  /\ UNCHANGED <<m_pCurrentDevice, plugged, m_inputBuffer, reading, sent, given,
                 spoilt, discarded>>

\* The transfer ends: with a report, with one and an error, or with none (a timeout, an
\* error, a cancellation).
Complete ==
  /\ transfer = "pending"
  /\ \/ Fill("async") /\ transfer' = "filled" /\ UNCHANGED discarded
     \/ Discard("async") /\ transfer' = "empty"
     \/ transfer' = "empty" /\ UNCHANGED <<m_inputBuffer, sent, spoilt, discarded>>
  /\ UNCHANGED <<m_pCurrentDevice, plugged, armed, allocated, reading, given>>

\* Mutant: the next transfer is submitted before the report is copied.
CbCopySubmittedFirst ==
  /\ transfer = "filled" /\ m_pCurrentDevice
  /\ \/ plugged /\ sent["async"] < MaxReports
        /\ given' = [given EXCEPT !["async"] = Append(@, <<"async", sent["async"] + 1>>)]
     \/ given' = [given EXCEPT !["async"] = Append(@, m_inputBuffer)]
  /\ transfer' = "copied"
  /\ UNCHANGED <<m_pCurrentDevice, plugged, m_inputBuffer, armed, allocated, reading, sent,
                 spoilt, discarded>>

\* cbTransfer(): the report is copied for the callback ...
CbCopy ==
  /\ transfer = "filled"
  /\ given' = [given EXCEPT !["async"] = Append(@, m_inputBuffer)]
  /\ transfer' = "copied"
  /\ UNCHANGED <<m_pCurrentDevice, plugged, m_inputBuffer, armed, allocated, reading, sent,
                 spoilt, discarded>>

\* ... and the next transfer is submitted, whatever this one came to, unless the handle was
\* closed.
CbResubmit ==
  /\ transfer \in {"copied", "empty"}
  /\ allocated < 2 * MaxReports   \* bound: transfers that end with no report
  /\ IF m_pCurrentDevice THEN submit ELSE transfer' = "none" /\ UNCHANGED allocated
  /\ UNCHANGED <<m_pCurrentDevice, plugged, m_inputBuffer, armed, reading, sent, given,
                 spoilt, discarded>>

\* read() of another thread: the transfer, and the copy of what it left in the buffer.
Read ==
  /\ m_pCurrentDevice /\ reading = "idle"
  /\ \/ Fill("sync") /\ reading' = "filled" /\ UNCHANGED discarded
     \/ Discard("sync") /\ UNCHANGED reading
     \/ UNCHANGED <<reading, m_inputBuffer, sent, spoilt, discarded>>
  /\ UNCHANGED <<m_pCurrentDevice, plugged, transfer, armed, allocated, given>>

SetData ==
  /\ reading = "filled"
  /\ given' = [given EXCEPT !["sync"] = Append(@, m_inputBuffer)]
  /\ reading' = "idle"
  /\ UNCHANGED <<m_pCurrentDevice, plugged, m_inputBuffer, transfer, armed, allocated, sent,
                 spoilt, discarded>>

\* disconnect() closes the handle with a transfer in flight; its end still comes.  read()
\* is a call of the thread that disconnects.
disconnect ==
  /\ m_pCurrentDevice /\ reading = "idle"
  /\ m_pCurrentDevice' = FALSE
  /\ UNCHANGED <<plugged, m_inputBuffer, transfer, armed, allocated, reading, sent, given,
                 spoilt, discarded>>

Unplug ==
  /\ plugged /\ plugged' = FALSE
  /\ UNCHANGED <<m_pCurrentDevice, m_inputBuffer, transfer, armed, allocated, reading, sent, given,
                 spoilt, discarded>>

Next == readAsync \/ Complete \/ CbCopy \/ CbResubmit \/ Read \/ SetData \/ disconnect \/ Unplug

Spec == Init /\ [][Next]_usbVars

-----------------------------------------------------------------------------
(* Properties.                                                             *)

\* What a reader got accounts for the first n reports of its endpoint: of its own it got
\* each once and in their order; it got one of the other endpoint only in the place of one
\* that this has spoilt; and none is missing that was neither spoilt nor thrown away.
Accounts(got, e, n, overwritten, thrown) ==
  LET own == {i \in DOMAIN got : got[i][1] = e}
  IN /\ \A i \in own : got[i][2] <= n
     /\ \A i, j \in own : i < j => got[i][2] < got[j][2]
     /\ \A i \in DOMAIN got \ own : \E k \in overwritten \cap 1..n :
          \A j \in own : IF j < i THEN got[j][2] < k ELSE k < got[j][2]
     /\ \A k \in 1..n : k \in overwritten \cup thrown \/ \E i \in own : got[i][2] = k

\* Each report is given to the driver once and in the order of the device, but for those
\* that the other endpoint laid its own over in the shared buffer, and those whose transfer
\* ended with an error; and as long as the device is there and the handle open, a transfer
\* that was asked for is never left without one in flight or on its way back.
ReportsAreWhole ==
  /\ \A e \in Endpoints :
       LET due == IF Uncopied(e) THEN sent[e] - 1 ELSE sent[e]
       IN Accounts(given[e], e, due, spoilt[e], discarded[e])
  /\ armed /\ plugged /\ m_pCurrentDevice => transfer # "none"

=============================================================================
