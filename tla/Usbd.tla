-------------------------------- MODULE Usbd --------------------------------
(***************************************************************************)
(* The USB device driver (src/drivers/usbd.c), the guard of the HID    *)
(* senders (src/protocol/usb_hid.c) and the reset callback of          *)
(* src/protocol/usb_descriptors.c, against a host, a cable and the     *)
(* nRF52840 USBD peripheral.                                               *)
(*                                                                         *)
(* Two contexts execute code.  "isr" is handler mode: every interrupt has  *)
(* the same (reset) priority, so a handler is never preempted; of several  *)
(* pending interrupts the lowest numbered goes first: POWER_CLOCK (0),     *)
(* GPIOTE (6), USBD (39).  "thread" is the main loop, preempted at every   *)
(* step by any pending interrupt.  HID reports are sent from               *)
(* ReportContext: "isr" (the GPIOTE handler) in examples/keymap_hid.c,     *)
(* "thread" in examples/radio_arq_hid.c.                                   *)
(***************************************************************************)
EXTENDS Integers, FiniteSets

CONSTANTS
  ReportContext,     \* the context that calls hid_send_report / hid_send_kb_report
  DescriptorLength,  \* [descriptor kinds -> bytes], 0 where the driver has none
  Requests,          \* the setup packets the host may send
  PatientHost,       \* the host neither resets the bus nor starts over while
                     \* the driver has a setup packet to handle
  QuietCable         \* the cable only moves while no handler and no transfer
                     \* is under way and no cable event is pending

Contexts == {"isr", "thread"}

PowerEvents == {"USBDETECTED", "USBPWRRDY", "USBREMOVED"}
UsbdEvents  == {"USBEVENT", "USBRESET", "EP0SETUP"}   \* the enabled interrupts
PolledEvents == {"READY", "EP0DATADONE", "ENDEPIN1"}  \* no interrupt: software polls

PowerLabels  == {"detected", "await_ready", "pwrrdy", "removed",
                 "await_transfer", "drop_pullup"}
UsbdLabels   == {"usbevent", "usbreset", "ep0setup", "ep0_packet",
                 "await_datadone", "endepin1"}
ReportLabels == {"lock", "set_lock", "start_epin", "await_endepin"}
Labels == {"idle"} \cup PowerLabels \cup UsbdLabels \cup ReportLabels

ASSUME UsbdAssumption ==
  /\ ReportContext \in Contexts
  /\ DescriptorLength \in [DOMAIN DescriptorLength -> Nat]
  /\ \A r \in Requests : /\ r.type \in {"standard", "class", "vendor"}
                         /\ r.descriptor \in DOMAIN DescriptorLength
                         /\ r.value \in Nat
                         /\ r.wLength \in Nat
  /\ PatientHost \in BOOLEAN
  /\ QuietCable \in BOOLEAN

VARIABLES
  usbd_state,  \* the driver's state structure
  pc,          \* where each context is in the code
  transfer,    \* locals of usbd_epin0_transfer: send_len and bytes_sent
  events,      \* event registers (and EVENTCAUSE.READY) that read non-zero
  enable,      \* USBD ENABLE: "off", "starting" (written, not ready), "on"
  pullup,      \* the USBPULLUP register
  epinen,      \* endpoints enabled in EPINEN
  dma,         \* IN endpoints started (STARTEPIN) and not yet finished
  vbus,        \* the cable carries power
  regulator,   \* the USB regulator has settled since the cable was plugged
  attached,    \* the host has reset this device since it saw the pull-up
  ep0,         \* the host's control transfer: idle, setup, status, stall
  setup,       \* the setup packet registers
  received     \* data stage bytes the host has acknowledged

driverVars == <<usbd_state, pc, transfer>>
registers  == <<events, enable, pullup, epinen, dma>>
hostVars   == <<vbus, regulator, attached, ep0, setup, received>>
vars       == <<driverVars, registers, hostVars>>

Smaller(a, b) == IF a < b THEN a ELSE b
Raise(e) == events' = events \cup {e}
Clear(e) == events' = events \ {e}
At(c, l) == pc[c] = l
Goto(c, l) == pc' = [pc EXCEPT ![c] = l]
\* A handler runs to its end; the main loop only while no interrupt is active
\* or pending.
Runs(c) == c = "thread" => /\ At("isr", "idle")
                           /\ events \cap (PowerEvents \cup UsbdEvents) = {}

\* A fixed start request for the registers before the first SETUP.
NoRequest == [type |-> "standard", request |-> "none", value |-> 0, wLength |-> 0,
              descriptor |-> CHOOSE d \in DOMAIN DescriptorLength : TRUE]

Init ==
  /\ usbd_state = [vbus_detected |-> FALSE, usb_power_ready |-> FALSE,
                   usbd_ready |-> FALSE, transfer_in_progress |-> FALSE,
                   configuration |-> 0]
  /\ pc = [c \in Contexts |-> "idle"]
  /\ transfer = [send_len |-> 0, bytes_sent |-> 0]
  /\ events = {}
  /\ enable = "off"
  /\ pullup = FALSE
  /\ epinen = {0}
  /\ dma = {}
  /\ vbus = FALSE
  /\ regulator = FALSE
  /\ attached = FALSE
  /\ ep0 = "idle"
  /\ setup = NoRequest
  /\ received = 0

-----------------------------------------------------------------------------
(* Faulty variants of definitions below, one plausible slip each.  No      *)
(* behaviour uses them: each is put in the place of the definition it is   *)
(* named after to see that a property notices.                             *)

LockedFaulty == usbd_state           \* the lock is waited for and not taken
UnlockedFaulty == usbd_state         \* ... or never released
PacketSizeFaulty == 64               \* the last packet counted as a full one
SendLengthFaulty(r) == DescriptorLength[r.descriptor]      \* no truncation
USBD_Reset_HandlerFaulty == UNCHANGED epinen               \* weak default handler
usbd_pullupInverted(s) == UNCHANGED pullup                 \* early return inverted
usbd_pullupFaulty(s) == pullup' = (pullup \/ (s.vbus_detected /\ s.usbd_ready))
DisconnectedFaulty ==                                      \* vbus_detected kept
  [usbd_state EXCEPT !.usb_power_ready = FALSE, !.usbd_ready = FALSE]

\* A missing descriptor is not stalled.
ResponseFaulty(r) ==
  CASE r.type = "standard" /\ r.request = "get_descriptor" ->
         IF DescriptorLength[r.descriptor] > 0 THEN "data" ELSE "none"
    [] r.type = "standard" /\ r.request \in {"set_configuration", "set_descriptor"} ->
         "status"
    [] r.type = "standard" /\ r.request = "get_interface" -> "stall"
    [] OTHER -> "none"

\* usbd_epin_start returns without waiting for ENDEPIN.
AwaitEndEpinFaulty ==
  /\ Runs(ReportContext) /\ At(ReportContext, "await_endepin")
  /\ Goto(ReportContext, "idle")
  /\ UNCHANGED <<usbd_state, transfer, registers, hostVars>>

\* ... or waits for endpoint 0's event.
AwaitEndEpinSwapped ==
  /\ Runs(ReportContext) /\ At(ReportContext, "await_endepin")
  /\ "EP0DATADONE" \in events
  /\ Clear("EP0DATADONE")
  /\ usbd_state' = [usbd_state EXCEPT !.transfer_in_progress = FALSE]
  /\ Goto(ReportContext, "idle")
  /\ UNCHANGED <<transfer, enable, pullup, epinen, dma, hostVars>>

-----------------------------------------------------------------------------
(* The cable, the host and the peripheral (external).                      *)

\* The driver has dealt with the last setup packet.
SetupHandled ==
  /\ "EP0SETUP" \notin events
  /\ ~At("isr", "ep0_packet") /\ ~At("isr", "await_datadone")

Undisturbed ==
  /\ events \cap PowerEvents = {}
  /\ SetupHandled
  /\ At("isr", "idle") /\ At("thread", "idle")

Plug ==
  /\ ~vbus
  /\ QuietCable => Undisturbed
  /\ vbus' = TRUE
  /\ Raise("USBDETECTED")
  /\ UNCHANGED <<driverVars, enable, pullup, epinen, dma, regulator, attached,
                 ep0, setup, received>>

\* Pulling the cable also powers the peripheral down: a running DMA may be
\* lost, and an enabled peripheral must become ready again on the next plug.
Unplug ==
  /\ vbus
  /\ QuietCable => Undisturbed
  /\ vbus' = FALSE
  /\ regulator' = FALSE
  /\ attached' = FALSE
  /\ ep0' = "idle"
  /\ enable' = IF enable = "on" THEN "starting" ELSE enable
  /\ dma' \in {dma, {}}
  /\ Raise("USBREMOVED")
  /\ UNCHANGED <<driverVars, pullup, epinen, setup, received>>

RegulatorSettles ==
  /\ vbus /\ ~regulator
  /\ regulator' = TRUE
  /\ Raise("USBPWRRDY")
  /\ UNCHANGED <<driverVars, enable, pullup, epinen, dma, vbus, attached, ep0,
                 setup, received>>

PeripheralReady ==
  /\ vbus /\ enable = "starting"
  /\ enable' = "on"
  /\ events' = events \cup {"READY", "USBEVENT"}
  /\ UNCHANGED <<driverVars, pullup, epinen, dma, hostVars>>

Connected == vbus /\ pullup /\ enable = "on"

HostReset ==
  /\ Connected
  /\ PatientHost => SetupHandled
  /\ attached' = TRUE
  /\ ep0' = "idle"
  /\ dma' = dma \ {0}
  /\ Raise("USBRESET")
  /\ UNCHANGED <<driverVars, enable, pullup, epinen, vbus, regulator, setup, received>>

\* The host leaves the device the reset recovery time before it addresses it.
\* GET_STATUS and SET_ADDRESS are answered by the hardware itself.
HostSetup(r) ==
  /\ Connected /\ attached
  /\ "USBRESET" \notin events
  /\ PatientHost => SetupHandled
  /\ setup' = r
  /\ received' = 0
  /\ ep0' = IF r.type = "standard" /\ r.request \in {"get_status", "set_address"}
            THEN "status" ELSE "setup"
  /\ dma' = dma \ {0}
  /\ Raise("EP0SETUP")
  /\ UNCHANGED <<driverVars, enable, pullup, epinen, vbus, regulator, attached>>

HostSuspend ==
  /\ Connected /\ attached
  /\ Raise("USBEVENT")
  /\ UNCHANGED <<driverVars, enable, pullup, epinen, dma, hostVars>>

PacketSize == Smaller(transfer.send_len - transfer.bytes_sent, 64)

HostReadsPacket ==
  /\ Connected /\ ep0 = "setup" /\ 0 \in dma
  /\ dma' = dma \ {0}
  /\ received' = received + PacketSize
  /\ Raise("EP0DATADONE")
  /\ UNCHANGED <<driverVars, enable, pullup, epinen, vbus, regulator, attached,
                 ep0, setup>>

ReportCopied ==
  /\ vbus /\ enable = "on" /\ 1 \in dma
  /\ dma' = dma \ {1}
  /\ Raise("ENDEPIN1")
  /\ UNCHANGED <<driverVars, enable, pullup, epinen, hostVars>>

Environment ==
  \/ Plug \/ Unplug \/ RegulatorSettles \/ PeripheralReady
  \/ HostReset \/ (\E r \in Requests : HostSetup(r)) \/ HostSuspend
  \/ HostReadsPacket \/ ReportCopied

-----------------------------------------------------------------------------
(* POWER_CLOCK_IRQHandler                                                  *)

Locked   == [usbd_state EXCEPT !.transfer_in_progress = TRUE]
Unlocked == [usbd_state EXCEPT !.transfer_in_progress = FALSE]

PowerIrq ==
  /\ At("isr", "idle")
  /\ events \cap PowerEvents # {}
  /\ Goto("isr", "detected")
  /\ UNCHANGED <<usbd_state, transfer, registers, hostVars>>

\* An `if (EVENT)` whose event reads zero.
EventAbsent(at, e, next) ==
  /\ At("isr", at)
  /\ e \notin events
  /\ Goto("isr", next)
  /\ UNCHANGED <<usbd_state, transfer, registers, hostVars>>

UsbDetected ==
  /\ At("isr", "detected")
  /\ "USBDETECTED" \in events
  /\ Clear("USBDETECTED")
  /\ usbd_state' = [usbd_state EXCEPT !.vbus_detected = TRUE]
  /\ enable' = IF enable = "off" THEN "starting" ELSE enable
  /\ Goto("isr", "await_ready")
  /\ UNCHANGED <<transfer, pullup, epinen, dma, hostVars>>

AllReady(s) == s.vbus_detected /\ s.usb_power_ready /\ s.usbd_ready

usbd_pullup(s) == pullup' = (pullup \/ AllReady(s))

AwaitReady ==
  /\ At("isr", "await_ready")
  /\ "READY" \in events
  /\ Clear("READY")
  /\ usbd_state' = [usbd_state EXCEPT !.usbd_ready = TRUE]
  /\ usbd_pullup(usbd_state')
  /\ Goto("isr", "pwrrdy")
  /\ UNCHANGED <<transfer, enable, epinen, dma, hostVars>>

UsbPwrRdy ==
  /\ At("isr", "pwrrdy")
  /\ "USBPWRRDY" \in events
  /\ Clear("USBPWRRDY")
  /\ usbd_state' = [usbd_state EXCEPT !.usb_power_ready = TRUE]
  /\ usbd_pullup(usbd_state')
  /\ Goto("isr", "removed")
  /\ UNCHANGED <<transfer, enable, epinen, dma, hostVars>>

UsbRemoved ==
  /\ At("isr", "removed")
  /\ "USBREMOVED" \in events
  /\ Clear("USBREMOVED")
  /\ Goto("isr", "await_transfer")
  /\ UNCHANGED <<usbd_state, transfer, enable, pullup, epinen, dma, hostVars>>

Disconnected == [usbd_state EXCEPT !.vbus_detected = FALSE,
                   !.usb_power_ready = FALSE, !.usbd_ready = FALSE]

\* Disabling the peripheral resets its registers and detaches the device.
DisableUsbd ==
  /\ At("isr", "await_transfer")
  /\ ~usbd_state.transfer_in_progress
  /\ usbd_state' = Disconnected
  /\ enable' = "off"
  /\ epinen' = {0}
  /\ dma' = {}
  /\ attached' = FALSE
  /\ ep0' = "idle"
  /\ Goto("isr", "drop_pullup")
  /\ UNCHANGED <<transfer, events, pullup, vbus, regulator, setup, received>>

DropPullup ==
  /\ At("isr", "drop_pullup")
  /\ pullup' = FALSE
  /\ Goto("isr", "idle")
  /\ UNCHANGED <<usbd_state, transfer, events, enable, epinen, dma, hostVars>>

POWER_CLOCK_IRQHandler ==
  \/ UsbDetected \/ EventAbsent("detected", "USBDETECTED", "pwrrdy")
  \/ AwaitReady
  \/ UsbPwrRdy \/ EventAbsent("pwrrdy", "USBPWRRDY", "removed")
  \/ UsbRemoved \/ EventAbsent("removed", "USBREMOVED", "idle")
  \/ DisableUsbd \/ DropPullup

-----------------------------------------------------------------------------
(* USBD_IRQHandler                                                         *)

UsbdIrq ==
  /\ At("isr", "idle")
  /\ events \cap PowerEvents = {}
  /\ events \cap UsbdEvents # {}
  /\ Goto("isr", "usbevent")
  /\ UNCHANGED <<usbd_state, transfer, registers, hostVars>>

UsbEvent ==
  /\ At("isr", "usbevent")
  /\ Clear("USBEVENT")
  /\ Goto("isr", "usbreset")
  /\ UNCHANGED <<usbd_state, transfer, enable, pullup, epinen, dma, hostVars>>

USBD_Reset_Handler == epinen' = {0, 1}

UsbReset ==
  /\ At("isr", "usbreset")
  /\ "USBRESET" \in events
  /\ Clear("USBRESET")
  /\ usbd_state' = [Unlocked EXCEPT !.configuration = 0]
  /\ USBD_Reset_Handler
  /\ Goto("isr", "ep0setup")
  /\ UNCHANGED <<transfer, enable, pullup, dma, hostVars>>

\* How the switch over the setup packet disposes of a request.  The class
\* branch is never taken: requestType keeps its place in bmRequestType while
\* the constant it is compared with does not.
Response(r) ==
  IF r.type # "standard" THEN "none"
  ELSE CASE r.request = "get_descriptor" ->
              IF DescriptorLength[r.descriptor] > 0 THEN "data" ELSE "stall"
         [] r.request \in {"set_configuration", "set_descriptor"} -> "status"
         [] r.request \in {"get_status", "set_address"} -> "none"
         [] OTHER -> "stall"

\* EP0STATUS and EP0STALL only matter to a transfer the host still waits for.
Conclude(outcome) == ep0' = IF ep0 = "setup" THEN outcome ELSE ep0

ep0setup(response) ==
  /\ At("isr", "ep0setup")
  /\ "EP0SETUP" \in events
  /\ Clear("EP0SETUP")
  /\ Response(setup) = response
  /\ UNCHANGED <<enable, pullup, epinen, dma, vbus, regulator, attached, setup, received>>

SetupStatus ==
  /\ ep0setup("status")
  /\ usbd_state' = IF setup.request = "set_configuration"
                   THEN [usbd_state EXCEPT !.configuration = setup.value]
                   ELSE usbd_state
  /\ Conclude("status")
  /\ Goto("isr", "endepin1")
  /\ UNCHANGED transfer

SetupStall ==
  /\ ep0setup("stall")
  /\ Conclude("stall")
  /\ Goto("isr", "endepin1")
  /\ UNCHANGED <<usbd_state, transfer>>

SetupIgnored ==
  /\ ep0setup("none")
  /\ Goto("isr", "endepin1")
  /\ UNCHANGED <<usbd_state, transfer, ep0>>

SendLength(r) == Smaller(DescriptorLength[r.descriptor], r.wLength)

\* usbd_get_descriptor_handler up to the loop of usbd_epin0_transfer.
SetupDescriptor ==
  /\ ep0setup("data")
  /\ usbd_state' = Locked
  /\ transfer' = [send_len |-> SendLength(setup), bytes_sent |-> 0]
  /\ Goto("isr", "ep0_packet")
  /\ UNCHANGED ep0

\* usbd_epin_start(0, ...): the lock is already set, so it is not waited for.
StartEpin0 ==
  /\ At("isr", "ep0_packet")
  /\ transfer.bytes_sent < transfer.send_len
  /\ Clear("EP0DATADONE")
  /\ dma' = IF ep0 = "setup" /\ enable = "on" THEN dma \cup {0} ELSE dma
  /\ Goto("isr", "await_datadone")
  /\ UNCHANGED <<usbd_state, transfer, enable, pullup, epinen, hostVars>>

AwaitDataDone ==
  /\ At("isr", "await_datadone")
  /\ "EP0DATADONE" \in events
  /\ Clear("EP0DATADONE")
  /\ transfer' = [transfer EXCEPT !.bytes_sent = @ + PacketSize]
  /\ Goto("isr", "ep0_packet")
  /\ UNCHANGED <<usbd_state, enable, pullup, epinen, dma, hostVars>>

DataStageDone ==
  /\ At("isr", "ep0_packet")
  /\ transfer.bytes_sent >= transfer.send_len
  /\ Conclude("status")
  /\ usbd_state' = Unlocked
  /\ Goto("isr", "endepin1")
  /\ UNCHANGED <<transfer, registers, vbus, regulator, attached, setup, received>>

EndEpin1 ==
  /\ At("isr", "endepin1")
  /\ Clear("ENDEPIN1")
  /\ usbd_state' = IF "ENDEPIN1" \in events THEN Unlocked ELSE usbd_state
  /\ Goto("isr", "idle")
  /\ UNCHANGED <<transfer, enable, pullup, epinen, dma, hostVars>>

USBD_IRQHandler ==
  \/ UsbEvent
  \/ UsbReset \/ EventAbsent("usbreset", "USBRESET", "ep0setup")
  \/ SetupStatus \/ SetupStall \/ SetupIgnored \/ SetupDescriptor
  \/ EventAbsent("ep0setup", "EP0SETUP", "endepin1")
  \/ StartEpin0 \/ AwaitDataDone \/ DataStageDone
  \/ EndEpin1

-----------------------------------------------------------------------------
(* hid_send_report / hid_send_kb_report and usbd_epin_start(1, ...), run   *)
(* by ReportContext.                                                       *)

SendReport ==
  /\ Runs(ReportContext) /\ At(ReportContext, "idle")
  /\ events \cap PowerEvents = {}
  /\ AllReady(usbd_state)
  /\ Goto(ReportContext, "lock")
  /\ UNCHANGED <<usbd_state, transfer, registers, hostVars>>

AwaitLock ==
  /\ Runs(ReportContext) /\ At(ReportContext, "lock")
  /\ ~usbd_state.transfer_in_progress
  /\ Goto(ReportContext, "set_lock")
  /\ UNCHANGED <<usbd_state, transfer, registers, hostVars>>

SetLock ==
  /\ Runs(ReportContext) /\ At(ReportContext, "set_lock")
  /\ usbd_state' = Locked
  /\ Goto(ReportContext, "start_epin")
  /\ UNCHANGED <<transfer, registers, hostVars>>

StartEpin1 ==
  /\ Runs(ReportContext) /\ At(ReportContext, "start_epin")
  /\ dma' = IF enable = "on" THEN dma \cup {1} ELSE dma
  /\ Goto(ReportContext, "await_endepin")
  /\ UNCHANGED <<usbd_state, transfer, events, enable, pullup, epinen, hostVars>>

AwaitEndEpin ==
  /\ Runs(ReportContext) /\ At(ReportContext, "await_endepin")
  /\ "ENDEPIN1" \in events
  /\ Clear("ENDEPIN1")
  /\ usbd_state' = Unlocked
  /\ Goto(ReportContext, "idle")
  /\ UNCHANGED <<transfer, enable, pullup, epinen, dma, hostVars>>

usbd_epin_start == AwaitLock \/ SetLock \/ StartEpin1 \/ AwaitEndEpin

-----------------------------------------------------------------------------

Next ==
  \/ Environment
  \/ PowerIrq \/ POWER_CLOCK_IRQHandler
  \/ UsbdIrq \/ USBD_IRQHandler
  \/ SendReport \/ usbd_epin_start

Spec == Init /\ [][Next]_vars

\* A handler that runs makes progress; a pending interrupt is taken although
\* others compete for the processor; the interrupted code resumes; the
\* peripheral finishes what it started and the host reads what is offered.
\* Nothing makes the host, the user or the keyboard act.
Fairness ==
  /\ WF_vars(POWER_CLOCK_IRQHandler) /\ WF_vars(USBD_IRQHandler)
  /\ SF_vars(PowerIrq) /\ SF_vars(UsbdIrq)
  /\ SF_vars(usbd_epin_start)
  /\ WF_vars(RegulatorSettles) /\ WF_vars(PeripheralReady)
  /\ WF_vars(ReportCopied) /\ WF_vars(HostReadsPacket)

FairSpec == Spec /\ Fairness

-----------------------------------------------------------------------------
(* Properties                                                              *)

TypeOK ==
  /\ usbd_state \in [vbus_detected : BOOLEAN, usb_power_ready : BOOLEAN,
                     usbd_ready : BOOLEAN, transfer_in_progress : BOOLEAN,
                     configuration : Nat]
  /\ pc \in [Contexts -> Labels]
  /\ transfer \in [send_len : Nat, bytes_sent : Nat]
  /\ transfer.bytes_sent <= transfer.send_len
  /\ events \subseteq PowerEvents \cup UsbdEvents \cup PolledEvents
  /\ enable \in {"off", "starting", "on"}
  /\ pullup \in BOOLEAN
  /\ epinen \subseteq {0, 1}
  /\ dma \subseteq {0, 1}
  /\ vbus \in BOOLEAN /\ regulator \in BOOLEAN /\ attached \in BOOLEAN
  /\ ep0 \in {"idle", "setup", "status", "stall"}
  /\ setup \in Requests \cup {NoRequest}
  /\ received \in Nat

\* EasyDMA serves one endpoint at a time (usbd.h:26-28, docs/usbd.md:180-182).
SingleTransfer == dma # {0, 1}

\* While the EasyDMA moves data, whoever looks at the lock finds it taken.
DmaHoldsLock == dma # {} => usbd_state.transfer_in_progress

\* Every transfer has one owner, and its place in the code says which: with
\* reports sent from handler mode the endpoint 0 loop and the report's sender
\* exclude each other, and no completion event outlives its transfer.
TransferOwned ==
  /\ At("thread", "idle")
  /\ 0 \in dma => At("isr", "await_datadone")
  /\ 1 \in dma => At("isr", "await_endepin")
  /\ "EP0DATADONE" \in events => 0 \notin dma
  /\ "ENDEPIN1" \in events => At("isr", "await_endepin") /\ 1 \notin dma
  /\ pc["isr"] \in {"ep0_packet", "await_datadone", "start_epin", "await_endepin"}
       => usbd_state.transfer_in_progress

\* The device only shows itself to the host once the cable, the regulator and
\* the peripheral are all there; the removal handler is the one place where
\* the pull-up briefly outlives them (usbd.c:84-100, 197-215).
PullupNeedsAll == pullup /\ ~At("isr", "drop_pullup") => AllReady(usbd_state)

\* Once no cable event is pending and no handler runs, the driver's view of
\* the cable is the cable's state (docs/usbd.md:89-91).
CableTracked ==
  At("isr", "idle") /\ events \cap PowerEvents = {} => usbd_state.vbus_detected = vbus

\* When the host reaches the status stage of GET_DESCRIPTOR it has received
\* the descriptor, cut at the length it asked for (usbd.c:260-282).
DataStageExact ==
  ep0 = "status" /\ setup.type = "standard" /\ setup.request = "get_descriptor"
    => received = Smaller(DescriptorLength[setup.descriptor], setup.wLength)

\* A host that got as far as configuring the device since its last reset finds
\* the report endpoint enabled (USBD_Reset_Handler); a configuration kept from
\* before the cable was pulled is not acted upon.
ConfiguredHasEndpoint ==
  attached /\ "USBRESET" \notin events /\ usbd_state.configuration # 0 => 1 \in epinen

\* The driver implements ReportPort for whoever sends the reports.
PortSender ==
  IF pc[ReportContext] \in {"lock", "set_lock", "start_epin"} THEN "waiting"
  ELSE IF ~At(ReportContext, "await_endepin") THEN "idle"
  ELSE IF "ENDEPIN1" \in events THEN "sent"
  ELSE IF 1 \in dma THEN "sending" ELSE "stuck"

Port == INSTANCE ReportPort WITH Preempted <- (ReportContext = "thread"),
                                 ready <- AllReady(usbd_state), sender <- PortSender
PortSpec == Port!Spec

\* A report that was let through ends: its sender waits for the lock and for
\* ENDEPIN, and both come unless the cable goes (usbd.c:294-333).
ReportFinishes ==
  pc[ReportContext] \in ReportLabels ~> (At(ReportContext, "idle") \/ ~vbus)

\* Every standard request is answered with data, a status stage or a stall.
StandardAnswered ==
  (ep0 = "setup" /\ setup.type = "standard") ~> ep0 # "setup"

\* The removal handler waits for "potential transfers to end" (usbd.c:87) and
\* then disables the peripheral.
RemovalCompletes == At("isr", "await_transfer") ~> At("isr", "idle")

\* A cable that stays in brings the device up.
PluggedComesUp == (vbus /\ ~pullup) ~> (pullup \/ ~vbus)
=============================================================================
