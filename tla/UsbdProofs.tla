----------------------------- MODULE UsbdProofs -----------------------------
(* Theorems about the USB device driver of Usbd, for every table of          *)
(* descriptors, every set of requests and every host and cable.              *)
EXTENDS Usbd, TLAPS

-----------------------------------------------------------------------------
(* Types.                                                                    *)

LEMMA TypeInit == Init => TypeOK
<1> SUFFICES ASSUME Init PROVE TypeOK
  OBVIOUS
<1>1. /\ transfer \in [send_len : Nat, bytes_sent : Nat]
      /\ transfer.bytes_sent <= transfer.send_len
      /\ pc \in [Contexts -> Labels]
      /\ received \in Nat
  BY DEF Init, Labels
<1>2. usbd_state \in [vbus_detected : BOOLEAN, usb_power_ready : BOOLEAN,
                     usbd_ready : BOOLEAN, transfer_in_progress : BOOLEAN,
                     configuration : Nat]
  BY DEF Init
<1>3. /\ enable \in {"off", "starting", "on"}
      /\ pullup \in BOOLEAN
      /\ events \subseteq PowerEvents \cup UsbdEvents \cup PolledEvents
      /\ epinen \subseteq {0, 1} /\ dma \subseteq {0, 1}
      /\ vbus \in BOOLEAN /\ regulator \in BOOLEAN /\ attached \in BOOLEAN
  BY DEF Init
<1>4. /\ ep0 \in {"idle", "setup", "status", "stall"}
      /\ setup \in Requests \cup {NoRequest}
  BY DEF Init
<1>5. QED  BY <1>1, <1>2, <1>3, <1>4 DEF TypeOK

\* A descriptor request the driver has data for names a descriptor.
LEMMA DataRequest ==
  ASSUME TypeOK, Response(setup) = "data"
  PROVE  SendLength(setup) \in Nat
<1>1. setup \in Requests
  BY DEF TypeOK, Response, NoRequest
<1>2. DescriptorLength[setup.descriptor] \in Nat /\ setup.wLength \in Nat
  BY <1>1, UsbdAssumption
<1>3. QED  BY <1>2 DEF SendLength, Smaller

LEMMA EnvironmentType ==
  ASSUME TypeOK, Environment
  PROVE  TypeOK'
<1> USE DEF TypeOK, hostVars, driverVars, registers, Raise,
            PowerEvents, UsbdEvents, PolledEvents
<1>1. CASE Plug              BY <1>1 DEF Plug
<1>2. CASE Unplug            BY <1>2 DEF Unplug
<1>3. CASE RegulatorSettles  BY <1>3 DEF RegulatorSettles
<1>4. CASE PeripheralReady   BY <1>4 DEF PeripheralReady
<1>5. CASE HostReset         BY <1>5 DEF HostReset
<1>6. ASSUME NEW r \in Requests, HostSetup(r)
      PROVE  TypeOK'
  BY <1>6 DEF HostSetup
<1>7. CASE HostSuspend       BY <1>7 DEF HostSuspend
<1>8. CASE HostReadsPacket
  <2>1. PacketSize \in Nat   BY DEF PacketSize, Smaller
  <2>2. QED                  BY <1>8, <2>1 DEF HostReadsPacket
<1>9. CASE ReportCopied      BY <1>9 DEF ReportCopied
<1>10. QED
  BY <1>1, <1>2, <1>3, <1>4, <1>5, <1>6, <1>7, <1>8, <1>9 DEF Environment

LEMMA PowerType ==
  ASSUME TypeOK, PowerIrq \/ POWER_CLOCK_IRQHandler
  PROVE  TypeOK'
<1> USE DEF TypeOK, hostVars, driverVars, registers, Clear, At, Goto, Contexts,
            Labels, PowerLabels
<1>1. CASE PowerIrq     BY <1>1 DEF PowerIrq
<1>2. CASE UsbDetected  BY <1>2 DEF UsbDetected
<1>3. CASE AwaitReady   BY <1>3 DEF AwaitReady, usbd_pullup, AllReady
<1>4. CASE UsbPwrRdy    BY <1>4 DEF UsbPwrRdy, usbd_pullup, AllReady
<1>5. CASE UsbRemoved   BY <1>5 DEF UsbRemoved
<1>6. CASE DisableUsbd  BY <1>6 DEF DisableUsbd, Disconnected
<1>7. CASE DropPullup   BY <1>7 DEF DropPullup
<1>8. CASE \/ EventAbsent("detected", "USBDETECTED", "pwrrdy")
           \/ EventAbsent("pwrrdy", "USBPWRRDY", "removed")
           \/ EventAbsent("removed", "USBREMOVED", "idle")
  BY <1>8 DEF EventAbsent
<1>9. QED
  BY <1>1, <1>2, <1>3, <1>4, <1>5, <1>6, <1>7, <1>8 DEF POWER_CLOCK_IRQHandler

LEMMA UsbdType ==
  ASSUME TypeOK, UsbdIrq \/ USBD_IRQHandler
  PROVE  TypeOK'
<1> USE DEF TypeOK, hostVars, driverVars, registers, Clear, At, Goto, Contexts,
            Labels, UsbdLabels, Locked, Unlocked, Conclude
<1>1. CASE UsbdIrq        BY <1>1 DEF UsbdIrq
<1>2. CASE UsbEvent       BY <1>2 DEF UsbEvent
<1>3. CASE UsbReset       BY <1>3 DEF UsbReset, USBD_Reset_Handler
<1>4. CASE SetupStatus
  <2>1. setup.value \in Nat
    BY <1>4, UsbdAssumption DEF SetupStatus, ep0setup, Response, NoRequest
  <2>2. QED               BY <1>4, <2>1 DEF SetupStatus, ep0setup
<1>5. CASE SetupStall     BY <1>5 DEF SetupStall, ep0setup
<1>6. CASE SetupIgnored   BY <1>6 DEF SetupIgnored, ep0setup
<1>7. CASE SetupDescriptor
  <2>1. Response(setup) = "data"
    BY <1>7 DEF SetupDescriptor, ep0setup
  <2>2. SendLength(setup) \in Nat
    BY <2>1, DataRequest
  <2>3. transfer' = [send_len |-> SendLength(setup), bytes_sent |-> 0]
    BY <1>7 DEF SetupDescriptor
  <2>4. /\ transfer' \in [send_len : Nat, bytes_sent : Nat]
        /\ transfer'.bytes_sent <= transfer'.send_len
    BY <2>2, <2>3
  <2>5. QED               BY <1>7, <2>4 DEF SetupDescriptor, ep0setup
<1>8. CASE StartEpin0     BY <1>8 DEF StartEpin0
<1>9. CASE AwaitDataDone
  <2>1. /\ transfer.bytes_sent + PacketSize \in Nat
        /\ transfer.bytes_sent + PacketSize <= transfer.send_len
    BY DEF PacketSize, Smaller
  <2>2. QED               BY <1>9, <2>1 DEF AwaitDataDone
<1>10. CASE DataStageDone BY <1>10 DEF DataStageDone
<1>11. CASE EndEpin1      BY <1>11 DEF EndEpin1
<1>12. CASE \/ EventAbsent("usbreset", "USBRESET", "ep0setup")
            \/ EventAbsent("ep0setup", "EP0SETUP", "endepin1")
  BY <1>12 DEF EventAbsent
<1>13. QED
  BY <1>1, <1>2, <1>3, <1>4, <1>5, <1>6, <1>7, <1>8, <1>9, <1>10, <1>11, <1>12
     DEF USBD_IRQHandler

LEMMA SenderType ==
  ASSUME TypeOK, SendReport \/ usbd_epin_start
  PROVE  TypeOK'
<1> USE UsbdAssumption DEF TypeOK, hostVars, driverVars, registers, Clear, At, Goto,
            Contexts, Labels, ReportLabels, Locked, Unlocked
<1>1. CASE SendReport    BY <1>1 DEF SendReport
<1>2. CASE AwaitLock     BY <1>2 DEF AwaitLock
<1>3. CASE SetLock       BY <1>3 DEF SetLock
<1>4. CASE StartEpin1    BY <1>4 DEF StartEpin1
<1>5. CASE AwaitEndEpin  BY <1>5 DEF AwaitEndEpin
<1>6. QED
  BY <1>1, <1>2, <1>3, <1>4, <1>5 DEF usbd_epin_start

\* The types of the driver's state, the registers and the host's view of them,
\* in particular that a data stage never sends past the end (usbd.c:271-278).
THEOREM TypeCorrect == Spec => []TypeOK
<1>1. Init => TypeOK
  BY TypeInit
<1>2. TypeOK /\ [Next]_vars => TypeOK'
  <2>1. ASSUME TypeOK, Next PROVE TypeOK'
    BY <2>1, EnvironmentType, PowerType, UsbdType, SenderType DEF Next
  <2>2. ASSUME TypeOK, UNCHANGED vars PROVE TypeOK'
    BY <2>2 DEF TypeOK, vars, hostVars, driverVars, registers
  <2>3. QED  BY <2>1, <2>2
<1>3. QED  BY <1>1, <1>2, PTL DEF Spec

-----------------------------------------------------------------------------
(* The pull-up.                                                              *)

\* No step of the driver or of its environment shows the device too early.
LEMMA PullupStep ==
  ASSUME TypeOK, PullupNeedsAll, Next
  PROVE  PullupNeedsAll'
<1> USE DEF TypeOK, PullupNeedsAll, AllReady, At, Goto, Contexts,
            hostVars, driverVars, registers
<1>1. CASE Environment
  BY <1>1 DEF Environment, Plug, Unplug, RegulatorSettles, PeripheralReady, HostReset,
              HostSetup, HostSuspend, HostReadsPacket, ReportCopied
<1>2. CASE PowerIrq        BY <1>2 DEF PowerIrq
<1>3. CASE POWER_CLOCK_IRQHandler
  <2>1. CASE UsbDetected   BY <2>1 DEF UsbDetected
  <2>2. CASE AwaitReady    BY <2>2 DEF AwaitReady, usbd_pullup
  <2>3. CASE UsbPwrRdy     BY <2>3 DEF UsbPwrRdy, usbd_pullup
  <2>4. CASE UsbRemoved    BY <2>4 DEF UsbRemoved
  <2>5. CASE DisableUsbd   BY <2>5 DEF DisableUsbd
  <2>6. CASE DropPullup    BY <2>6 DEF DropPullup
  <2>7. CASE \/ EventAbsent("detected", "USBDETECTED", "pwrrdy")
             \/ EventAbsent("pwrrdy", "USBPWRRDY", "removed")
             \/ EventAbsent("removed", "USBREMOVED", "idle")
    BY <2>7 DEF EventAbsent
  <2>8. QED
    BY <1>3, <2>1, <2>2, <2>3, <2>4, <2>5, <2>6, <2>7 DEF POWER_CLOCK_IRQHandler
<1>4. CASE UsbdIrq         BY <1>4 DEF UsbdIrq
<1>5. CASE USBD_IRQHandler
  <2> USE DEF Locked, Unlocked
  <2>1. CASE UsbEvent      BY <2>1 DEF UsbEvent
  <2>2. CASE UsbReset      BY <2>2 DEF UsbReset
  <2>3. CASE SetupStatus   BY <2>3 DEF SetupStatus, ep0setup
  <2>4. CASE SetupStall    BY <2>4 DEF SetupStall, ep0setup
  <2>5. CASE SetupIgnored  BY <2>5 DEF SetupIgnored, ep0setup
  <2>6. CASE SetupDescriptor  BY <2>6 DEF SetupDescriptor, ep0setup
  <2>7. CASE StartEpin0    BY <2>7 DEF StartEpin0
  <2>8. CASE AwaitDataDone BY <2>8 DEF AwaitDataDone
  <2>9. CASE DataStageDone BY <2>9 DEF DataStageDone
  <2>10. CASE EndEpin1     BY <2>10 DEF EndEpin1
  <2>11. CASE \/ EventAbsent("usbreset", "USBRESET", "ep0setup")
              \/ EventAbsent("ep0setup", "EP0SETUP", "endepin1")
    BY <2>11 DEF EventAbsent
  <2>12. QED
    BY <1>5, <2>1, <2>2, <2>3, <2>4, <2>5, <2>6, <2>7, <2>8, <2>9, <2>10, <2>11
       DEF USBD_IRQHandler
<1>6. CASE SendReport      BY <1>6, UsbdAssumption DEF SendReport
<1>7. CASE usbd_epin_start
  <2> USE UsbdAssumption DEF Locked, Unlocked
  <2>1. CASE AwaitLock     BY <2>1 DEF AwaitLock
  <2>2. CASE SetLock       BY <2>2 DEF SetLock
  <2>3. CASE StartEpin1    BY <2>3 DEF StartEpin1
  <2>4. CASE AwaitEndEpin  BY <2>4 DEF AwaitEndEpin
  <2>5. QED                BY <1>7, <2>1, <2>2, <2>3, <2>4 DEF usbd_epin_start
<1>8. QED
  BY <1>1, <1>2, <1>3, <1>4, <1>5, <1>6, <1>7 DEF Next

\* The device only shows itself to a host when cable, regulator and peripheral
\* are there, whatever the order of their events (usbd.c:84-100, 197-215).
THEOREM PullupCorrect == Spec => []PullupNeedsAll
<1>1. Init => PullupNeedsAll
  BY DEF Init, PullupNeedsAll
<1>2. TypeOK /\ PullupNeedsAll /\ [Next]_vars => PullupNeedsAll'
  <2>1. ASSUME PullupNeedsAll, UNCHANGED vars PROVE PullupNeedsAll'
    BY <2>1 DEF PullupNeedsAll, AllReady, At, vars, driverVars, registers
  <2>2. QED  BY <2>1, PullupStep
<1>3. QED  BY <1>1, <1>2, TypeCorrect, PTL DEF Spec

-----------------------------------------------------------------------------
(* The report endpoint.                                                      *)

\* A device the host has reset, and whose reset was handled, has endpoint 1
\* enabled.
EndpointInv == attached /\ "USBRESET" \notin events => 1 \in epinen

LEMMA EndpointStep ==
  ASSUME EndpointInv, Next
  PROVE  EndpointInv'
<1> USE DEF EndpointInv, hostVars, driverVars, registers, Raise, Clear
<1>1. CASE Environment
  BY <1>1 DEF Environment, Plug, Unplug, RegulatorSettles, PeripheralReady, HostReset,
              HostSetup, HostSuspend, HostReadsPacket, ReportCopied
<1>2. CASE PowerIrq \/ POWER_CLOCK_IRQHandler
  BY <1>2 DEF PowerIrq, POWER_CLOCK_IRQHandler, UsbDetected, AwaitReady, UsbPwrRdy,
              UsbRemoved, DisableUsbd, DropPullup, EventAbsent
<1>3. CASE UsbdIrq \/ UsbEvent \/ UsbReset
  BY <1>3 DEF UsbdIrq, UsbEvent, UsbReset, USBD_Reset_Handler
<1>4. CASE SetupStatus \/ SetupStall \/ SetupIgnored \/ SetupDescriptor
  BY <1>4 DEF SetupStatus, SetupStall, SetupIgnored, SetupDescriptor, ep0setup
<1>5. CASE StartEpin0 \/ AwaitDataDone \/ DataStageDone \/ EndEpin1
  BY <1>5 DEF StartEpin0, AwaitDataDone, DataStageDone, EndEpin1
<1>6. CASE \/ EventAbsent("usbreset", "USBRESET", "ep0setup")
           \/ EventAbsent("ep0setup", "EP0SETUP", "endepin1")
  BY <1>6 DEF EventAbsent
<1>7. CASE SendReport \/ usbd_epin_start
  BY <1>7 DEF SendReport, usbd_epin_start, AwaitLock, SetLock, StartEpin1, AwaitEndEpin
<1>8. QED
  BY <1>1, <1>2, <1>3, <1>4, <1>5, <1>6, <1>7 DEF Next, USBD_IRQHandler

\* A configuration the host chose after its last reset comes with an enabled
\* report endpoint, also when an older one outlived the cable (usbd.c:90-92).
THEOREM EndpointCorrect == Spec => []ConfiguredHasEndpoint
<1>1. Init => EndpointInv
  BY DEF Init, EndpointInv
<1>2. EndpointInv /\ [Next]_vars => EndpointInv'
  <2>1. ASSUME EndpointInv, UNCHANGED vars PROVE EndpointInv'
    BY <2>1 DEF EndpointInv, vars, registers, hostVars
  <2>2. QED  BY <2>1, EndpointStep
<1>3. EndpointInv => ConfiguredHasEndpoint
  BY DEF EndpointInv, ConfiguredHasEndpoint
<1>4. QED  BY <1>1, <1>2, <1>3, PTL DEF Spec

-----------------------------------------------------------------------------
(* Transfers, with reports sent from handler mode.                           *)

LEMMA TransferEnvironment ==
  ASSUME TypeOK, TransferOwned, Environment
  PROVE  TransferOwned'
<1> USE DEF TransferOwned, At, hostVars, driverVars, Raise
<1>1. CASE Plug             BY <1>1 DEF Plug
<1>2. CASE Unplug           BY <1>2 DEF Unplug
<1>3. CASE RegulatorSettles BY <1>3 DEF RegulatorSettles
<1>4. CASE PeripheralReady  BY <1>4 DEF PeripheralReady
<1>5. CASE HostReset        BY <1>5 DEF HostReset
<1>6. ASSUME NEW r \in Requests, HostSetup(r)
      PROVE  TransferOwned'
  BY <1>6 DEF HostSetup
<1>7. CASE HostSuspend      BY <1>7 DEF HostSuspend
<1>8. CASE HostReadsPacket  BY <1>8 DEF HostReadsPacket
<1>9. CASE ReportCopied     BY <1>9 DEF ReportCopied
<1>10. QED
  BY <1>1, <1>2, <1>3, <1>4, <1>5, <1>6, <1>7, <1>8, <1>9 DEF Environment

LEMMA TransferPower ==
  ASSUME TypeOK, TransferOwned, PowerIrq \/ POWER_CLOCK_IRQHandler
  PROVE  TransferOwned'
<1> USE DEF TypeOK, TransferOwned, At, Goto, Contexts, hostVars, registers, Clear
<1>1. CASE PowerIrq         BY <1>1 DEF PowerIrq
<1>2. CASE UsbDetected      BY <1>2 DEF UsbDetected
<1>3. CASE AwaitReady       BY <1>3 DEF AwaitReady
<1>4. CASE UsbPwrRdy        BY <1>4 DEF UsbPwrRdy
<1>5. CASE UsbRemoved       BY <1>5 DEF UsbRemoved
<1>6. CASE DisableUsbd      BY <1>6 DEF DisableUsbd
<1>7. CASE DropPullup       BY <1>7 DEF DropPullup
<1>8. CASE \/ EventAbsent("detected", "USBDETECTED", "pwrrdy")
           \/ EventAbsent("pwrrdy", "USBPWRRDY", "removed")
           \/ EventAbsent("removed", "USBREMOVED", "idle")
  BY <1>8 DEF EventAbsent
<1>9. QED
  BY <1>1, <1>2, <1>3, <1>4, <1>5, <1>6, <1>7, <1>8 DEF POWER_CLOCK_IRQHandler

LEMMA TransferUsbd ==
  ASSUME TypeOK, TransferOwned, UsbdIrq \/ USBD_IRQHandler
  PROVE  TransferOwned'
<1> USE DEF TypeOK, TransferOwned, At, Goto, Contexts, hostVars, registers, Clear,
            Locked, Unlocked
<1>1. CASE UsbdIrq          BY <1>1 DEF UsbdIrq
<1>2. CASE UsbEvent         BY <1>2 DEF UsbEvent
<1>3. CASE UsbReset         BY <1>3 DEF UsbReset
<1>4. CASE SetupStatus      BY <1>4 DEF SetupStatus, ep0setup
<1>5. CASE SetupStall       BY <1>5 DEF SetupStall, ep0setup
<1>6. CASE SetupIgnored     BY <1>6 DEF SetupIgnored, ep0setup
<1>7. CASE SetupDescriptor  BY <1>7 DEF SetupDescriptor, ep0setup
<1>8. CASE StartEpin0       BY <1>8 DEF StartEpin0
<1>9. CASE AwaitDataDone    BY <1>9 DEF AwaitDataDone
<1>10. CASE DataStageDone   BY <1>10 DEF DataStageDone
<1>11. CASE EndEpin1        BY <1>11 DEF EndEpin1
<1>12. CASE \/ EventAbsent("usbreset", "USBRESET", "ep0setup")
            \/ EventAbsent("ep0setup", "EP0SETUP", "endepin1")
  BY <1>12 DEF EventAbsent
<1>13. QED
  BY <1>1, <1>2, <1>3, <1>4, <1>5, <1>6, <1>7, <1>8, <1>9, <1>10, <1>11, <1>12
     DEF USBD_IRQHandler

LEMMA TransferSender ==
  ASSUME ReportContext = "isr", TypeOK, TransferOwned, SendReport \/ usbd_epin_start
  PROVE  TransferOwned'
<1> USE DEF TypeOK, TransferOwned, At, Goto, Contexts, hostVars, registers, Clear,
            Locked, Unlocked
<1>1. CASE SendReport       BY <1>1 DEF SendReport
<1>2. CASE AwaitLock        BY <1>2 DEF AwaitLock
<1>3. CASE SetLock          BY <1>3 DEF SetLock
<1>4. CASE StartEpin1       BY <1>4 DEF StartEpin1
<1>5. CASE AwaitEndEpin     BY <1>5 DEF AwaitEndEpin
<1>6. QED
  BY <1>1, <1>2, <1>3, <1>4, <1>5 DEF usbd_epin_start

\* With reports sent from handler mode, as in keymap_hid, every transfer has
\* one owner whatever host and cable do.
THEOREM TransferCorrect ==
  ASSUME ReportContext = "isr"
  PROVE  Spec => []TransferOwned
<1>1. Init => TransferOwned
  BY DEF Init, TransferOwned, At, Contexts
<1>2. TypeOK /\ TransferOwned /\ [Next]_vars => TransferOwned'
  <2>1. ASSUME TransferOwned, UNCHANGED vars PROVE TransferOwned'
    BY <2>1 DEF TransferOwned, At, vars, driverVars, registers
  <2>2. ASSUME TypeOK, TransferOwned, Next PROVE TransferOwned'
    BY <2>2, TransferEnvironment, TransferPower, TransferUsbd, TransferSender DEF Next
  <2>3. QED  BY <2>1, <2>2
<1>3. QED  BY <1>1, <1>2, TypeCorrect, PTL DEF Spec

\* ... so the EasyDMA never serves two endpoints (usbd.h:26-28) ...
THEOREM SingleTransferCorrect ==
  ASSUME ReportContext = "isr"
  PROVE  Spec => []SingleTransfer
<1>1. TransferOwned => SingleTransfer
  BY DEF TransferOwned, SingleTransfer, At
<1>2. QED  BY <1>1, TransferCorrect, PTL

\* ... and works under the lock.
THEOREM LockCorrect ==
  ASSUME ReportContext = "isr"
  PROVE  Spec => []DmaHoldsLock
<1>1. TypeOK /\ TransferOwned => DmaHoldsLock
  BY DEF TypeOK, TransferOwned, DmaHoldsLock, At
<1>2. QED  BY <1>1, TypeCorrect, TransferCorrect, PTL

-----------------------------------------------------------------------------
(* The cable, where it rests while a change of it is dealt with.             *)

CableEvents == {"USBDETECTED", "USBREMOVED"}

\* A pending cable event is the only difference between the cable and the
\* driver's view of it, the removal apart that the handler has begun to handle.
CableInv ==
  /\ "USBDETECTED" \in events => vbus /\ ~usbd_state.vbus_detected
  /\ "USBREMOVED" \in events => ~vbus /\ usbd_state.vbus_detected
  /\ At("isr", "await_transfer") =>
       ~vbus /\ usbd_state.vbus_detected /\ events \cap CableEvents = {}
  /\ ~At("isr", "await_transfer") /\ events \cap CableEvents = {} =>
       usbd_state.vbus_detected = vbus

LEMMA CableEnvironment ==
  ASSUME QuietCable, CableInv, Environment
  PROVE  CableInv'
<1> USE DEF CableInv, CableEvents, At, hostVars, driverVars, Raise
<1>1. CASE Plug
  BY <1>1 DEF Plug, Undisturbed, PowerEvents
<1>2. CASE Unplug
  BY <1>2 DEF Unplug, Undisturbed, PowerEvents
<1>3. CASE RegulatorSettles \/ PeripheralReady \/ HostReset \/ HostSuspend
  BY <1>3 DEF RegulatorSettles, PeripheralReady, HostReset, HostSuspend
<1>4. ASSUME NEW r \in Requests, HostSetup(r)
      PROVE  CableInv'
  BY <1>4 DEF HostSetup
<1>5. CASE HostReadsPacket \/ ReportCopied
  BY <1>5 DEF HostReadsPacket, ReportCopied
<1>6. QED  BY <1>1, <1>2, <1>3, <1>4, <1>5 DEF Environment

LEMMA CablePower ==
  ASSUME TypeOK, CableInv, PowerIrq \/ POWER_CLOCK_IRQHandler
  PROVE  CableInv'
<1> USE DEF TypeOK, CableInv, CableEvents, At, Goto, Contexts, hostVars, registers, Clear
<1>1. CASE PowerIrq     BY <1>1 DEF PowerIrq
<1>2. CASE UsbDetected  BY <1>2 DEF UsbDetected
<1>3. CASE AwaitReady   BY <1>3 DEF AwaitReady
<1>4. CASE UsbPwrRdy    BY <1>4 DEF UsbPwrRdy
<1>5. CASE UsbRemoved   BY <1>5 DEF UsbRemoved
<1>6. CASE DisableUsbd  BY <1>6 DEF DisableUsbd, Disconnected
<1>7. CASE DropPullup   BY <1>7 DEF DropPullup
<1>8. CASE \/ EventAbsent("detected", "USBDETECTED", "pwrrdy")
           \/ EventAbsent("pwrrdy", "USBPWRRDY", "removed")
           \/ EventAbsent("removed", "USBREMOVED", "idle")
  BY <1>8 DEF EventAbsent
<1>9. QED
  BY <1>1, <1>2, <1>3, <1>4, <1>5, <1>6, <1>7, <1>8 DEF POWER_CLOCK_IRQHandler

LEMMA CableUsbd ==
  ASSUME TypeOK, CableInv, UsbdIrq \/ USBD_IRQHandler
  PROVE  CableInv'
<1> USE DEF TypeOK, CableInv, CableEvents, At, Goto, Contexts, hostVars, registers, Clear,
            Locked, Unlocked
<1>1. CASE UsbdIrq          BY <1>1 DEF UsbdIrq
<1>2. CASE UsbEvent         BY <1>2 DEF UsbEvent
<1>3. CASE UsbReset         BY <1>3 DEF UsbReset
<1>4. CASE SetupStatus \/ SetupStall \/ SetupIgnored \/ SetupDescriptor
  BY <1>4 DEF SetupStatus, SetupStall, SetupIgnored, SetupDescriptor, ep0setup
<1>5. CASE StartEpin0       BY <1>5 DEF StartEpin0
<1>6. CASE AwaitDataDone    BY <1>6 DEF AwaitDataDone
<1>7. CASE DataStageDone    BY <1>7 DEF DataStageDone
<1>8. CASE EndEpin1         BY <1>8 DEF EndEpin1
<1>9. CASE \/ EventAbsent("usbreset", "USBRESET", "ep0setup")
           \/ EventAbsent("ep0setup", "EP0SETUP", "endepin1")
  BY <1>9 DEF EventAbsent
<1>10. QED
  BY <1>1, <1>2, <1>3, <1>4, <1>5, <1>6, <1>7, <1>8, <1>9 DEF USBD_IRQHandler

LEMMA CableSender ==
  ASSUME TypeOK, CableInv, SendReport \/ usbd_epin_start
  PROVE  CableInv'
<1> USE UsbdAssumption DEF TypeOK, CableInv, CableEvents, At, Goto, Contexts, hostVars,
            registers, Clear, Locked, Unlocked
<1>1. CASE SendReport    BY <1>1 DEF SendReport
<1>2. CASE AwaitLock     BY <1>2 DEF AwaitLock
<1>3. CASE SetLock       BY <1>3 DEF SetLock
<1>4. CASE StartEpin1    BY <1>4 DEF StartEpin1
<1>5. CASE AwaitEndEpin  BY <1>5 DEF AwaitEndEpin
<1>6. QED
  BY <1>1, <1>2, <1>3, <1>4, <1>5 DEF usbd_epin_start

LEMMA CableInvariant ==
  ASSUME QuietCable
  PROVE  Spec => []CableInv
<1>1. Init => CableInv
  <2> SUFFICES ASSUME Init PROVE CableInv
    OBVIOUS
  <2>1. vbus = FALSE /\ usbd_state.vbus_detected = FALSE /\ events = {}
    BY DEF Init
  <2>2. pc["isr"] # "await_transfer"
    BY DEF Init, Contexts
  <2>3. QED  BY <2>1, <2>2 DEF CableInv, CableEvents, At
<1>2. TypeOK /\ CableInv /\ [Next]_vars => CableInv'
  <2>1. ASSUME CableInv, UNCHANGED vars PROVE CableInv'
    BY <2>1 DEF CableInv, At, vars, driverVars, registers, hostVars
  <2>2. ASSUME TypeOK, CableInv, Next PROVE CableInv'
    BY <2>2, CableEnvironment, CablePower, CableUsbd, CableSender DEF Next
  <2>3. QED  BY <2>1, <2>2
<1>3. QED  BY <1>1, <1>2, TypeCorrect, PTL DEF Spec

\* While the cable only moves between the handlers' runs, the driver knows the
\* cable's state once it has dealt with the cable's events, from whichever
\* context reports are sent and whatever the host does (usbd.c:57-100).
THEOREM CableCorrect ==
  ASSUME QuietCable
  PROVE  Spec => []CableTracked
<1>1. CableInv => CableTracked
  BY DEF CableInv, CableTracked, CableEvents, PowerEvents, At
<1>2. QED  BY <1>1, CableInvariant, PTL

-----------------------------------------------------------------------------
(* The data stage, with a host that waits for its requests to be handled.    *)

Looping == pc["isr"] \in {"ep0_packet", "await_datadone"}

\* The loop sends what the setup packet registers ask for.  What the host has
\* acknowledged is what the loop has counted, the packet apart that the host
\* has read and whose completion event is pending.
StageInv ==
  /\ ep0 = "setup" /\ ~Looping => received = 0
  /\ Looping => /\ Response(setup) = "data" /\ transfer.send_len = SendLength(setup)
                /\ "EP0SETUP" \notin events
  /\ Looping /\ ep0 = "setup" =>
       received = transfer.bytes_sent + (IF "EP0DATADONE" \in events THEN PacketSize ELSE 0)
  /\ 0 \in dma \/ "EP0DATADONE" \in events => At("isr", "await_datadone")
  /\ ~(0 \in dma /\ "EP0DATADONE" \in events)
  /\ DataStageExact

LEMMA StageEnvironment ==
  ASSUME PatientHost, TypeOK, StageInv, Environment
  PROVE  StageInv'
<1> USE DEF StageInv, Looping, DataStageExact, PacketSize, At, Raise
<1>1. CASE Plug \/ Unplug \/ RegulatorSettles \/ PeripheralReady
  BY <1>1 DEF Plug, Unplug, RegulatorSettles, PeripheralReady, hostVars, driverVars
<1>2. CASE HostReset
  BY <1>2 DEF HostReset, SetupHandled, driverVars
<1>3. ASSUME NEW r \in Requests, HostSetup(r)
      PROVE  StageInv'
  BY <1>3 DEF HostSetup, SetupHandled, driverVars
<1>4. CASE HostSuspend \/ ReportCopied
  BY <1>4 DEF HostSuspend, ReportCopied, hostVars, driverVars
<1>5. CASE HostReadsPacket
  BY <1>5 DEF HostReadsPacket, driverVars, TypeOK
<1>6. QED  BY <1>1, <1>2, <1>3, <1>4, <1>5 DEF Environment

LEMMA StagePower ==
  ASSUME TypeOK, StageInv, PowerIrq \/ POWER_CLOCK_IRQHandler
  PROVE  StageInv'
<1> USE DEF TypeOK, StageInv, Looping, DataStageExact, PacketSize, At, Goto, Contexts,
            hostVars, registers, Clear
<1>1. CASE PowerIrq     BY <1>1 DEF PowerIrq
<1>2. CASE UsbDetected  BY <1>2 DEF UsbDetected
<1>3. CASE AwaitReady   BY <1>3 DEF AwaitReady
<1>4. CASE UsbPwrRdy    BY <1>4 DEF UsbPwrRdy
<1>5. CASE UsbRemoved   BY <1>5 DEF UsbRemoved
<1>6. CASE DisableUsbd  BY <1>6 DEF DisableUsbd
<1>7. CASE DropPullup   BY <1>7 DEF DropPullup
<1>8. CASE \/ EventAbsent("detected", "USBDETECTED", "pwrrdy")
           \/ EventAbsent("pwrrdy", "USBPWRRDY", "removed")
           \/ EventAbsent("removed", "USBREMOVED", "idle")
  BY <1>8 DEF EventAbsent
<1>9. QED
  BY <1>1, <1>2, <1>3, <1>4, <1>5, <1>6, <1>7, <1>8 DEF POWER_CLOCK_IRQHandler

LEMMA StageUsbd ==
  ASSUME TypeOK, StageInv, UsbdIrq \/ USBD_IRQHandler
  PROVE  StageInv'
<1> USE DEF TypeOK, StageInv, Looping, DataStageExact, PacketSize, At, Goto, Contexts,
            hostVars, registers, Clear
<1>1. CASE UsbdIrq \/ UsbEvent \/ UsbReset
  BY <1>1 DEF UsbdIrq, UsbEvent, UsbReset
<1>2. CASE SetupStatus
  BY <1>2 DEF SetupStatus, ep0setup, Conclude, Response
<1>3. CASE SetupStall \/ SetupIgnored
  BY <1>3 DEF SetupStall, SetupIgnored, ep0setup, Conclude
<1>4. CASE SetupDescriptor
  BY <1>4 DEF SetupDescriptor, ep0setup
<1>5. CASE StartEpin0
  BY <1>5 DEF StartEpin0
<1>6. CASE AwaitDataDone
  BY <1>6 DEF AwaitDataDone
<1>7. CASE DataStageDone
  BY <1>7, DataRequest DEF DataStageDone, Conclude, SendLength
<1>8. CASE EndEpin1
  BY <1>8 DEF EndEpin1
<1>9. CASE \/ EventAbsent("usbreset", "USBRESET", "ep0setup")
           \/ EventAbsent("ep0setup", "EP0SETUP", "endepin1")
  BY <1>9 DEF EventAbsent
<1>10. QED
  BY <1>1, <1>2, <1>3, <1>4, <1>5, <1>6, <1>7, <1>8, <1>9 DEF USBD_IRQHandler

LEMMA StageSender ==
  ASSUME TypeOK, StageInv, SendReport \/ usbd_epin_start
  PROVE  StageInv'
<1> USE UsbdAssumption DEF TypeOK, StageInv, Looping, DataStageExact, PacketSize, At, Goto,
            Contexts, hostVars, registers, Clear
<1>1. CASE SendReport    BY <1>1 DEF SendReport
<1>2. CASE AwaitLock     BY <1>2 DEF AwaitLock
<1>3. CASE SetLock       BY <1>3 DEF SetLock
<1>4. CASE StartEpin1    BY <1>4 DEF StartEpin1
<1>5. CASE AwaitEndEpin  BY <1>5 DEF AwaitEndEpin
<1>6. QED
  BY <1>1, <1>2, <1>3, <1>4, <1>5 DEF usbd_epin_start

LEMMA StageInvariant ==
  ASSUME PatientHost
  PROVE  Spec => []StageInv
<1>1. Init => StageInv
  BY DEF Init, StageInv, Looping, DataStageExact, At, Contexts
<1>2. TypeOK /\ StageInv /\ [Next]_vars => StageInv'
  <2>1. ASSUME StageInv, UNCHANGED vars PROVE StageInv'
    BY <2>1 DEF StageInv, Looping, DataStageExact, PacketSize, At, vars, driverVars,
                registers, hostVars
  <2>2. ASSUME TypeOK, StageInv, Next PROVE StageInv'
    BY <2>2, StageEnvironment, StagePower, StageUsbd, StageSender DEF Next
  <2>3. QED  BY <2>1, <2>2
<1>3. QED  BY <1>1, <1>2, TypeCorrect, PTL DEF Spec

\* A host that waits for its requests to be handled has, at the status stage of
\* GET_DESCRIPTOR, as many bytes as the descriptor and its own wLength allow,
\* for every table of descriptors, from whichever context reports are sent and
\* however the cable moves (usbd.c:217-282).
THEOREM DataStageCorrect ==
  ASSUME PatientHost
  PROVE  Spec => []DataStageExact
<1>1. StageInv => DataStageExact
  BY DEF StageInv
<1>2. QED  BY <1>1, StageInvariant, PTL

-----------------------------------------------------------------------------
(* The loops in which the handlers wait, with a patient host, a quiet cable  *)
(* and reports sent from handler mode.                                       *)

\* What a handler waits for has come or is on its way: the peripheral, a
\* packet or a report that its hardware will finish, a lock that is free.
WaitsAnswered ==
  /\ At("isr", "await_ready") => vbus /\ (enable = "starting" \/ "READY" \in events)
  /\ At("isr", "await_endepin") =>
       (vbus /\ enable = "on" /\ 1 \in dma) \/ "ENDEPIN1" \in events
  /\ At("isr", "await_datadone") =>
       (Connected /\ ep0 = "setup" /\ 0 \in dma) \/ "EP0DATADONE" \in events
  /\ pc["isr"] \in {"lock", "await_transfer"} => ~usbd_state.transfer_in_progress

LockOwners == {"ep0_packet", "await_datadone", "start_epin", "await_endepin"}

\* The removal has not been dealt with; its handler has yet to drop the pull-up.
Removing == "USBREMOVED" \in events \/ At("isr", "await_transfer")
Dropping == Removing \/ At("isr", "drop_pullup")

\* Only the owner of a transfer holds the lock; the peripheral is on whenever
\* the driver thinks it ready, until a removal that is still pending; and a
\* setup packet or a data stage comes with a connected host that waits for it.
WaitInv ==
  /\ usbd_state.transfer_in_progress => pc["isr"] \in LockOwners
  /\ Dropping => ~vbus
  /\ "USBDETECTED" \in events => vbus /\ enable = "off"
  /\ ~vbus /\ ~Removing => enable = "off"
  /\ "READY" \in events => At("isr", "await_ready") /\ enable = "on"
  /\ enable = "starting" => At("isr", "await_ready") \/ Removing
  /\ usbd_state.usbd_ready => enable = "on" \/ Removing
  /\ pc["isr"] \in ReportLabels => vbus /\ enable = "on"
  /\ "EP0SETUP" \in events => Connected
  /\ "EP0SETUP" \in events /\ Response(setup) = "data" => ep0 = "setup"
  /\ Looping => Connected /\ ep0 = "setup"
  /\ WaitsAnswered

LEMMA WaitEnvironment ==
  ASSUME QuietCable, PatientHost, TypeOK, WaitInv, Environment
  PROVE  WaitInv'
<1> USE DEF TypeOK, WaitInv, WaitsAnswered, LockOwners, Removing, Dropping, Looping, Connected,
            At, Raise, ReportLabels
<1>1. CASE Plug
  BY <1>1 DEF Plug, Undisturbed, SetupHandled, driverVars, PowerEvents
<1>2. CASE Unplug
  BY <1>2 DEF Unplug, Undisturbed, SetupHandled, driverVars, PowerEvents
<1>3. CASE RegulatorSettles
  BY <1>3 DEF RegulatorSettles, driverVars
<1>4. CASE PeripheralReady
  BY <1>4 DEF PeripheralReady, driverVars, hostVars
<1>5. CASE HostReset
  BY <1>5 DEF HostReset, SetupHandled, driverVars
<1>6. ASSUME NEW r \in Requests, HostSetup(r)
      PROVE  WaitInv'
  <2>1. Response(r) = "data" => ep0' = "setup"
    BY <1>6 DEF HostSetup, Response
  <2>2. setup' = r
    BY <1>6 DEF HostSetup
  <2>3. Response(setup)' = Response(r)
    BY <2>2 DEF Response
  <2>4. QED  BY <1>6, <2>1, <2>3 DEF HostSetup, SetupHandled, driverVars
<1>7. CASE HostSuspend
  BY <1>7 DEF HostSuspend, driverVars, hostVars
<1>8. CASE HostReadsPacket
  BY <1>8 DEF HostReadsPacket, driverVars
<1>9. CASE ReportCopied
  BY <1>9 DEF ReportCopied, driverVars, hostVars
<1>10. QED
  BY <1>1, <1>2, <1>3, <1>4, <1>5, <1>6, <1>7, <1>8, <1>9 DEF Environment

LEMMA WaitPower ==
  ASSUME TypeOK, WaitInv, PowerIrq \/ POWER_CLOCK_IRQHandler
  PROVE  WaitInv'
<1> USE DEF TypeOK, WaitInv, WaitsAnswered, LockOwners, Removing, Dropping, Looping, Connected,
            At, Goto, Contexts, Clear, ReportLabels, hostVars, registers
<1>1. CASE PowerIrq     BY <1>1 DEF PowerIrq
<1>2. CASE UsbDetected  BY <1>2 DEF UsbDetected
<1>3. CASE AwaitReady   BY <1>3 DEF AwaitReady, usbd_pullup
<1>4. CASE UsbPwrRdy    BY <1>4 DEF UsbPwrRdy, usbd_pullup
<1>5. CASE UsbRemoved   BY <1>5 DEF UsbRemoved
<1>6. CASE DisableUsbd  BY <1>6 DEF DisableUsbd, Disconnected
<1>7. CASE DropPullup   BY <1>7 DEF DropPullup
<1>8. CASE \/ EventAbsent("detected", "USBDETECTED", "pwrrdy")
           \/ EventAbsent("pwrrdy", "USBPWRRDY", "removed")
           \/ EventAbsent("removed", "USBREMOVED", "idle")
  BY <1>8 DEF EventAbsent
<1>9. QED
  BY <1>1, <1>2, <1>3, <1>4, <1>5, <1>6, <1>7, <1>8 DEF POWER_CLOCK_IRQHandler

LEMMA WaitUsbd ==
  ASSUME TypeOK, StageInv, WaitInv, UsbdIrq \/ USBD_IRQHandler
  PROVE  WaitInv'
<1> USE DEF TypeOK, WaitInv, WaitsAnswered, LockOwners, Removing, Dropping, Looping, Connected,
            At, Goto, Contexts, Clear, ReportLabels, hostVars, registers
<1>1. CASE UsbdIrq        BY <1>1 DEF UsbdIrq
<1>2. CASE UsbEvent       BY <1>2 DEF UsbEvent
<1>3. CASE UsbReset       BY <1>3 DEF UsbReset, Unlocked
<1>4. CASE SetupStatus    BY <1>4 DEF SetupStatus, ep0setup
<1>5. CASE SetupStall \/ SetupIgnored
  BY <1>5 DEF SetupStall, SetupIgnored, ep0setup
<1>6. CASE SetupDescriptor
  BY <1>6 DEF SetupDescriptor, ep0setup, Locked
<1>7. CASE StartEpin0     BY <1>7 DEF StartEpin0
<1>8. CASE AwaitDataDone  BY <1>8 DEF AwaitDataDone
<1>9. CASE DataStageDone  BY <1>9 DEF DataStageDone, Unlocked, StageInv, Conclude
<1>10. CASE EndEpin1      BY <1>10 DEF EndEpin1, Unlocked
<1>11. CASE \/ EventAbsent("usbreset", "USBRESET", "ep0setup")
            \/ EventAbsent("ep0setup", "EP0SETUP", "endepin1")
  BY <1>11 DEF EventAbsent
<1>12. QED
  BY <1>1, <1>2, <1>3, <1>4, <1>5, <1>6, <1>7, <1>8, <1>9, <1>10, <1>11
     DEF USBD_IRQHandler

LEMMA WaitSender ==
  ASSUME ReportContext = "isr", QuietCable, TypeOK, CableInv, WaitInv,
         SendReport \/ usbd_epin_start
  PROVE  WaitInv'
<1> USE DEF TypeOK, WaitInv, WaitsAnswered, LockOwners, Removing, Dropping, Looping, Connected,
            At, Goto, Contexts, Clear, ReportLabels, hostVars, registers
<1>1. CASE SendReport
  BY <1>1 DEF SendReport, AllReady, PowerEvents, CableInv, CableEvents
<1>2. CASE AwaitLock     BY <1>2 DEF AwaitLock
<1>3. CASE SetLock       BY <1>3 DEF SetLock, Locked
<1>4. CASE StartEpin1    BY <1>4 DEF StartEpin1
<1>5. CASE AwaitEndEpin  BY <1>5 DEF AwaitEndEpin, Unlocked
<1>6. QED
  BY <1>1, <1>2, <1>3, <1>4, <1>5 DEF usbd_epin_start

\* With reports sent from handler mode, as in keymap_hid, no handler is caught
\* in one of its waiting loops: each waits for what is there or for what the
\* hardware and the host are about to do, whatever the descriptors and requests.
\* The step from there to an end of the waiting is theirs alone (usbd.c:67-68,
\* 86-87, 301-305, 325-333).
THEOREM WaitsCorrect ==
  ASSUME ReportContext = "isr", QuietCable, PatientHost
  PROVE  Spec => []WaitsAnswered
<1>1. Init => WaitInv
  <2> SUFFICES ASSUME Init PROVE WaitInv
    OBVIOUS
  <2>1. /\ pc["isr"] = "idle" /\ events = {} /\ enable = "off"
        /\ ~usbd_state.transfer_in_progress /\ ~usbd_state.usbd_ready
    BY DEF Init, Contexts
  <2>2. QED
    BY <2>1 DEF WaitInv, WaitsAnswered, Removing, Dropping, Looping, At, ReportLabels
<1>2. TypeOK /\ CableInv /\ StageInv /\ WaitInv /\ [Next]_vars => WaitInv'
  <2>1. ASSUME WaitInv, UNCHANGED vars PROVE WaitInv'
    BY <2>1 DEF WaitInv, WaitsAnswered, Removing, Dropping, Looping, Connected, Response,
                At, vars, driverVars, registers, hostVars
  <2>2. ASSUME TypeOK, CableInv, StageInv, WaitInv, Next PROVE WaitInv'
    BY <2>2, WaitEnvironment, WaitPower, WaitUsbd, WaitSender DEF Next
  <2>3. QED  BY <2>1, <2>2
<1>3. WaitInv => WaitsAnswered
  BY DEF WaitInv
<1>4. QED
  BY <1>1, <1>2, <1>3, TypeCorrect, CableInvariant, StageInvariant, PTL DEF Spec

-----------------------------------------------------------------------------
(* The driver implements ReportPort, from either context.                    *)

\* A report's transfer and its completion event belong to a sender that waits
\* for them, and there is one or the other.
PortInv ==
  /\ 1 \in dma => At(ReportContext, "await_endepin")
  /\ "ENDEPIN1" \in events => At(ReportContext, "await_endepin") /\ 1 \notin dma

LEMMA PortStutter ==
  ASSUME UNCHANGED <<AllReady(usbd_state), PortSender>>
  PROVE  [Port!Next]_Port!vars
BY DEF Port!vars

LEMMA PortEnvironment ==
  ASSUME TypeOK, PortInv, Environment
  PROVE  PortInv' /\ [Port!Next]_Port!vars
<1> USE DEF TypeOK, PortInv, At, Raise, hostVars, driverVars
<1>1. CASE \/ Plug \/ RegulatorSettles \/ PeripheralReady \/ HostReset \/ HostSuspend
           \/ HostReadsPacket \/ \E r \in Requests : HostSetup(r)
  <2>1. /\ UNCHANGED <<usbd_state, pc>>
        /\ "ENDEPIN1" \in events' <=> "ENDEPIN1" \in events
        /\ 1 \in dma' <=> 1 \in dma
    BY <1>1 DEF Plug, RegulatorSettles, PeripheralReady, HostReset, HostSuspend,
                HostReadsPacket, HostSetup
  <2>2. UNCHANGED <<AllReady(usbd_state), PortSender>>
    BY <2>1 DEF AllReady, PortSender
  <2>3. QED  BY <2>1, <2>2, PortStutter
<1>2. CASE Unplug
  <2>1. /\ UNCHANGED <<usbd_state, pc>>
        /\ "ENDEPIN1" \in events' <=> "ENDEPIN1" \in events
        /\ dma' \in {dma, {}}
    BY <1>2 DEF Unplug
  <2>2. UNCHANGED AllReady(usbd_state)
    BY <2>1 DEF AllReady
  <2>3. PortSender' = PortSender \/ (PortSender = "sending" /\ PortSender' = "stuck")
    BY <2>1 DEF PortSender
  <2>4. [Port!Next]_Port!vars
    BY <2>2, <2>3, PortStutter DEF Port!Next, Port!Fail, Port!Step
  <2>5. QED  BY <2>1, <2>4
<1>3. CASE ReportCopied
  <2>1. /\ UNCHANGED <<usbd_state, pc>>
        /\ 1 \in dma /\ 1 \notin dma' /\ "ENDEPIN1" \in events'
    BY <1>3 DEF ReportCopied
  <2>2. UNCHANGED AllReady(usbd_state)
    BY <2>1 DEF AllReady
  <2>3. PortSender = "sending" /\ PortSender' = "sent"
    BY <2>1 DEF PortSender
  <2>4. [Port!Next]_Port!vars
    BY <2>2, <2>3 DEF Port!Next, Port!Copy, Port!Step
  <2>5. QED  BY <2>1, <2>4
<1>4. QED  BY <1>1, <1>2, <1>3 DEF Environment

\* What a step of the interrupt handlers leaves to be shown: it changes the
\* readiness only where a sender in the same context is not sending.
LEMMA PortHandler ==
  ASSUME TypeOK, PortInv,
         NEW l \in Labels \ ReportLabels, pc' = [pc EXCEPT !["isr"] = l],
         pc["isr"] \notin ReportLabels,
         "ENDEPIN1" \in events' => "ENDEPIN1" \in events,
         1 \in dma' <=> 1 \in dma,
         "ENDEPIN1" \in events /\ "ENDEPIN1" \notin events' =>
           UNCHANGED AllReady(usbd_state)
  PROVE  PortInv' /\ [Port!Next]_Port!vars
<1> USE DEF TypeOK, PortInv, At, Contexts, ReportLabels
<1>1. PortInv'
  BY UsbdAssumption
<1>2. CASE ReportContext = "isr"
  <2>1. PortSender = "idle" /\ PortSender' = "idle"
    BY <1>2 DEF PortSender
  <2>2. CASE UNCHANGED AllReady(usbd_state)
    BY <2>1, <2>2, PortStutter
  <2>3. CASE AllReady(usbd_state)' # AllReady(usbd_state)
    <3>1. AllReady(usbd_state) \in BOOLEAN /\ AllReady(usbd_state)' \in BOOLEAN
      BY DEF AllReady
    <3>2. Port!GoUp \/ Port!GoDown
      BY <2>1, <2>3, <3>1 DEF Port!GoUp, Port!GoDown, Port!Interrupts
    <3>3. QED  BY <3>2 DEF Port!Next
  <2>4. QED  BY <2>2, <2>3
<1>3. CASE ReportContext = "thread"
  <2>1. pc'["thread"] = pc["thread"]
    BY <1>3
  <2>2. CASE "ENDEPIN1" \in events /\ "ENDEPIN1" \notin events'
    <3>1. PortSender = "sent" /\ PortSender' = "stuck"
      BY <1>3, <2>1, <2>2 DEF PortSender
    <3>2. Port!Steal
      BY <1>3, <2>2, <3>1 DEF Port!Steal, Port!Step
    <3>3. QED  BY <1>1, <3>2 DEF Port!Next
  <2>3. CASE "ENDEPIN1" \in events' <=> "ENDEPIN1" \in events
    <3>1. PortSender' = PortSender
      BY <1>3, <2>1, <2>3 DEF PortSender
    <3>2. CASE UNCHANGED AllReady(usbd_state)
      BY <3>1, <3>2, PortStutter
    <3>3. CASE AllReady(usbd_state)' # AllReady(usbd_state)
      <4>1. AllReady(usbd_state) \in BOOLEAN /\ AllReady(usbd_state)' \in BOOLEAN
        BY DEF AllReady
      <4>2. Port!GoUp \/ Port!GoDown
        BY <1>3, <3>1, <3>3, <4>1 DEF Port!GoUp, Port!GoDown, Port!Interrupts
      <4>3. QED  BY <4>2 DEF Port!Next
    <3>4. QED  BY <1>1, <3>2, <3>3
  <2>4. QED  BY <2>2, <2>3
<1>4. QED  BY <1>1, <1>2, <1>3, UsbdAssumption

\* A handler's step that moves neither the readiness nor endpoint 1.
LEMMA PortHandlerQuiet ==
  ASSUME TypeOK, PortInv,
         NEW l \in Labels \ ReportLabels, pc' = [pc EXCEPT !["isr"] = l],
         pc["isr"] \notin ReportLabels,
         "ENDEPIN1" \in events' <=> "ENDEPIN1" \in events,
         1 \in dma' <=> 1 \in dma,
         UNCHANGED AllReady(usbd_state)
  PROVE  PortInv' /\ [Port!Next]_Port!vars
BY PortHandler

\* Disabling the peripheral may stop a report that is being copied.
LEMMA PortDisable ==
  ASSUME TypeOK, PortInv, DisableUsbd
  PROVE  PortInv' /\ [Port!Next]_Port!vars
<1> USE DEF TypeOK, PortInv, At, Goto, Contexts
<1>1. /\ pc["isr"] = "await_transfer" /\ pc' = [pc EXCEPT !["isr"] = "drop_pullup"]
      /\ dma' = {} /\ events' = events
      /\ usbd_state' = Disconnected
  BY DEF DisableUsbd
<1>2. ~AllReady(usbd_state)'
  BY <1>1 DEF AllReady, Disconnected
<1>3. AllReady(usbd_state) \in BOOLEAN /\ AllReady(usbd_state)' = FALSE
  BY <1>2 DEF AllReady
<1>4. PortInv'
  BY <1>1, UsbdAssumption
<1>5. CASE 1 \notin dma
  BY <1>1, <1>5, PortHandler, <1>2, <1>4 DEF Labels, PowerLabels, ReportLabels
<1>6. CASE 1 \in dma
  <2>1. ReportContext = "thread" /\ pc'["thread"] = pc["thread"]
    BY <1>1, <1>6, UsbdAssumption
  <2>2. PortSender = "sending" /\ PortSender' = "stuck"
    BY <1>1, <1>6, <2>1 DEF PortSender
  <2>3. Port!SwitchOff
    BY <1>3, <2>1, <2>2 DEF Port!SwitchOff
  <2>4. QED  BY <1>4, <2>3 DEF Port!Next
<1>7. QED  BY <1>5, <1>6

LEMMA PortPower ==
  ASSUME TypeOK, PortInv, PowerIrq \/ POWER_CLOCK_IRQHandler
  PROVE  PortInv' /\ [Port!Next]_Port!vars
<1> USE DEF At, Goto, Clear, Labels, PowerLabels, ReportLabels, registers, AllReady
<1>1. CASE PowerIrq     BY <1>1, PortHandlerQuiet DEF PowerIrq
<1>2. CASE UsbDetected
  <2>1. /\ pc["isr"] = "detected" /\ pc' = [pc EXCEPT !["isr"] = "await_ready"]
        /\ events' = events \ {"USBDETECTED"} /\ dma' = dma
    BY <1>2 DEF UsbDetected
  <2>2. QED  BY <2>1, PortHandler
<1>3. CASE AwaitReady
  <2>1. /\ pc["isr"] = "await_ready" /\ pc' = [pc EXCEPT !["isr"] = "pwrrdy"]
        /\ events' = events \ {"READY"} /\ dma' = dma
    BY <1>3 DEF AwaitReady
  <2>2. QED  BY <2>1, PortHandler
<1>4. CASE UsbPwrRdy
  <2>1. /\ pc["isr"] = "pwrrdy" /\ pc' = [pc EXCEPT !["isr"] = "removed"]
        /\ events' = events \ {"USBPWRRDY"} /\ dma' = dma
    BY <1>4 DEF UsbPwrRdy
  <2>2. QED  BY <2>1, PortHandler
<1>5. CASE UsbRemoved   BY <1>5, PortHandlerQuiet DEF UsbRemoved
<1>6. CASE DisableUsbd  BY <1>6, PortDisable
<1>7. CASE DropPullup   BY <1>7, PortHandlerQuiet DEF DropPullup
<1>8. CASE \/ EventAbsent("detected", "USBDETECTED", "pwrrdy")
           \/ EventAbsent("pwrrdy", "USBPWRRDY", "removed")
           \/ EventAbsent("removed", "USBREMOVED", "idle")
  BY <1>8, PortHandlerQuiet DEF EventAbsent
<1>9. QED
  BY <1>1, <1>2, <1>3, <1>4, <1>5, <1>6, <1>7, <1>8 DEF POWER_CLOCK_IRQHandler

LEMMA PortUsbd ==
  ASSUME TypeOK, PortInv, UsbdIrq \/ USBD_IRQHandler
  PROVE  PortInv' /\ [Port!Next]_Port!vars
<1> USE DEF At, Goto, Clear, Labels, UsbdLabels, ReportLabels, registers
<1>1. CASE UsbdIrq        BY <1>1, PortHandlerQuiet DEF UsbdIrq, AllReady
<1>2. CASE UsbEvent       BY <1>2, PortHandlerQuiet DEF UsbEvent, AllReady
<1>3. CASE UsbReset
  <2>1. UNCHANGED AllReady(usbd_state)
    BY <1>3 DEF UsbReset, Unlocked, AllReady, TypeOK
  <2>2. QED               BY <1>3, <2>1, PortHandlerQuiet DEF UsbReset
<1>4. CASE SetupStatus \/ SetupStall \/ SetupIgnored
  <2>1. UNCHANGED AllReady(usbd_state)
    BY <1>4 DEF SetupStatus, SetupStall, SetupIgnored, AllReady, TypeOK
  <2>2. QED
    BY <1>4, <2>1, PortHandlerQuiet DEF SetupStatus, SetupStall, SetupIgnored, ep0setup
<1>5. CASE SetupDescriptor
  <2>1. UNCHANGED AllReady(usbd_state)
    BY <1>5 DEF SetupDescriptor, Locked, AllReady, TypeOK
  <2>2. QED               BY <1>5, <2>1, PortHandlerQuiet DEF SetupDescriptor, ep0setup
<1>6. CASE StartEpin0
  <2>1. /\ pc["isr"] = "ep0_packet" /\ pc' = [pc EXCEPT !["isr"] = "await_datadone"]
        /\ usbd_state' = usbd_state /\ events' = events \ {"EP0DATADONE"}
        /\ 1 \in dma' <=> 1 \in dma
    BY <1>6 DEF StartEpin0
  <2>2. QED               BY <2>1, PortHandlerQuiet DEF AllReady
<1>7. CASE AwaitDataDone  BY <1>7, PortHandlerQuiet DEF AwaitDataDone, AllReady
<1>8. CASE DataStageDone
  <2>1. UNCHANGED AllReady(usbd_state)
    BY <1>8 DEF DataStageDone, Unlocked, AllReady, TypeOK
  <2>2. QED               BY <1>8, <2>1, PortHandlerQuiet DEF DataStageDone
<1>9. CASE EndEpin1
  <2>1. UNCHANGED AllReady(usbd_state)
    BY <1>9 DEF EndEpin1, Unlocked, AllReady, TypeOK
  <2>2. QED               BY <1>9, <2>1, PortHandler DEF EndEpin1
<1>10. CASE \/ EventAbsent("usbreset", "USBRESET", "ep0setup")
            \/ EventAbsent("ep0setup", "EP0SETUP", "endepin1")
  BY <1>10, PortHandlerQuiet DEF EventAbsent, AllReady
<1>11. QED
  BY <1>1, <1>2, <1>3, <1>4, <1>5, <1>6, <1>7, <1>8, <1>9, <1>10 DEF USBD_IRQHandler

LEMMA PortReport ==
  ASSUME TypeOK, PortInv, SendReport \/ usbd_epin_start
  PROVE  PortInv' /\ [Port!Next]_Port!vars
<1> USE UsbdAssumption DEF TypeOK, PortInv, At, Goto, Contexts, AllReady, registers
<1>1. CASE SendReport
  <2>1. /\ AllReady(usbd_state) /\ usbd_state' = usbd_state
        /\ PortSender = "idle" /\ PortSender' = "waiting"
    BY <1>1 DEF SendReport, PortSender
  <2>2. Port!Begin
    BY <2>1 DEF Port!Begin, Port!Step
  <2>3. QED  BY <1>1, <2>2 DEF SendReport, Port!Next
<1>2. CASE AwaitLock
  <2>1. UNCHANGED <<AllReady(usbd_state), PortSender>>
    BY <1>2 DEF AwaitLock, PortSender
  <2>2. QED  BY <1>2, <2>1, PortStutter DEF AwaitLock
<1>3. CASE SetLock
  <2>1. UNCHANGED <<AllReady(usbd_state), PortSender>>
    BY <1>3 DEF SetLock, PortSender, Locked
  <2>2. QED  BY <1>3, <2>1, PortStutter DEF SetLock
<1>4. CASE StartEpin1
  <2>1. /\ UNCHANGED AllReady(usbd_state)
        /\ PortSender = "waiting" /\ PortSender' \in {"sending", "stuck"}
    BY <1>4 DEF StartEpin1, PortSender
  <2>2. Port!Start \/ Port!Fail
    BY <2>1 DEF Port!Start, Port!Fail, Port!Step
  <2>3. QED  BY <1>4, <2>2 DEF StartEpin1, Port!Next
<1>5. CASE AwaitEndEpin
  <2>1. /\ UNCHANGED AllReady(usbd_state)
        /\ PortSender = "sent" /\ PortSender' = "idle"
    BY <1>5 DEF AwaitEndEpin, PortSender, Unlocked
  <2>2. Port!Return
    BY <2>1 DEF Port!Return, Port!Step
  <2>3. QED  BY <1>5, <2>2 DEF AwaitEndEpin, Clear, Port!Next
<1>6. QED
  BY <1>1, <1>2, <1>3, <1>4, <1>5 DEF usbd_epin_start

LEMMA PortStep ==
  ASSUME TypeOK, PortInv, [Next]_vars
  PROVE  PortInv' /\ [Port!Next]_Port!vars
<1>1. CASE Next
  BY <1>1, PortEnvironment, PortPower, PortUsbd, PortReport DEF Next
<1>2. CASE UNCHANGED vars
  <2>1. PortInv' /\ UNCHANGED <<AllReady(usbd_state), PortSender>>
    BY <1>2 DEF PortInv, AllReady, PortSender, At, vars, driverVars, registers
  <2>2. QED  BY <2>1, PortStutter
<1>3. QED  BY <1>1, <1>2

LEMMA PortInvariant == Spec => []PortInv
<1>1. Init => PortInv
  BY UsbdAssumption DEF Init, PortInv
<1>2. TypeOK /\ PortInv /\ [Next]_vars => PortInv'
  BY PortStep
<1>3. QED  BY <1>1, <1>2, TypeCorrect, PTL DEF Spec

\* The report's sender, from either context, against any host and cable: a
\* report that was let through is copied before its call returns, once, and
\* ReportPort names all the ways in which a call never returns
\* (usbd.c:284-333, usb_hid.c:188-227).
THEOREM PortCorrect == Spec => PortSpec
<1>1. Init => Port!Init
  BY UsbdAssumption DEF Init, Port!Init, PortSender, AllReady, At, Contexts
<1>2. TypeOK /\ PortInv /\ [Next]_vars => [Port!Next]_Port!vars
  BY PortStep
<1>3. QED  BY <1>1, <1>2, PortInvariant, TypeCorrect, PTL DEF Spec, PortSpec, Port!Spec
=============================================================================
