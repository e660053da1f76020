----------------------------- MODULE DongleProofs -----------------------------
(* Proofs about Dongle, for every set of messages the radio may hand over, *)
(* any host and any cable: the composition runs the driver as Usbd has it, *)
(* and leaves the host with no key that is not in the last report.         *)
EXTENDS Dongle, UsbdProofs

LEMMA DriverStep ==
  ASSUME [DongleNext]_dongleVars
  PROVE  [Next]_vars
<1>1. CASE DongleNext
  BY <1>1 DEF DongleNext, hid_send_report, Transfer, Interrupt, World, Reset, Copied,
              HostPolls, Next, Environment
<1>2. CASE UNCHANGED dongleVars
  BY <1>2 DEF dongleVars
<1>3. QED  BY <1>1, <1>2

LEMMA DriverRuns == DongleSpec => Spec
<1>1. DongleInit => Init
  BY DEF DongleInit
<1>2. [DongleNext]_dongleVars => [Next]_vars
  BY DriverStep
<1>3. QED  BY <1>1, <1>2, PTL DEF DongleSpec, Spec

\* The driver under the dongle's main loop, which interrupts preempt, keeps the
\* promise of ReportPort (usbd.c:284-333, radio_arq_hid.c:37-41).
THEOREM DonglePortCorrect == DongleSpec => PortSpec
BY DriverRuns, PortCorrect, PTL

-----------------------------------------------------------------------------
(* What the host will have read once it has polled.                        *)

Pending == IF Offers("keyboard") THEN Head(endpoint).keys ELSE host

\* A keyboard report is in a call and has not been copied.
Uncopied == sending = "keyboard" /\ PortSender \in {"waiting", "sending", "stuck"}

ViewInv ==
  /\ endpoint = <<>> \/ \E r \in {"keyboard", "mouse"}, s \in SUBSET (0 .. 3) :
                           endpoint = <<[is |-> r, keys |-> s]>>
  /\ keys \subseteq 0 .. 3
  /\ sending \in {"keyboard", "mouse"}
  /\ missed \/ Pending \subseteq keys \/ Uncopied

\* Interrupts, cable and host leave the main loop where it is, and none of
\* them completes a report.
LEMMA OthersStep ==
  ASSUME TypeOK, Interrupt \/ World \/ Reset
  PROVE  /\ pc'["thread"] = pc["thread"]
         /\ "ENDEPIN1" \in events' => "ENDEPIN1" \in events
<1> USE DEF TypeOK, Goto, Clear, Raise, registers, driverVars, Contexts
<1>1. CASE PowerIrq \/ POWER_CLOCK_IRQHandler
  BY <1>1 DEF PowerIrq, POWER_CLOCK_IRQHandler, EventAbsent, UsbDetected, AwaitReady,
              UsbPwrRdy, UsbRemoved, DisableUsbd, DropPullup
<1>2. CASE UsbdIrq \/ USBD_IRQHandler
  BY <1>2 DEF UsbdIrq, USBD_IRQHandler, EventAbsent, UsbEvent, UsbReset, SetupStatus,
              SetupStall, SetupIgnored, SetupDescriptor, ep0setup, StartEpin0, AwaitDataDone,
              DataStageDone, EndEpin1
<1>3. CASE World \/ Reset
  BY <1>3 DEF World, Reset, Plug, Unplug, RegulatorSettles, PeripheralReady, HostReset,
              HostSetup, HostSuspend, HostReadsPacket
<1>4. QED  BY <1>1, <1>2, <1>3 DEF Interrupt

LEMMA UncopiedKept ==
  ASSUME TypeOK, Interrupt \/ World \/ Reset, Uncopied
  PROVE  Uncopied'
<1>1. /\ pc'["thread"] = pc["thread"]
      /\ "ENDEPIN1" \in events' => "ENDEPIN1" \in events
      /\ sending' = sending
  BY OthersStep DEF Interrupt, World, Reset
<1>2. QED  BY <1>1, DongleAssumption DEF Uncopied, PortSender, At

LEMMA ForgetView ==
  ASSUME ViewInv, Forget, UNCHANGED <<keys, sending>>
  PROVE  ViewInv'
BY DEF ViewInv, Forget, Pending, Offers

LEMMA OthersView ==
  ASSUME TypeOK, ViewInv, Interrupt \/ World \/ Reset
  PROVE  ViewInv'
<1>1. UNCHANGED <<keys, sending>> /\ (Forget \/ UNCHANGED hostView)
  BY DEF Interrupt, World, Reset, View
<1>2. CASE Forget
  BY <1>1, <1>2, ForgetView
<1>3. CASE UNCHANGED hostView
  <2>1. UNCHANGED Pending
    BY <1>3 DEF hostView, Pending, Offers
  <2>2. QED  BY <1>1, <1>3, <2>1, UncopiedKept DEF ViewInv, hostView
<1>4. QED  BY <1>1, <1>2, <1>3

LEMMA PortBegins ==
  ASSUME TypeOK, SendReport
  PROVE  pc[ReportContext] = "idle" /\ PortSender' = "waiting"
BY UsbdAssumption DEF TypeOK, Contexts, SendReport, PortSender, At, Goto

LEMMA SendView ==
  ASSUME TypeOK, ViewInv, NEW switches \in Messages, hid_send_report(switches)
  PROVE  ViewInv'
<1>1. /\ pc[ReportContext] = "idle" /\ PortSender' = "waiting"
      /\ keys' = switches \cap {2, 3}
      /\ sending' = IF KeyboardChanged(switches) THEN "keyboard" ELSE "mouse"
      /\ UNCHANGED hostView
  BY PortBegins DEF hid_send_report
<1>2. PortSender = "idle"
  BY <1>1 DEF PortSender, At
<1>3. UNCHANGED Pending
  BY <1>1 DEF hostView, Pending, Offers
<1>4. keys' \subseteq 0 .. 3
  BY <1>1
<1>5. CASE KeyboardChanged(switches)
  BY <1>1, <1>4, <1>5 DEF ViewInv, hostView, Uncopied
<1>6. CASE ~KeyboardChanged(switches)
  <2>1. keys = {} /\ keys' = {}
    BY <1>1, <1>6 DEF KeyboardChanged
  <2>2. missed \/ Pending \subseteq {}
    BY <1>2, <2>1 DEF ViewInv, Uncopied
  <2>3. QED  BY <1>1, <1>3, <1>6, <2>1, <2>2 DEF ViewInv, hostView
<1>7. QED  BY <1>5, <1>6

LEMMA TransferView ==
  ASSUME TypeOK, PortInv, ViewInv, Transfer
  PROVE  ViewInv'
<1>1. UNCHANGED hidVars
  BY DEF Transfer
<1>2. \/ PortSender = "waiting" /\ PortSender' \in {"waiting", "sending", "stuck"}
      \/ PortSender = "sent"
  <2> USE UsbdAssumption DEF TypeOK, PortInv, At, Goto, Contexts, registers, PortSender
  <2>1. CASE AwaitLock     BY <2>1 DEF AwaitLock
  <2>2. CASE SetLock       BY <2>2 DEF SetLock
  <2>3. CASE StartEpin1    BY <2>3 DEF StartEpin1
  <2>4. CASE AwaitEndEpin  BY <2>4 DEF AwaitEndEpin
  <2>5. QED  BY <2>1, <2>2, <2>3, <2>4 DEF Transfer, usbd_epin_start
<1>3. Uncopied => Uncopied'
  BY <1>1, <1>2 DEF Uncopied, hidVars
<1>4. QED  BY <1>1, <1>3 DEF ViewInv, hidVars, Pending, Offers

LEMMA CopiedView ==
  ASSUME ViewInv, Copied
  PROVE  ViewInv'
<1>1. /\ endpoint' = <<[is |-> sending, keys |-> keys]>>
      /\ missed' = (sending = "mouse" /\ (missed \/ Offers("keyboard")))
      /\ UNCHANGED <<keys, sending, host>>
  BY DEF Copied
<1>2. Pending' = IF sending = "keyboard" THEN keys ELSE host
  BY <1>1 DEF Pending, Offers
<1>3. CASE sending = "keyboard"
  BY <1>1, <1>2, <1>3 DEF ViewInv
<1>4. CASE sending = "mouse"
  BY <1>1, <1>2, <1>4 DEF ViewInv, Uncopied, Pending
<1>5. QED  BY <1>3, <1>4 DEF ViewInv

LEMMA PollView ==
  ASSUME ViewInv, HostPolls
  PROVE  ViewInv'
<1>1. /\ endpoint' = <<>>
      /\ host' = Pending
      /\ UNCHANGED <<vars, keys, sending, missed>>
  BY DEF HostPolls, Pending
<1>2. Pending' = Pending
  BY <1>1 DEF Pending, Offers
<1>3. UNCHANGED PortSender
  BY <1>1 DEF vars, driverVars, registers, PortSender, At
<1>4. QED  BY <1>1, <1>2, <1>3 DEF ViewInv, Uncopied

LEMMA ViewStep ==
  ASSUME TypeOK, PortInv, ViewInv, [DongleNext]_dongleVars
  PROVE  ViewInv'
<1>1. CASE UNCHANGED dongleVars
  BY <1>1 DEF dongleVars, hidVars, vars, driverVars, registers, ViewInv, Uncopied, Pending,
              Offers, PortSender, At
<1>2. QED  BY <1>1, OthersView, SendView, TransferView, CopiedView, PollView DEF DongleNext

\* Once the main loop is back at the radio and the host has read what the
\* endpoint offers, the host shows no key that was not in the last report, or
\* a mouse report took the keyboard report's place (usb_hid.c:185-219).
THEOREM DongleSoundCorrect == DongleSpec => []DongleSound
<1>1. DongleInit => ViewInv
  BY DEF DongleInit, ViewInv, Pending, Offers
<1>2. ViewInv => DongleSound
  <2>1. ASSUME ViewInv, At("thread", "idle"), endpoint = <<>>, ~missed
        PROVE  host \subseteq keys
    <3>1. PortSender = "idle"
      BY <2>1, DongleAssumption DEF PortSender, At
    <3>2. Pending = host
      BY <2>1 DEF Pending, Offers
    <3>3. QED  BY <2>1, <3>1, <3>2 DEF ViewInv, Uncopied
  <2>2. QED  BY <2>1 DEF DongleSound
<1>3. TypeOK /\ PortInv /\ ViewInv /\ [DongleNext]_dongleVars => ViewInv'
  BY ViewStep
<1>4. QED
  BY <1>1, <1>2, <1>3, DriverRuns, TypeCorrect, PortInvariant, PTL DEF DongleSpec
=============================================================================
