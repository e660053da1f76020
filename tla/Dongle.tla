------------------------------- MODULE Dongle -------------------------------
(***************************************************************************)
(* The dongle (src/examples/radio_arq_hid.c with RADIO_RX): the main loop  *)
(* hands every report that radio_arq_receive returns to hid_send_report    *)
(* (src/protocol/usb_hid.c), which fills the keyboard's and the mouse's    *)
(* report from the four switches and sends one of them.  Both go through   *)
(* endpoint 1, which the host polls.                                       *)
(*                                                                         *)
(* The driver and the host's control transfers are Usbd, with reports sent *)
(* from the main loop.  What the radio hands over is any of Messages: a    *)
(* message or, after a failed reception, zeros (RadioLink).  Of the mouse  *)
(* report only its being sent matters here.                                *)
(***************************************************************************)
EXTENDS Usbd, Sequences

CONSTANT Messages    \* what radio_arq_receive may return: sets of switches

ASSUME DongleAssumption ==
  ReportContext = "thread" /\ Messages \subseteq SUBSET (0 .. 3)

VARIABLES
  keys,       \* hid_report_keyboard: the switches whose codes it contains
  sending,    \* the report given to usbd_epin_start: "keyboard" or "mouse"
  endpoint,   \* the report the host will read from endpoint 1, if there is one
  host,       \* the keys the host last read
  missed      \* the last keyboard report was overwritten before it was read

hidVars    == <<keys, sending, endpoint, host, missed>>
hostView   == <<endpoint, host, missed>>
dongleVars == <<vars, hidVars>>

DongleInit ==
  /\ Init
  /\ keys = {} /\ sending = "mouse"
  /\ endpoint = <<>> /\ host = {} /\ missed = FALSE

-----------------------------------------------------------------------------
(* Faulty variants of definitions below, one plausible slip each.  No      *)
(* behaviour uses them: each is put in the place of the definition it is   *)
(* named after to see that a property notices.                             *)

KeyboardChangedFaulty(switches) ==        \* the release of a key is no change
  switches \cap {2, 3} # {}

-----------------------------------------------------------------------------
(* hid_send_report.  The change is looked for before the keys are stored,  *)
(* so that the report that clears them is sent; current_switches is        *)
(* written and never read.                                                 *)

KeyboardChanged(switches) == switches \cap {2, 3} # {} \/ keys # {}

hid_send_report(switches) ==
  /\ SendReport
  /\ keys' = switches \cap {2, 3}
  /\ sending' = IF KeyboardChanged(switches) THEN "keyboard" ELSE "mouse"
  /\ UNCHANGED hostView

\* Without a host there is nothing to do, and nothing changes.
Transfer ==
  /\ usbd_epin_start
  /\ UNCHANGED hidVars

-----------------------------------------------------------------------------
(* The host and the endpoint's buffer (external).                          *)

\* The host forgets what it has read when it loses or resets the device.
Forget == endpoint' = <<>> /\ host' = {} /\ missed' = FALSE

View == IF attached /\ ~attached' THEN Forget ELSE UNCHANGED hostView

Interrupt ==
  /\ PowerIrq \/ POWER_CLOCK_IRQHandler \/ UsbdIrq \/ USBD_IRQHandler
  /\ View
  /\ UNCHANGED <<keys, sending>>

World ==
  /\ \/ Plug \/ Unplug \/ RegulatorSettles \/ PeripheralReady
     \/ (\E r \in Requests : HostSetup(r)) \/ HostSuspend \/ HostReadsPacket
  /\ View
  /\ UNCHANGED <<keys, sending>>

Reset ==
  /\ HostReset
  /\ Forget
  /\ UNCHANGED <<keys, sending>>

Offers(r) == endpoint # <<>> /\ Head(endpoint).is = r

\* A report the host has not read yet is overwritten.
Copied ==
  /\ ReportCopied
  /\ endpoint' = <<[is |-> sending, keys |-> keys]>>
  /\ missed' = (sending = "mouse" /\ (missed \/ Offers("keyboard")))
  /\ UNCHANGED <<keys, sending, host>>

HostPolls ==
  /\ attached /\ endpoint # <<>>
  /\ endpoint' = <<>>
  /\ host' = IF Offers("keyboard") THEN Head(endpoint).keys ELSE host
  /\ UNCHANGED <<vars, keys, sending, missed>>

DongleNext ==
  \/ \E switches \in Messages : hid_send_report(switches)
  \/ Transfer \/ Interrupt
  \/ World \/ Reset \/ Copied \/ HostPolls

DongleSpec == DongleInit /\ [][DongleNext]_dongleVars

DongleFairSpec == DongleSpec /\ Fairness

-----------------------------------------------------------------------------
(* Properties                                                              *)

\* Once the main loop is back at the radio and the host has read what the
\* endpoint offers, the host shows no key that the last report did not
\* contain, unless a mouse report took the place of the keyboard report
\* (usb_hid.c:185-219).
DongleSound ==
  At("thread", "idle") /\ endpoint = <<>> /\ ~missed => host \subseteq keys

\* While interrupts leave the main loop time, hid_send_report returns to the
\* radio, unless the cable goes or an interrupt takes the event it waits for:
\* as long as it does not, nothing is received.
LoopReturns ==
  []<>Runs("thread") =>
    (pc["thread"] \in ReportLabels ~>
       (At("thread", "idle") \/ PortSender = "stuck" \/ ~vbus))
=============================================================================
