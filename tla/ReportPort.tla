----------------------------- MODULE ReportPort -----------------------------
(* What the USB driver promises to the code that sends reports: a call of
   hid_send_report or hid_send_kb_report is refused while the device is not
   ready; one that was let through returns only after its report was copied to
   the endpoint, once.  It never returns when the peripheral was switched off
   before the copy, or, where an interrupt can run between the copy and the
   return, when that interrupt takes the completion event first. *)

CONSTANT Preempted    \* interrupts run while a report is being sent

VARIABLES ready,      \* usbd_ready, vbus_detected and usb_power_ready
          sender      \* where the call is

vars == <<ready, sender>>

Places == {"idle",      \* no call, or refused
           "waiting",   \* for the transfer in progress
           "sending",   \* the peripheral copies the report
           "sent",      \* it has, and the call has yet to notice
           "stuck"}     \* it never will

Init == ready = FALSE /\ sender = "idle"

\* The device comes up and goes down in interrupts.
Interrupts == Preempted \/ sender = "idle"
GoUp   == Interrupts /\ ~ready /\ ready' = TRUE /\ UNCHANGED sender
GoDown == Interrupts /\ ready /\ ready' = FALSE /\ UNCHANGED sender

Step(from, to) == sender = from /\ sender' = to /\ UNCHANGED ready

Begin  == ready /\ Step("idle", "waiting")
Start  == Step("waiting", "sending")
Copy   == Step("sending", "sent")
Return == Step("sent", "idle")

Fail   == \/ Step("waiting", "stuck")
          \/ Step("sending", "stuck")
SwitchOff == /\ Preempted /\ sender = "sending" /\ sender' = "stuck"
             /\ ready' = FALSE
Steal  == Preempted /\ Step("sent", "stuck")

Next == GoUp \/ GoDown \/ Begin \/ Start \/ Copy \/ Return \/ Fail \/ SwitchOff \/ Steal

Spec == Init /\ [][Next]_vars
=============================================================================
