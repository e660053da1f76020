------------------------------ MODULE RadioLink ------------------------------
(* What the ARQ protocol of src/protocol/radio_arq.c promises its two users,
   without radios, timers or acknowledgements.  A node's call of
   radio_arq_send has the link carry its message to the dongle at most
   MaxCopies times while the call lasts, never later and never changed; the
   dongle's radio_arq_receive hands its caller every message it was carried,
   in order, and zeros when it was carried none.  Nothing is promised about
   how often: a message may be carried zero times, or more than once. *)
EXTENDS Naturals

CONSTANTS Messages,   \* payloads a caller sends
          Blank,      \* the payload of a cleared packet: all zeros
          Silent,     \* no message: neither in Messages nor Blank
          MaxCopies   \* transmissions of one call

VARIABLES call,     \* message of the keyboard's call, or Silent
          copies,   \* times the call's message was carried
          held,     \* message carried to the dongle and not yet handed over
          report    \* what the dongle's caller was last given

vars == <<call, copies, held, report>>

Init == /\ call = Silent
        /\ copies = 0
        /\ held = Silent
        /\ report = Blank

Call == /\ call = Silent
        /\ call' \in Messages
        /\ copies' = 0
        /\ UNCHANGED <<held, report>>

Carry == /\ call # Silent
         /\ copies < MaxCopies
         /\ held = Silent
         /\ held' = call
         /\ copies' = copies + 1
         /\ UNCHANGED <<call, report>>

Return == /\ call # Silent
          /\ call' = Silent
          /\ UNCHANGED <<copies, held, report>>

HandOver == /\ held # Silent
            /\ report' = held
            /\ held' = Silent
            /\ UNCHANGED <<call, copies>>

HandBlank == /\ held = Silent
             /\ report' = Blank
             /\ UNCHANGED <<call, copies, held>>

Next == Call \/ Carry \/ Return \/ HandOver \/ HandBlank

Spec == Init /\ [][Next]_vars
==============================================================================
