------------------------------- MODULE RadioArq -------------------------------
(* The stop-and-wait protocol of src/protocol/radio_arq.c over the driver
   src/drivers/radio.c and its timeouts in src/drivers/timer.c, as
   src/examples/radio_arq_hid.c runs it on two boards.  On both boards the
   keyscan interrupt calls radio_arq_send with the state of the switches; the
   main loop of the dongle calls radio_arq_receive and passes what it got to
   the host.  The main loop of the keyboard sleeps.

   A board's handler preempts its main loop and runs to completion; the two
   boards, the air and the timers interleave freely.  The medium may lose or
   corrupt any packet, and loses what its peer does not listen for. *)
EXTENDS Integers

CONSTANTS Switches,   \* [node -> non-zero states of its switches, the payloads]
          MaxCalls    \* [node -> bound on its key events]

Nodes == {"keyboard", "dongle"}
Blank == 0            \* the data of the cleared packet of radio_arq_receive

ASSUME RadioAssumption == /\ Switches \in [Nodes -> SUBSET (Nat \ {Blank})]
                          /\ MaxCalls \in [Nodes -> Nat]

Peer(n) == IF n = "keyboard" THEN "dongle" ELSE "keyboard"

RetriesFaulty == 4   \* a mutant: one transmission too many
Retries == 3

\* ---- Packets -----------------------------------------------------------------
(* type and first payload byte of arq_packet_t and arq_status_packet_t: the
   part of either that the other side reads *)
Message(m) == [type |-> "message", value |-> m]
Ack  == [type |-> "status", value |-> 1]
Nack == [type |-> "status", value |-> 0]
None == [type |-> "none", value |-> 0]    \* status before anything was copied
Messages == UNION {Switches[n] : n \in Nodes}
Packets == {Message(m) : m \in Messages} \cup {Ack, Nack}

Nothing == [type |-> "nothing", value |-> 0]  \* no END event: status 3
Bad     == [type |-> "bad", value |-> 0]      \* END event, CRC wrong: status 1

VARIABLES
  isr,       \* [node -> where its keyscan interrupt is in radio_arq_send]
  retries,   \* [node -> attempts radio_arq_send has left]
  packet,    \* [node -> packet of its call of radio_arq_send]
  status,    \* [node -> last packet radio_arq_send copied to its status]
  main,      \* where the dongle's main loop is in radio_arq_receive
  report,    \* the dongle's report, the destination of radio_arq_receive
  busy,      \* [node -> radio_arq_busy]
  radio,     \* [node -> "off" when not radio_busy, else "tx", "rx" or, with
             \*  EVENTS_END set, "end"]
  heard,     \* [node -> what its receive has brought]
  timer,     \* [node -> its radio timer: "off", "counting" or, with
             \*  EVENTS_COMPARE[0] set, "expired"]
  calls,     \* [node -> key events so far]
  copies,    \* history: times the dongle received the keyboard's current call
  unheard,   \* history: an ACK of the keyboard's call missed the keyboard
  stale      \* history: the call began with an older call's ACK to come

arqVars   == <<isr, retries, packet, status, main, report, busy>>
radioVars == <<radio, heard>>
history   == <<copies, unheard, stale>>
vars == <<arqVars, radioVars, timer, calls, history>>

Init == /\ isr = [n \in Nodes |-> "idle"]
        /\ retries = [n \in Nodes |-> 0]
        /\ packet = [n \in Nodes |-> None]
        /\ status = [n \in Nodes |-> None]
        /\ main = "loop"
        /\ report = Blank
        /\ busy = [n \in Nodes |-> FALSE]
        /\ radio = [n \in Nodes |-> "off"]
        /\ heard = [n \in Nodes |-> Nothing]
        /\ timer = [n \in Nodes |-> "off"]
        /\ calls = [n \in Nodes |-> 0]
        /\ copies = 0
        /\ unheard = FALSE
        /\ stale = FALSE

\* ---- Faulty variants, for the mutants of PROJECT.json ---------------------------
MayCallFaulty(n) == TRUE
AcknowledgedFaulty(p) == p.type = "status" /\ p.value # 1
AnswerFaulty(p) == IF p = Nothing THEN Nack ELSE Ack
SpentFaulty(r) == r
LeaveFaulty(n) == UNCHANGED busy

\* ---- radio.c and timer.c ---------------------------------------------------------
(* timer_start_timeout(timer_id_radio, us) with us > 0; timeout_expired itself
   is set only where the wait that reads it ends, so it is no variable here *)
StartTimeout(n) == timer' = [timer EXCEPT ![n] = "counting"]

\* with us = 0: the timer is stopped and its event left as it is
StartInfinite(n) ==
    timer' = [timer EXCEPT ![n] = IF @ = "counting" THEN "off" ELSE @]

\* radio_send up to its wait
Transmit(n) == /\ radio' = [radio EXCEPT ![n] = "tx"]
               /\ StartTimeout(n)
               /\ UNCHANGED heard

\* radio_receive_timeout up to its wait; its caller's argument starts the timer
Listen(n) == /\ radio' = [radio EXCEPT ![n] = "rx"]
             /\ heard' = [heard EXCEPT ![n] = Nothing]

\* the condition on which either wait of radio.c ends
Expired(n) == timer[n] = "expired"
WaitOver(n) == radio[n] = "end" \/ Expired(n)

(* the end of either wait: timer_has_timeout_expired takes the event and stops
   the timer, which counts on when EVENTS_END alone ended the wait *)
EndWait(n) == /\ WaitOver(n)
              /\ radio' = [radio EXCEPT ![n] = "off"]
              /\ timer' = [timer EXCEPT ![n] = IF @ = "expired" THEN "off" ELSE @]

\* ---- The medium and the timers -----------------------------------------------------
(* The dongle received the message `heard` and its ACK is still to come *)
Carried == /\ main \in {"listen", "answer", "answering"}
           /\ heard["dongle"].type = "message"
AckToCome == Carried /\ ~(main = "answering" /\ radio["dongle"] = "end")

\* arq_ack on status 0, else arq_nack
Answer(p) == IF p \in {Bad, Nothing} THEN Nack ELSE Ack

\* tx_packet: what n transmits, in its handler or its main loop
OnAir(n) == IF isr[n] = "idle" THEN Answer(heard[n]) ELSE packet[n]

(* n's packet is sent, and ends there with EVENTS_END; the peer, if it listens,
   gets what of it arrives: the packet, an END with a wrong CRC, or nothing *)
Air(n) ==
    /\ radio[n] = "tx"
    /\ \E got \in {OnAir(n), Bad, Nothing} :
         LET missed == OnAir(n) = Ack /\ got # Ack
         IN /\ radio[Peer(n)] # "rx" => got = Nothing
            /\ radio' = [radio EXCEPT ![n] = "end",
                                      ![Peer(n)] = IF got = Nothing THEN @ ELSE "end"]
            /\ heard' = IF got = Nothing THEN heard
                        ELSE [heard EXCEPT ![Peer(n)] = got]
            /\ copies' = IF n = "keyboard" /\ got = OnAir(n) /\ main = "listen"
                         THEN copies + 1 ELSE copies
            /\ unheard' = (unheard \/ missed)
            /\ stale' = (stale /\ ~missed)
    /\ UNCHANGED <<arqVars, timer, calls>>

Expire(n) == /\ timer[n] = "counting"
             /\ timer' = [timer EXCEPT ![n] = "expired"]
             /\ UNCHANGED <<arqVars, radioVars, calls, history>>

\* ---- radio_arq_send, in the keyscan interrupt -----------------------------------------
MayCall(n) == ~busy[n]
Spent(r) == r - 1
Acknowledged(p) == p.type = "status" /\ p.value = 1

\* the handler's last assignment to radio_arq_busy
Leave(n) == busy' = [busy EXCEPT ![n] = FALSE]

Call(n) == /\ isr[n] = "idle"
           /\ calls[n] < MaxCalls[n]
           /\ calls' = [calls EXCEPT ![n] = @ + 1]
           /\ MayCall(n)
           /\ busy' = [busy EXCEPT ![n] = TRUE]
           /\ \E m \in Switches[n] : packet' = [packet EXCEPT ![n] = Message(m)]
           /\ status' = [status EXCEPT ![n] = None]
           /\ retries' = [retries EXCEPT ![n] = Retries]
           /\ isr' = [isr EXCEPT ![n] = "attempt"]
           /\ IF n = "keyboard"
              THEN copies' = 0 /\ unheard' = FALSE /\ stale' = AckToCome
              ELSE UNCHANGED history
           /\ UNCHANGED <<main, report, radioVars, timer>>

\* radio_arq_busy: the event's message is not sent
Drop(n) == /\ isr[n] = "idle"
           /\ calls[n] < MaxCalls[n]
           /\ calls' = [calls EXCEPT ![n] = @ + 1]
           /\ ~MayCall(n)
           /\ UNCHANGED <<arqVars, radioVars, timer, history>>

Attempt(n) == /\ isr[n] = "attempt"
              /\ Transmit(n)
              /\ isr' = [isr EXCEPT ![n] = "sending"]
              /\ UNCHANGED <<retries, packet, status, main, report, busy, calls, history>>

(* radio_send returns and radio_receive_timeout begins: the timer is stopped
   and started again in between *)
Sent(n) == /\ isr[n] = "sending"
           /\ WaitOver(n)
           /\ Listen(n)
           /\ StartTimeout(n)
           /\ isr' = [isr EXCEPT ![n] = "waiting"]
           /\ UNCHANGED <<retries, packet, status, main, report, busy, calls, history>>

Answered(n) ==
    /\ isr[n] = "waiting"
    /\ EndWait(n)
    /\ LET s == IF heard[n] \in {Bad, Nothing} THEN status[n] ELSE heard[n]
           left == Spent(retries[n])
           over == Acknowledged(s) \/ left = 0
       IN /\ status' = [status EXCEPT ![n] = IF over THEN None ELSE s]
          /\ retries' = [retries EXCEPT ![n] = IF over THEN 0 ELSE left]
          /\ packet' = [packet EXCEPT ![n] = IF over THEN None ELSE @]
          /\ heard' = [heard EXCEPT ![n] = Nothing]
          /\ isr' = [isr EXCEPT ![n] = IF over THEN "idle" ELSE "attempt"]
          /\ IF over THEN Leave(n) ELSE UNCHANGED busy
          /\ unheard' = (unheard \/ (n = "keyboard" /\ ~Acknowledged(s) /\ AckToCome))
    /\ UNCHANGED <<main, report, calls, copies, stale>>

\* ---- The dongle's main loop ---------------------------------------------------------------
\* packet.data, still cleared unless radio_receive copied to it
Delivered(p) == IF p \in {Bad, Nothing} THEN Blank ELSE p.value

MainRuns(pc) == main = pc /\ isr["dongle"] = "idle"

(* the test of radio_arq_busy: radio_arq_receive returns, and has the report it
   got before sent again, or goes on to claim the radio *)
Enter == /\ MainRuns("loop")
         /\ main' = IF busy["dongle"] THEN "report" ELSE "claim"
         /\ UNCHANGED <<isr, retries, packet, status, report, busy, radioVars,
                        timer, calls, history>>

\* the flag is set, whatever a handler did since it was tested
Receive == /\ MainRuns("claim")
           /\ busy' = [busy EXCEPT !["dongle"] = TRUE]
           /\ Listen("dongle")
           /\ StartInfinite("dongle")
           /\ main' = "listen"
           /\ UNCHANGED <<isr, retries, packet, status, report, calls, history>>

Received == /\ MainRuns("listen")
            /\ EndWait("dongle")
            /\ main' = "answer"
            /\ UNCHANGED <<heard, isr, retries, packet, status, report, busy, calls, history>>

SendAnswer == /\ MainRuns("answer")
              /\ Transmit("dongle")
              /\ main' = "answering"
              /\ UNCHANGED <<isr, retries, packet, status, report, busy, calls, history>>

HandOver == /\ MainRuns("answering")
            /\ EndWait("dongle")
            /\ report' = Delivered(heard["dongle"])
            /\ heard' = [heard EXCEPT !["dongle"] = Nothing]
            /\ Leave("dongle")
            /\ main' = "report"
            /\ LET cut == AckToCome IN    \* radio_send returned 3
               unheard' = (unheard \/ cut) /\ stale' = (stale /\ ~cut)
            /\ UNCHANGED <<isr, retries, packet, status, calls, copies>>

(* leds_set_all and hid_send_report, which may take long and may never return:
   it polls for an event of the USB driver that the removal of the cable, or an
   interrupt that takes it, can keep from it (usbd.c:325-333, 191-194, 88) *)
UseReport == /\ MainRuns("report")
             /\ main' = "loop"
             /\ UNCHANGED <<isr, retries, packet, status, report, busy, radioVars,
                            timer, calls, history>>

\* ---- The system ---------------------------------------------------------------------------
Handler(n) == Attempt(n) \/ Sent(n) \/ Answered(n)
radio_arq_receive == Enter \/ Receive \/ Received \/ SendAnswer \/ HandOver
Loop == radio_arq_receive \/ UseReport

Next == \/ \E n \in Nodes : Call(n) \/ Drop(n) \/ Handler(n) \/ Air(n) \/ Expire(n)
        \/ Loop

Spec == Init /\ [][Next]_vars

(* A handler that can step does, since nothing preempts it, and a timer that
   counts reaches its compare value.  Nothing makes a transmission end by itself,
   a key event happen or a report return, and nothing promises that interrupts
   leave the main loop time. *)
FairSpec == Spec /\ \A n \in Nodes : WF_vars(Handler(n)) /\ WF_vars(Expire(n))

\* ---- Properties -----------------------------------------------------------------------------
ArqTypes == /\ isr \in [Nodes -> {"idle", "attempt", "sending", "waiting"}]
            /\ retries \in [Nodes -> 0 .. 3]
            /\ packet \in [Nodes -> Packets \cup {None}]
            /\ status \in [Nodes -> Packets \cup {None}]
            /\ main \in {"loop", "claim", "listen", "answer", "answering", "report"}
            /\ report \in Messages \cup {Blank}
            /\ busy \in [Nodes -> BOOLEAN]
MediumTypes == /\ radio \in [Nodes -> {"off", "tx", "rx", "end"}]
               /\ heard \in [Nodes -> Packets \cup {Bad, Nothing}]
               /\ timer \in [Nodes -> {"off", "counting", "expired"}]
               /\ calls \in [Nodes -> Nat]
HistoryTypes == copies \in 0 .. 3 /\ unheard \in BOOLEAN /\ stale \in BOOLEAN

\* Types; no call transmits more than the three times of radio_arq.c:50.
TypeOK == ArqTypes /\ MediumTypes /\ HistoryTypes

(* radio_arq_busy keeps a board's two users of the radio apart, though it is
   tested and set without masking interrupts: whenever one of them is about to
   use the radio, radio_busy is clear, so that radio_send and
   radio_receive_timeout never return 2, and the main loop finds radio_arq_busy
   clear at its test and still clear where it sets it, though a whole call of a
   handler may have come between. *)
RadioUncontended ==
    /\ \A n \in Nodes : isr[n] = "attempt" => radio[n] = "off"
    /\ main \in {"claim", "answer"} /\ isr["dongle"] = "idle" => radio["dongle"] = "off"
    /\ MainRuns("loop") \/ MainRuns("claim") => ~busy["dongle"]

(* Handlers and main loop sleep with the same timer: timer_sleep_us stops and
   clears TIMER0 (timer.c:88-100), in the probe pulses of both calls.  A handler
   that sends finds the main loop outside radio_arq_receive or before it claims
   the radio, so it never cuts a sleep short, which would then wait for ever. *)
SleepsApart == isr["dongle"] # "idle" => main \in {"loop", "claim", "report"}

(* An ACK the keyboard hears in its call means that the dongle has the message
   of that call, unless the ACK answers an older call: one that ended, out of
   attempts, while the dongle had its message and had not yet answered. *)
AckMeansReceived ==
    isr["keyboard"] = "waiting" /\ heard["keyboard"] = Ack => copies > 0 \/ stale

(* The dongle gets a message of one call twice only if an ACK of that call was
   lost, corrupted or later than the 1500 us the sender waits. *)
DuplicateNeedsLostAck == copies > 1 => unheard

(* The protocol implements RadioLink: what the dongle's caller is given is what
   it was carried during a call, in order and unchanged, or zeros. *)
InCall == IF isr["keyboard"] = "idle" THEN -1 ELSE packet["keyboard"].value
InHand == IF Carried THEN heard["dongle"].value ELSE -1
Link == INSTANCE RadioLink WITH Silent <- -1, MaxCopies <- 3, call <- InCall, held <- InHand
LinkSpec == Link!Spec

(* A call of radio_arq_send ends, in the interrupt, whatever the other side and
   the medium do: the attempts are finite and each wait has its timeout. *)
SendReturns == \A n \in Nodes : isr[n] # "idle" ~> isr[n] = "idle"

(* While interrupts leave the main loop time, the dongle always listens again:
   no transmission of an answer and no flag a handler left set keeps it from it
   (radio_arq.c:79-94), only a report that is never sent. *)
LoopListens ==
    WF_vars(radio_arq_receive) => []<>(main = "listen") \/ <>[](main = "report")

(* timer.c says of a timeout of zero that the expired check is always false; no
   wait of radio_receive would then end without a packet. *)
InfiniteNeverExpires == main = "listen" => ~Expired("dongle")

(* radio_arq.md takes an ACK for the delivery of the message being sent. *)
AckIsDelivery ==
    isr["keyboard"] = "waiting" /\ heard["keyboard"] = Ack => copies > 0
==============================================================================
