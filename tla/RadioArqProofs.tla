--------------------------- MODULE RadioArqProofs ---------------------------
(* Theorems about the ARQ protocol of RadioArq, for every set of messages    *)
(* and every number of key events.                                           *)
EXTENDS RadioArq, TLAPS

-----------------------------------------------------------------------------
(* The inductive invariant, part by part.                                    *)

\* The radio is where the code that uses it says.
InHandler(n) == /\ isr[n] = "attempt" => radio[n] = "off"
                /\ isr[n] = "sending" => radio[n] \in {"tx", "end"}
                /\ isr[n] = "waiting" => radio[n] \in {"rx", "end"}

InLoop == /\ main \in {"loop", "claim", "answer", "report"} => radio["dongle"] = "off"
          /\ main = "listen" => radio["dongle"] \in {"rx", "end"}
          /\ main = "answering" => radio["dongle"] \in {"tx", "end"}

Located == /\ \A n \in Nodes : InHandler(n)
           /\ isr["keyboard"] = "idle" => radio["keyboard"] = "off"
           /\ IF isr["dongle"] = "idle" THEN InLoop ELSE main \in {"loop", "claim", "report"}
           /\ \A n \in Nodes : radio[n] = "rx" => heard[n] = Nothing

\* radio_arq_busy is set while a function that sets it runs.
Reserved == /\ busy["keyboard"] <=> isr["keyboard"] # "idle"
            /\ busy["dongle"] <=> \/ isr["dongle"] # "idle"
                                  \/ main \in {"listen", "answer", "answering"}

Placed == Located /\ Reserved

\* Handlers send messages only, so the dongle hears nothing else.
Sending == /\ \A n \in Nodes : isr[n] # "idle" => packet[n].type = "message"
           /\ heard["dongle"] \in {Nothing, Bad} \/ heard["dongle"].type = "message"

\* Every attempt delivers once at most.
Counted == /\ \A n \in Nodes : isr[n] # "idle" => retries[n] >= 1
           /\ isr["keyboard"] = "attempt" \/ radio["keyboard"] = "tx"
                => copies <= 3 - retries["keyboard"]
           /\ isr["keyboard"] \in {"sending", "waiting"}
                => copies <= 4 - retries["keyboard"]

AckHeard == isr["keyboard"] = "waiting" /\ heard["keyboard"] = Ack

\* The dongle owes or has given an ACK for what it received in this call, or it
\* owes one for an older call.
Answering == /\ AckToCome /\ isr["keyboard"] # "idle" => copies > 0 \/ stale
             /\ AckHeard => (copies > 0 \/ stale) /\ ~AckToCome

\* While every ACK of the call was heard, the keyboard has one copy at the
\* dongle only until it hears the answer.
Waiting == /\ copies > 1 => unheard
           /\ isr["keyboard"] # "idle" /\ copies > 0 /\ ~unheard =>
                \/ isr["keyboard"] = "sending" /\ radio["keyboard"] = "end" /\ AckToCome
                \/ isr["keyboard"] = "waiting" /\ radio["keyboard"] = "rx" /\ AckToCome
                \/ AckHeard /\ radio["keyboard"] = "end"

RadioInv == TypeOK /\ Placed /\ Sending /\ Counted /\ Answering /\ Waiting

-----------------------------------------------------------------------------
(* Packets.                                                                  *)

LEMMA NodesFacts ==
  /\ "keyboard" \in Nodes /\ "dongle" \in Nodes
  /\ \A n \in Nodes : n = "keyboard" \/ n = "dongle"
  /\ \A n \in Nodes : Peer(n) \in Nodes /\ Peer(n) # n
  /\ Peer("keyboard") = "dongle" /\ Peer("dongle") = "keyboard"
BY DEF Nodes, Peer

LEMMA MessagesFacts ==
  /\ Messages \subseteq Nat \ {0}
  /\ \A n \in Nodes : \A m \in Switches[n] : m \in Messages
BY RadioAssumption DEF Messages, Blank

\* What each kind of packet is, and that the kinds differ.
LEMMA PacketFacts ==
  /\ \A m : Message(m).type = "message" /\ Message(m).value = m
  /\ \A m \in Messages : Message(m) \in Packets
  /\ Ack \in Packets /\ Nack \in Packets
  /\ Ack.type = "status" /\ Nack.type = "status" /\ Ack # Nack
  /\ None.type = "none" /\ Bad.type = "bad" /\ Nothing.type = "nothing"
  /\ Acknowledged(Ack)
  /\ \A p \in Packets \cup {None} : Acknowledged(p) => p = Ack
  /\ \A p \in Packets \cup {None, Bad, Nothing} :
       p.type = "message" => p \in Packets /\ p.value \in Messages
BY DEF Packets, Message, Ack, Nack, None, Bad, Nothing, Acknowledged

-----------------------------------------------------------------------------
(* Types.                                                                    *)

LEMMA TypeInit == Init => TypeOK
<1> SUFFICES ASSUME Init PROVE TypeOK
  OBVIOUS
<1>1. ArqTypes
  BY DEF Init, ArqTypes
<1>2. MediumTypes
  BY DEF Init, MediumTypes
<1>3. HistoryTypes
  <2>1. copies \in 0 .. 3
    BY DEF Init
  <2>2. unheard \in BOOLEAN /\ stale \in BOOLEAN
    BY Zenon DEF Init
  <2>3. QED  BY <2>1, <2>2 DEF HistoryTypes
<1>4. QED  BY <1>1, <1>2, <1>3 DEF TypeOK

LEMMA TypeCall ==
  ASSUME TypeOK, NEW n \in Nodes, Call(n)
  PROVE  TypeOK'
<1>1. ArqTypes'
  <2>1. PICK m \in Switches[n] : packet' = [packet EXCEPT ![n] = Message(m)]
    BY DEF Call
  <2>2. Message(m) \in Packets
    BY MessagesFacts, PacketFacts
  <2>3. /\ packet' \in [Nodes -> Packets \cup {None}]
        /\ status' \in [Nodes -> Packets \cup {None}]
    BY <2>1, <2>2 DEF Call, TypeOK, ArqTypes
  <2>4. /\ isr' \in [Nodes -> {"idle", "attempt", "sending", "waiting"}]
        /\ retries' \in [Nodes -> 0 .. 3]
        /\ busy' \in [Nodes -> BOOLEAN]
    BY DEF Call, TypeOK, ArqTypes, Retries
  <2>5. QED  BY <2>3, <2>4 DEF Call, TypeOK, ArqTypes
<1>2. MediumTypes'
  BY DEF Call, TypeOK, MediumTypes, radioVars
<1>3. HistoryTypes'
  <2>1. CASE n = "keyboard"
    <3>1. copies' \in 0 .. 3
      BY <2>1 DEF Call
    <3>2. unheard' \in BOOLEAN /\ stale' \in BOOLEAN
      BY <2>1, Zenon DEF Call, AckToCome
    <3>3. QED  BY <3>1, <3>2 DEF HistoryTypes
  <2>2. CASE n # "keyboard"
    BY <2>2 DEF Call, TypeOK, HistoryTypes, history
  <2>3. QED  BY <2>1, <2>2
<1>4. QED  BY <1>1, <1>2, <1>3 DEF TypeOK

LEMMA TypeDrop ==
  ASSUME TypeOK, NEW n \in Nodes, Drop(n)
  PROVE  TypeOK'
<1>1. ArqTypes'
  BY DEF Drop, TypeOK, ArqTypes, arqVars
<1>2. MediumTypes'
  BY DEF Drop, TypeOK, MediumTypes, radioVars
<1>3. HistoryTypes'
  BY DEF Drop, TypeOK, HistoryTypes, history
<1>4. QED  BY <1>1, <1>2, <1>3 DEF TypeOK

LEMMA TypeAttempt ==
  ASSUME TypeOK, NEW n \in Nodes, Attempt(n)
  PROVE  TypeOK'
<1>1. ArqTypes'
  BY DEF Attempt, TypeOK, ArqTypes
<1>2. MediumTypes'
  BY DEF Attempt, TypeOK, MediumTypes, Transmit, StartTimeout
<1>3. HistoryTypes'
  BY DEF Attempt, TypeOK, HistoryTypes, history
<1>4. QED  BY <1>1, <1>2, <1>3 DEF TypeOK

LEMMA TypeSent ==
  ASSUME TypeOK, NEW n \in Nodes, Sent(n)
  PROVE  TypeOK'
<1>1. ArqTypes'
  BY DEF Sent, TypeOK, ArqTypes
<1>2. MediumTypes'
  BY DEF Sent, TypeOK, MediumTypes, Listen, StartTimeout
<1>3. HistoryTypes'
  BY DEF Sent, TypeOK, HistoryTypes, history
<1>4. QED  BY <1>1, <1>2, <1>3 DEF TypeOK

LEMMA TypeAnswered ==
  ASSUME TypeOK, Counted, NEW n \in Nodes, Answered(n)
  PROVE  TypeOK'
<1> DEFINE s == IF heard[n] \in {Bad, Nothing} THEN status[n] ELSE heard[n]
           over == Acknowledged(s) \/ Spent(retries[n]) = 0
<1>1. ArqTypes'
  <2>1. /\ status' = [status EXCEPT ![n] = IF over THEN None ELSE s]
        /\ packet' = [packet EXCEPT ![n] = IF over THEN None ELSE @]
    BY DEF Answered
  <2>2. s \in Packets \cup {None}
    BY DEF TypeOK, ArqTypes, MediumTypes
  <2>3. /\ status' \in [Nodes -> Packets \cup {None}]
        /\ packet' \in [Nodes -> Packets \cup {None}]
    <3> HIDE DEF s
    <3>1. QED  BY <2>1, <2>2 DEF TypeOK, ArqTypes
  <2>4. retries' \in [Nodes -> 0 .. 3]
    BY DEF Answered, TypeOK, ArqTypes, Spent, Counted
  <2>5. /\ isr' \in [Nodes -> {"idle", "attempt", "sending", "waiting"}]
        /\ busy' \in [Nodes -> BOOLEAN]
    BY DEF Answered, TypeOK, ArqTypes, Leave
  <2>6. QED  BY <2>3, <2>4, <2>5 DEF Answered, TypeOK, ArqTypes
<1>2. MediumTypes'
  BY DEF Answered, TypeOK, MediumTypes, EndWait
<1>3. HistoryTypes'
  BY DEF Answered, TypeOK, HistoryTypes
<1>4. QED  BY <1>1, <1>2, <1>3 DEF TypeOK

LEMMA TypeExpire ==
  ASSUME TypeOK, NEW n \in Nodes, Expire(n)
  PROVE  TypeOK'
<1>1. ArqTypes'
  BY DEF Expire, TypeOK, ArqTypes, arqVars
<1>2. MediumTypes'
  BY DEF Expire, TypeOK, MediumTypes, radioVars
<1>3. HistoryTypes'
  BY DEF Expire, TypeOK, HistoryTypes, history
<1>4. QED  BY <1>1, <1>2, <1>3 DEF TypeOK

LEMMA TypeAir ==
  ASSUME TypeOK, Sending, Counted, Placed, NEW n \in Nodes, Air(n)
  PROVE  TypeOK'
<1>1. PICK got \in {OnAir(n), Bad, Nothing} :
        /\ heard' = IF got = Nothing THEN heard
                    ELSE [heard EXCEPT ![Peer(n)] = got]
        /\ copies' = IF n = "keyboard" /\ got = OnAir(n) /\ main = "listen"
                     THEN copies + 1 ELSE copies
        /\ unheard' = (unheard \/ (OnAir(n) = Ack /\ got # Ack))
        /\ stale' = (stale /\ ~(OnAir(n) = Ack /\ got # Ack))
        /\ radio' = [radio EXCEPT ![n] = "end",
                                  ![Peer(n)] = IF got = Nothing THEN @ ELSE "end"]
  BY DEF Air
<1>2. OnAir(n) \in Packets
  <2>1. CASE isr[n] = "idle"
    BY <2>1, PacketFacts DEF OnAir, Answer
  <2>2. CASE isr[n] # "idle"
    <3>1. packet[n] \in Packets \cup {None} /\ packet[n].type = "message"
      BY <2>2 DEF TypeOK, ArqTypes, Sending
    <3>2. QED  BY <2>2, <3>1, PacketFacts DEF OnAir
  <2>3. QED  BY <2>1, <2>2
<1>3. ArqTypes'
  BY DEF Air, TypeOK, ArqTypes, arqVars
<1>4. MediumTypes'
  <2>1. heard' \in [Nodes -> Packets \cup {Bad, Nothing}]
    BY <1>1, <1>2 DEF TypeOK, MediumTypes
  <2>2. radio' \in [Nodes -> {"off", "tx", "rx", "end"}]
    BY <1>1 DEF TypeOK, MediumTypes
  <2>3. QED  BY <2>1, <2>2 DEF Air, TypeOK, MediumTypes
<1>5. HistoryTypes'
  <2>1. copies' \in 0 .. 3
    <3>1. CASE n = "keyboard"
      <4>1. radio["keyboard"] = "tx" /\ isr["keyboard"] # "idle"
        BY <3>1, NodesFacts DEF Air, Placed, Located
      <4>2. copies <= 3 - retries["keyboard"] /\ retries["keyboard"] >= 1
        BY <4>1, NodesFacts DEF Counted
      <4>3. retries["keyboard"] \in 0 .. 3 /\ copies \in 0 .. 3
        BY NodesFacts DEF TypeOK, ArqTypes, HistoryTypes
      <4>4. QED  BY <1>1, <4>2, <4>3
    <3>2. CASE n # "keyboard"
      BY <1>1, <3>2 DEF TypeOK, HistoryTypes
    <3>3. QED  BY <3>1, <3>2
  <2>2. unheard' \in BOOLEAN /\ stale' \in BOOLEAN
    BY <1>1, Zenon
  <2>3. QED  BY <2>1, <2>2 DEF HistoryTypes
<1>6. QED  BY <1>3, <1>4, <1>5 DEF TypeOK

LEMMA TypeEnter ==
  ASSUME TypeOK, Enter
  PROVE  TypeOK'
<1>1. ArqTypes'
  BY DEF Enter, TypeOK, ArqTypes
<1>2. MediumTypes'
  BY DEF Enter, TypeOK, MediumTypes, radioVars
<1>3. HistoryTypes'
  BY DEF Enter, TypeOK, HistoryTypes, history
<1>4. QED  BY <1>1, <1>2, <1>3 DEF TypeOK

LEMMA TypeReceive ==
  ASSUME TypeOK, Receive
  PROVE  TypeOK'
<1>1. ArqTypes'
  BY DEF Receive, TypeOK, ArqTypes
<1>2. MediumTypes'
  BY DEF Receive, TypeOK, MediumTypes, Listen, StartInfinite
<1>3. HistoryTypes'
  BY DEF Receive, TypeOK, HistoryTypes, history
<1>4. QED  BY <1>1, <1>2, <1>3 DEF TypeOK

LEMMA TypeReceived ==
  ASSUME TypeOK, Received
  PROVE  TypeOK'
<1>1. ArqTypes'
  BY DEF Received, TypeOK, ArqTypes
<1>2. MediumTypes'
  BY DEF Received, TypeOK, MediumTypes, EndWait
<1>3. HistoryTypes'
  BY DEF Received, TypeOK, HistoryTypes, history
<1>4. QED  BY <1>1, <1>2, <1>3 DEF TypeOK

LEMMA TypeSendAnswer ==
  ASSUME TypeOK, SendAnswer
  PROVE  TypeOK'
<1>1. ArqTypes'
  BY DEF SendAnswer, TypeOK, ArqTypes
<1>2. MediumTypes'
  BY DEF SendAnswer, TypeOK, MediumTypes, Transmit, StartTimeout
<1>3. HistoryTypes'
  BY DEF SendAnswer, TypeOK, HistoryTypes, history
<1>4. QED  BY <1>1, <1>2, <1>3 DEF TypeOK

LEMMA DeliveredType ==
  ASSUME TypeOK, Sending
  PROVE  Delivered(heard["dongle"]) \in Messages \cup {Blank}
<1> DEFINE p == heard["dongle"]
<1>1. p \in Packets \cup {Bad, Nothing}
  BY NodesFacts DEF TypeOK, MediumTypes
<1>2. p \in {Nothing, Bad} \/ p.type = "message"
  BY DEF Sending
<1>3. p \notin {Nothing, Bad} => p.value \in Messages
  BY <1>1, <1>2, PacketFacts
<1>4. QED  BY <1>3 DEF Delivered

LEMMA TypeHandOver ==
  ASSUME TypeOK, Sending, HandOver
  PROVE  TypeOK'
<1>1. ArqTypes'
  BY DeliveredType DEF HandOver, TypeOK, ArqTypes, Leave
<1>2. MediumTypes'
  BY DEF HandOver, TypeOK, MediumTypes, EndWait
<1>3. HistoryTypes'
  BY Zenon DEF HandOver, TypeOK, HistoryTypes
<1>4. QED  BY <1>1, <1>2, <1>3 DEF TypeOK

LEMMA TypeUseReport ==
  ASSUME TypeOK, UseReport
  PROVE  TypeOK'
<1>1. ArqTypes'
  BY DEF UseReport, TypeOK, ArqTypes
<1>2. MediumTypes'
  BY DEF UseReport, TypeOK, MediumTypes, radioVars
<1>3. HistoryTypes'
  BY DEF UseReport, TypeOK, HistoryTypes, history
<1>4. QED  BY <1>1, <1>2, <1>3 DEF TypeOK

-----------------------------------------------------------------------------
(* Where the radio is.                                                       *)

LEMMA PlacedInit == Init => Placed
<1> SUFFICES ASSUME Init PROVE Placed
  OBVIOUS
<1>1. Located
  BY NodesFacts DEF Init, Located, InHandler, InLoop
<1>2. Reserved
  BY NodesFacts DEF Init, Reserved
<1>3. QED  BY <1>1, <1>2 DEF Placed

LEMMA PlacedCall ==
  ASSUME TypeOK, Placed, NEW n \in Nodes, Call(n)
  PROVE  Placed'
BY NodesFacts DEF Call, MayCall, TypeOK, ArqTypes, MediumTypes, Placed, Located, Reserved, InHandler, InLoop, radioVars

LEMMA PlacedAttempt ==
  ASSUME TypeOK, Placed, NEW n \in Nodes, Attempt(n)
  PROVE  Placed'
BY NodesFacts DEF Attempt, Transmit, TypeOK, ArqTypes, MediumTypes, Placed, Located, Reserved, InHandler, InLoop

LEMMA PlacedSent ==
  ASSUME TypeOK, Placed, NEW n \in Nodes, Sent(n)
  PROVE  Placed'
BY NodesFacts DEF Sent, Listen, TypeOK, ArqTypes, MediumTypes, Placed, Located, Reserved, InHandler, InLoop

LEMMA PlacedAnswered ==
  ASSUME TypeOK, Placed, NEW n \in Nodes, Answered(n)
  PROVE  Placed'
<1>1. Located'
  BY NodesFacts DEF Answered, EndWait, TypeOK, ArqTypes, MediumTypes, Placed, Located, Reserved, InHandler, InLoop
<1>2. Reserved'
  BY NodesFacts DEF Answered, Leave, TypeOK, ArqTypes, MediumTypes, Placed, Located, Reserved, InLoop
<1>3. QED  BY <1>1, <1>2 DEF Placed

LEMMA PlacedAir ==
  ASSUME TypeOK, Placed, NEW n \in Nodes, Air(n)
  PROVE  Placed'
BY NodesFacts DEF Air, arqVars, TypeOK, ArqTypes, MediumTypes, Placed, Located, Reserved, InHandler, InLoop

LEMMA PlacedEnter ==
  ASSUME TypeOK, Placed, Enter
  PROVE  Placed'
BY NodesFacts DEF Enter, MainRuns, radioVars, TypeOK, ArqTypes, MediumTypes, Placed, Located, Reserved, InHandler, InLoop

LEMMA PlacedReceive ==
  ASSUME TypeOK, Placed, Receive
  PROVE  Placed'
<1>1. Located'
  BY NodesFacts DEF Receive, MainRuns, Listen, TypeOK, ArqTypes, MediumTypes, Placed, Located, Reserved, InHandler, InLoop
<1>2. Reserved'
  BY NodesFacts DEF Receive, MainRuns, TypeOK, ArqTypes, MediumTypes, Placed, Located, Reserved, InLoop
<1>3. QED  BY <1>1, <1>2 DEF Placed

LEMMA PlacedReceived ==
  ASSUME TypeOK, Placed, Received
  PROVE  Placed'
BY NodesFacts DEF Received, MainRuns, EndWait, TypeOK, ArqTypes, MediumTypes, Placed, Located, Reserved, InHandler, InLoop

LEMMA PlacedSendAnswer ==
  ASSUME TypeOK, Placed, SendAnswer
  PROVE  Placed'
BY NodesFacts DEF SendAnswer, MainRuns, Transmit, TypeOK, ArqTypes, MediumTypes, Placed, Located, Reserved, InHandler, InLoop

LEMMA PlacedHandOver ==
  ASSUME TypeOK, Placed, HandOver
  PROVE  Placed'
<1>1. Located'
  BY NodesFacts DEF HandOver, MainRuns, EndWait, TypeOK, ArqTypes, MediumTypes, Placed, Located, Reserved, InHandler, InLoop
<1>2. Reserved'
  BY NodesFacts DEF HandOver, MainRuns, Leave, TypeOK, ArqTypes, MediumTypes, Placed, Located, Reserved, InLoop
<1>3. QED  BY <1>1, <1>2 DEF Placed

LEMMA PlacedUseReport ==
  ASSUME TypeOK, Placed, UseReport
  PROVE  Placed'
BY NodesFacts DEF UseReport, MainRuns, radioVars, TypeOK, ArqTypes, MediumTypes, Placed, Located, Reserved, InHandler, InLoop

-----------------------------------------------------------------------------
(* What is on the air.                                                       *)

LEMMA SendingInit == Init => Sending
BY NodesFacts DEF Init, Sending

LEMMA SendingCall ==
  ASSUME TypeOK, Sending, NEW n \in Nodes, Call(n)
  PROVE  Sending'
<1>1. PICK m \in Switches[n] : packet' = [packet EXCEPT ![n] = Message(m)]
  BY DEF Call
<1>2. Message(m).type = "message"
  BY PacketFacts
<1>3. QED
  BY <1>1, <1>2, NodesFacts DEF Call, radioVars, TypeOK, ArqTypes, Sending

LEMMA SendingHandler ==
  ASSUME TypeOK, Sending, NEW n \in Nodes, Handler(n)
  PROVE  Sending'
<1>1. CASE Attempt(n)
  BY <1>1, NodesFacts DEF Attempt, Transmit, TypeOK, ArqTypes, Sending
<1>2. CASE Sent(n)
  BY <1>2, NodesFacts DEF Sent, Listen, TypeOK, ArqTypes, MediumTypes, Sending
<1>3. CASE Answered(n)
  BY <1>3, NodesFacts DEF Answered, TypeOK, ArqTypes, MediumTypes, Sending
<1>4. QED  BY <1>1, <1>2, <1>3 DEF Handler

\* What each node transmits.
LEMMA OnAirFacts ==
  ASSUME TypeOK, Placed, Sending, NEW n \in Nodes, radio[n] = "tx"
  PROVE  /\ isr[n] # "idle" => OnAir(n) = packet[n] /\ OnAir(n).type = "message"
         /\ n = "keyboard" => isr[n] = "sending"
         /\ n = "dongle" /\ isr[n] = "idle" =>
              /\ main = "answering"
              /\ OnAir(n) = Ack <=> AckToCome
              /\ OnAir(n) # Ack => OnAir(n) = Nack
         /\ OnAir(n) = Ack => isr[n] = "idle" /\ n = "dongle"
<1>1. ASSUME isr[n] # "idle"
      PROVE  OnAir(n) = packet[n] /\ OnAir(n).type = "message"
  BY <1>1 DEF OnAir, Sending
<1>2. ASSUME n = "keyboard" PROVE isr[n] = "sending"
  BY <1>2 DEF Placed, Located, InHandler, TypeOK, ArqTypes
<1>3. ASSUME n = "dongle", isr[n] = "idle"
      PROVE  /\ main = "answering"
             /\ OnAir(n) = Ack <=> AckToCome
             /\ OnAir(n) # Ack => OnAir(n) = Nack
  <2>1. main = "answering"
    BY <1>3 DEF Placed, Located, InLoop, TypeOK, ArqTypes
  <2>2. heard[n] \notin {Bad, Nothing} <=> heard[n].type = "message"
    BY <1>3, PacketFacts DEF Sending
  <2>3. QED
    BY <1>3, <2>1, <2>2, PacketFacts DEF OnAir, Answer, AckToCome, Carried
<1>4. OnAir(n) = Ack => isr[n] = "idle" /\ n = "dongle"
  BY <1>1, <1>2, PacketFacts, NodesFacts
<1>5. QED  BY <1>1, <1>2, <1>3, <1>4

LEMMA SendingAir ==
  ASSUME TypeOK, Placed, Sending, NEW n \in Nodes, Air(n)
  PROVE  Sending'
<1>1. PICK got \in {OnAir(n), Bad, Nothing} :
        heard' = IF got = Nothing THEN heard ELSE [heard EXCEPT ![Peer(n)] = got]
  BY DEF Air
<1>2. isr' = isr /\ packet' = packet
  BY DEF Air, arqVars
<1>3. CASE n = "keyboard"
  <2>1. OnAir(n).type = "message"
    BY <1>3, OnAirFacts DEF Air
  <2>2. QED  BY <1>1, <1>2, <1>3, <2>1, NodesFacts DEF Sending, TypeOK, MediumTypes
<1>4. CASE n # "keyboard"
  BY <1>1, <1>2, <1>4, NodesFacts DEF Sending, TypeOK, MediumTypes
<1>5. QED  BY <1>3, <1>4

LEMMA SendingLoop ==
  ASSUME TypeOK, Sending, Loop
  PROVE  Sending'
<1>1. CASE Receive
  BY <1>1, NodesFacts DEF Receive, Listen, TypeOK, MediumTypes, Sending
<1>2. CASE Received
  BY <1>2 DEF Received, Sending
<1>3. CASE SendAnswer
  BY <1>3 DEF SendAnswer, Transmit, Sending
<1>4. CASE HandOver
  BY <1>4, NodesFacts DEF HandOver, TypeOK, MediumTypes, Sending
<1>5. CASE UseReport
  BY <1>5 DEF UseReport, radioVars, Sending
<1>6. CASE Enter
  BY <1>6 DEF Enter, radioVars, Sending
<1>7. QED  BY <1>1, <1>2, <1>3, <1>4, <1>5, <1>6 DEF Loop, radio_arq_receive

-----------------------------------------------------------------------------
(* How often it is sent.                                                     *)

LEMMA CountedInit == Init => Counted
BY NodesFacts DEF Init, Counted

LEMMA CountedCall ==
  ASSUME TypeOK, Placed, Counted, NEW n \in Nodes, Call(n)
  PROVE  Counted'
BY NodesFacts DEF Call, Retries, radioVars, history, TypeOK, ArqTypes, MediumTypes, HistoryTypes,
                  Placed, Located, InHandler, Counted

LEMMA CountedHandler ==
  ASSUME TypeOK, Placed, Counted, NEW n \in Nodes, Handler(n)
  PROVE  Counted'
<1>1. CASE Attempt(n)
  BY <1>1, NodesFacts DEF Attempt, Transmit, history, TypeOK, ArqTypes, MediumTypes, HistoryTypes, Counted
<1>2. CASE Sent(n)
  BY <1>2, NodesFacts DEF Sent, Listen, history, TypeOK, ArqTypes, MediumTypes, Counted
<1>3. CASE Answered(n)
  BY <1>3, NodesFacts DEF Answered, EndWait, Spent, TypeOK, ArqTypes, MediumTypes, HistoryTypes, Counted
<1>4. QED  BY <1>1, <1>2, <1>3 DEF Handler

LEMMA CountedAir ==
  ASSUME TypeOK, Placed, Counted, NEW n \in Nodes, Air(n)
  PROVE  Counted'
BY NodesFacts DEF Air, arqVars, TypeOK, ArqTypes, MediumTypes, HistoryTypes,
                  Placed, Located, InHandler, Counted

LEMMA CountedLoop ==
  ASSUME TypeOK, Counted, Loop
  PROVE  Counted'
<1>1. isr' = isr /\ retries' = retries /\ copies' = copies
  BY DEF Loop, radio_arq_receive, Enter, Receive, Received, SendAnswer, HandOver, UseReport, history
<1>2. radio'["keyboard"] = radio["keyboard"]
  BY NodesFacts DEF Loop, radio_arq_receive, Enter, Receive, Received, SendAnswer, HandOver, UseReport, Listen,
                    EndWait, Transmit, radioVars, TypeOK, MediumTypes
<1>3. QED  BY <1>1, <1>2 DEF Counted

-----------------------------------------------------------------------------
(* What an ACK means, and what a duplicate needs.                            *)

\* While the dongle's handler runs, its main loop is in no exchange.
LEMMA HandlerExcludes ==
  ASSUME Placed, isr["dongle"] # "idle"
  PROVE  ~Carried
BY DEF Placed, Located, Carried

\* Steps that change nothing the two invariants look at.
LEMMA AckUnchanged ==
  ASSUME Answering, Waiting,
         isr'["keyboard"] = isr["keyboard"], copies' = copies,
         unheard' = unheard, stale' = stale,
         radio'["keyboard"] = radio["keyboard"],
         heard'["keyboard"] = heard["keyboard"],
         AckToCome' <=> AckToCome
  PROVE  Answering' /\ Waiting'
BY DEF Answering, Waiting, AckHeard

LEMMA AckInit == Init => Answering /\ Waiting
BY PacketFacts, NodesFacts DEF Init, Answering, Waiting, AckHeard, AckToCome, Carried

LEMMA AckCall ==
  ASSUME TypeOK, Placed, Answering, Waiting, NEW n \in Nodes, Call(n)
  PROVE  Answering' /\ Waiting'
<1>1. AckToCome' <=> AckToCome
  BY DEF Call, radioVars, AckToCome, Carried
<1>2. CASE n = "keyboard"
  <2>1. isr'["keyboard"] = "attempt" /\ copies' = 0 /\ (stale' <=> AckToCome)
    BY <1>2 DEF Call, TypeOK, ArqTypes
  <2>2. QED  BY <1>1, <2>1 DEF Answering, Waiting, AckHeard
<1>3. CASE n # "keyboard"
  <2>1. /\ isr'["keyboard"] = isr["keyboard"] /\ copies' = copies
        /\ unheard' = unheard /\ stale' = stale
        /\ radio' = radio /\ heard' = heard
    BY <1>3, NodesFacts DEF Call, history, radioVars, TypeOK, ArqTypes
  <2>2. QED  BY <1>1, <2>1, AckUnchanged
<1>4. QED  BY <1>2, <1>3

LEMMA AckAttempt ==
  ASSUME TypeOK, Placed, Answering, Waiting, NEW n \in Nodes, Attempt(n)
  PROVE  Answering' /\ Waiting'
<1>1. /\ main' = main /\ heard' = heard /\ copies' = copies
      /\ unheard' = unheard /\ stale' = stale
  BY DEF Attempt, Transmit, history
<1>2. CASE n = "keyboard"
  <2>1. isr["keyboard"] = "attempt" /\ isr'["keyboard"] = "sending"
    BY <1>2, NodesFacts DEF Attempt, TypeOK, ArqTypes
  <2>2. AckToCome' <=> AckToCome
    BY <1>1, <1>2, NodesFacts DEF Attempt, Transmit, AckToCome, Carried, TypeOK, MediumTypes
  <2>3. QED  BY <1>1, <2>1, <2>2 DEF Answering, Waiting, AckHeard
<1>3. CASE n = "dongle"
  <2>1. ~Carried /\ ~Carried'
    BY <1>1, <1>3, HandlerExcludes DEF Attempt, Carried
  <2>2. isr'["keyboard"] = isr["keyboard"] /\ radio'["keyboard"] = radio["keyboard"]
    BY <1>3, NodesFacts DEF Attempt, Transmit, TypeOK, ArqTypes, MediumTypes
  <2>3. QED  BY <1>1, <2>1, <2>2, AckUnchanged DEF AckToCome
<1>4. QED  BY <1>2, <1>3, NodesFacts

LEMMA AckSent ==
  ASSUME TypeOK, Placed, Answering, Waiting, NEW n \in Nodes, Sent(n)
  PROVE  Answering' /\ Waiting'
<1>1. main' = main /\ copies' = copies /\ unheard' = unheard /\ stale' = stale
  BY DEF Sent, history
<1>2. CASE n = "keyboard"
  <2>1. /\ isr["keyboard"] = "sending" /\ isr'["keyboard"] = "waiting"
        /\ radio'["keyboard"] = "rx" /\ heard'["keyboard"] # Ack
    BY <1>2, NodesFacts, PacketFacts DEF Sent, Listen, TypeOK, ArqTypes, MediumTypes
  <2>2. AckToCome' <=> AckToCome
    BY <1>1, <1>2, NodesFacts DEF Sent, Listen, AckToCome, Carried, TypeOK, MediumTypes
  <2>3. QED  BY <1>1, <2>1, <2>2 DEF Answering, Waiting, AckHeard
<1>3. CASE n = "dongle"
  <2>1. ~Carried /\ ~Carried'
    BY <1>1, <1>3, HandlerExcludes, NodesFacts, PacketFacts
       DEF Sent, Listen, Carried, TypeOK, MediumTypes
  <2>2. /\ isr'["keyboard"] = isr["keyboard"] /\ radio'["keyboard"] = radio["keyboard"]
        /\ heard'["keyboard"] = heard["keyboard"]
    BY <1>3, NodesFacts DEF Sent, Listen, TypeOK, ArqTypes, MediumTypes
  <2>3. QED  BY <1>1, <2>1, <2>2, AckUnchanged DEF AckToCome
<1>4. QED  BY <1>2, <1>3, NodesFacts

LEMMA AckAnswered ==
  ASSUME TypeOK, Placed, Answering, Waiting, NEW n \in Nodes, Answered(n)
  PROVE  Answering' /\ Waiting'
<1> DEFINE s == IF heard[n] \in {Bad, Nothing} THEN status[n] ELSE heard[n]
           over == Acknowledged(s) \/ Spent(retries[n]) = 0
<1>1. main' = main /\ copies' = copies /\ stale' = stale
  BY DEF Answered
<1>2. CASE n = "keyboard"
  <2>1. /\ isr'["keyboard"] \in {"idle", "attempt"}
        /\ isr'["keyboard"] # "idle" => ~Acknowledged(s)
        /\ unheard' <=> unheard \/ (~Acknowledged(s) /\ AckToCome)
    BY <1>2, NodesFacts DEF Answered, TypeOK, ArqTypes
  <2>2. AckToCome' <=> AckToCome
    BY <1>1, <1>2, NodesFacts DEF Answered, EndWait, AckToCome, Carried, TypeOK, MediumTypes
  <2>3. AckHeard => Acknowledged(s)
    BY <1>2, PacketFacts DEF AckHeard
  <2>4. isr["keyboard"] = "waiting"
    BY <1>2 DEF Answered
  <2>5. QED  BY <1>1, <2>1, <2>2, <2>3, <2>4 DEF Answering, Waiting, AckHeard
<1>3. CASE n = "dongle"
  <2>1. ~Carried /\ ~Carried'
    BY <1>1, <1>3, HandlerExcludes, NodesFacts, PacketFacts
       DEF Answered, Carried, TypeOK, MediumTypes
  <2>2. /\ isr'["keyboard"] = isr["keyboard"] /\ radio'["keyboard"] = radio["keyboard"]
        /\ heard'["keyboard"] = heard["keyboard"]
    BY <1>3, NodesFacts DEF Answered, EndWait, TypeOK, ArqTypes, MediumTypes
  <2>3. unheard' = unheard
    BY <1>3, Zenon DEF Answered, TypeOK, HistoryTypes
  <2>4. QED  BY <1>1, <2>1, <2>2, <2>3, AckUnchanged DEF AckToCome
<1>4. QED  BY <1>2, <1>3, NodesFacts

LEMMA AckAirKeyboard ==
  ASSUME TypeOK, Placed, Sending, Answering, Waiting, Air("keyboard")
  PROVE  Answering' /\ Waiting'
<1> DEFINE n == "keyboard"
<1>1. PICK got \in {OnAir(n), Bad, Nothing} :
        /\ radio["dongle"] # "rx" => got = Nothing
        /\ radio' = [radio EXCEPT !["keyboard"] = "end",
                                  !["dongle"] = IF got = Nothing THEN @ ELSE "end"]
        /\ heard' = IF got = Nothing THEN heard ELSE [heard EXCEPT !["dongle"] = got]
        /\ copies' = IF got = OnAir(n) /\ main = "listen" THEN copies + 1 ELSE copies
        /\ unheard' = (unheard \/ (OnAir(n) = Ack /\ got # Ack))
        /\ stale' = (stale /\ ~(OnAir(n) = Ack /\ got # Ack))
  BY NodesFacts DEF Air
<1>2. /\ radio["keyboard"] = "tx" /\ isr["keyboard"] = "sending"
      /\ OnAir(n).type = "message" /\ OnAir(n) # Ack
  BY NodesFacts, OnAirFacts, PacketFacts DEF Air
<1>3. isr' = isr /\ main' = main
  BY DEF Air, arqVars
<1>4. (unheard' <=> unheard) /\ (stale' <=> stale)
  BY <1>1, <1>2
<1>5. copies > 1 => unheard
  BY DEF Waiting
<1>6. copies > 0 => unheard
  BY <1>2 DEF Waiting, AckHeard
<1>7. radio'["keyboard"] = "end"
  BY <1>1, NodesFacts DEF TypeOK, MediumTypes
<1>8. copies \in 0 .. 3
  BY DEF TypeOK, HistoryTypes
<1>9. CASE main = "listen" /\ got = OnAir(n)
  <2>1. got # Nothing
    BY <1>2, <1>9, PacketFacts
  <2>2. AckToCome'
    BY <1>1, <1>2, <1>3, <1>9, <2>1, NodesFacts DEF AckToCome, Carried, TypeOK, MediumTypes
  <2>3. copies' = copies + 1
    BY <1>1, <1>9
  <2>4. QED
    BY <1>2, <1>3, <1>4, <1>6, <1>7, <1>8, <2>2, <2>3 DEF Answering, Waiting, AckHeard
<1>10. CASE ~(main = "listen" /\ got = OnAir(n))
  <2>1. copies' = copies
    BY <1>1, <1>10
  <2>2. AckToCome' => AckToCome
    <3>1. CASE got = Nothing
      BY <1>1, <1>3, <3>1, NodesFacts DEF AckToCome, Carried, TypeOK, MediumTypes
    <3>2. CASE got # Nothing
      <4>1. radio["dongle"] = "rx" /\ heard'["dongle"] = got
        BY <1>1, <3>2, NodesFacts DEF TypeOK, MediumTypes
      <4>2. CASE got = Bad
        BY <1>3, <4>1, <4>2, PacketFacts DEF AckToCome, Carried
      <4>3. CASE got # Bad
        <5>1. main # "listen"
          BY <1>10, <3>2, <4>3
        <5>2. isr["dongle"] # "idle"
          BY <4>1, <5>1 DEF Placed, Located, InLoop, TypeOK, ArqTypes
        <5>3. QED  BY <1>3, <5>2, HandlerExcludes DEF Carried, AckToCome, Placed, Located
      <4>4. QED  BY <4>2, <4>3
    <3>3. QED  BY <3>1, <3>2
  <2>3. QED
    BY <1>2, <1>3, <1>4, <1>6, <1>7, <2>1, <2>2, <1>5 DEF Answering, Waiting, AckHeard
<1>11. QED  BY <1>9, <1>10

LEMMA AckAirDongle ==
  ASSUME TypeOK, Placed, Sending, Answering, Waiting, Air("dongle")
  PROVE  Answering' /\ Waiting'
<1> DEFINE n == "dongle"
<1>1. PICK got \in {OnAir(n), Bad, Nothing} :
        /\ radio["keyboard"] # "rx" => got = Nothing
        /\ radio' = [radio EXCEPT !["dongle"] = "end",
                                  !["keyboard"] = IF got = Nothing THEN @ ELSE "end"]
        /\ heard' = IF got = Nothing THEN heard ELSE [heard EXCEPT !["keyboard"] = got]
        /\ copies' = copies
        /\ unheard' = (unheard \/ (OnAir(n) = Ack /\ got # Ack))
        /\ stale' = (stale /\ ~(OnAir(n) = Ack /\ got # Ack))
  BY NodesFacts DEF Air
<1>2. isr' = isr /\ main' = main /\ radio["dongle"] = "tx" /\ radio'["dongle"] = "end"
  BY <1>1, NodesFacts DEF Air, arqVars, TypeOK, MediumTypes
<1>3. heard'["dongle"] = heard["dongle"]
  BY <1>1, NodesFacts DEF TypeOK, MediumTypes
<1>4. OnAir(n) = Ack <=> AckToCome
  <2>1. CASE isr["dongle"] = "idle"
    BY <1>2, <2>1, OnAirFacts, NodesFacts
  <2>2. CASE isr["dongle"] # "idle"
    BY <1>2, <2>2, OnAirFacts, NodesFacts, HandlerExcludes DEF AckToCome
  <2>3. QED  BY <2>1, <2>2
<1>5. ~AckToCome'
  <2>1. CASE isr["dongle"] = "idle"
    BY <1>2, <2>1, OnAirFacts, NodesFacts DEF AckToCome
  <2>2. CASE isr["dongle"] # "idle"
    BY <1>2, <1>3, <2>2, HandlerExcludes DEF AckToCome, Carried
  <2>3. QED  BY <2>1, <2>2
<1>6. CASE got = Nothing
  <2>1. heard' = heard /\ radio'["keyboard"] = radio["keyboard"]
    BY <1>1, <1>6, NodesFacts DEF TypeOK, MediumTypes
  <2>2. got # Ack
    BY <1>6, PacketFacts
  <2>3. QED
    BY <1>1, <1>2, <1>4, <1>5, <2>1, <2>2 DEF Answering, Waiting, AckHeard
<1>7. CASE got # Nothing
  <2>1. /\ radio["keyboard"] = "rx" /\ radio'["keyboard"] = "end"
        /\ heard["keyboard"] # Ack /\ heard'["keyboard"] = got
    BY <1>1, <1>7, NodesFacts, PacketFacts DEF TypeOK, MediumTypes, Placed, Located
  <2>2. got = Ack => AckToCome
    BY <1>1, <1>4, PacketFacts
  <2>3. isr["keyboard"] = "waiting"
    BY <2>1, NodesFacts DEF Placed, Located, InHandler, TypeOK, ArqTypes
  <2>4. QED
    BY <1>1, <1>2, <1>4, <1>5, <2>1, <2>2, <2>3 DEF Answering, Waiting, AckHeard
<1>8. QED  BY <1>6, <1>7

LEMMA AckLoop ==
  ASSUME TypeOK, Placed, Answering, Waiting, Loop
  PROVE  Answering' /\ Waiting'
<1>1. isr' = isr /\ copies' = copies
  BY DEF Loop, radio_arq_receive, Enter, Receive, Received, SendAnswer, HandOver, UseReport, history
<1>2. /\ radio'["keyboard"] = radio["keyboard"]
      /\ heard'["keyboard"] = heard["keyboard"]
  BY NodesFacts DEF Loop, radio_arq_receive, Enter, Receive, Received, SendAnswer, HandOver, UseReport, Listen,
                    EndWait, Transmit, radioVars, TypeOK, MediumTypes
<1>3. CASE HandOver
  <2>1. ~AckToCome'
    BY <1>3 DEF HandOver, AckToCome, Carried
  <2>2. /\ unheard' <=> unheard \/ AckToCome
        /\ stale' <=> stale /\ ~AckToCome
    BY <1>3 DEF HandOver
  <2>3. QED  BY <1>1, <1>2, <2>1, <2>2 DEF Answering, Waiting, AckHeard
<1>4. CASE Enter \/ Receive \/ Received \/ SendAnswer \/ UseReport
  <2>1. unheard' = unheard /\ stale' = stale
    BY <1>4 DEF Enter, Receive, Received, SendAnswer, UseReport, history
  <2>2. AckToCome' <=> AckToCome
    <3>1. CASE Receive
      <4>1. ~Carried
        BY <3>1 DEF Receive, MainRuns, Carried
      <4>2. heard'["dongle"] = Nothing
        BY <3>1, NodesFacts DEF Receive, Listen, TypeOK, MediumTypes
      <4>3. QED  BY <4>1, <4>2, PacketFacts DEF AckToCome, Carried
    <3>2. CASE Received
      BY <3>2 DEF Received, MainRuns, AckToCome, Carried
    <3>3. CASE SendAnswer
      BY <3>3, NodesFacts DEF SendAnswer, MainRuns, Transmit, AckToCome, Carried, TypeOK, MediumTypes
    <3>4. CASE Enter \/ UseReport
      BY <3>4 DEF Enter, UseReport, MainRuns, AckToCome, Carried, radioVars
    <3>5. QED  BY <1>4, <3>1, <3>2, <3>3, <3>4
  <2>3. QED  BY <1>1, <1>2, <2>1, <2>2, AckUnchanged
<1>5. QED  BY <1>3, <1>4 DEF Loop, radio_arq_receive

-----------------------------------------------------------------------------
(* The invariant.                                                            *)

LEMMA InvInit == Init => RadioInv
BY TypeInit, PlacedInit, SendingInit, CountedInit, AckInit DEF RadioInv

LEMMA InvStep == RadioInv /\ [Next]_vars => RadioInv'
<1> SUFFICES ASSUME RadioInv, [Next]_vars PROVE RadioInv'
  OBVIOUS
<1> USE DEF RadioInv
<1>1. ASSUME NEW n \in Nodes, Call(n) PROVE RadioInv'
  BY <1>1, TypeCall, PlacedCall, SendingCall, CountedCall, AckCall
<1>2. ASSUME NEW n \in Nodes, Drop(n) PROVE RadioInv'
  <2>1. TypeOK'
    BY <1>2, TypeDrop
  <2>2. Placed' /\ Sending' /\ Counted'
    BY <1>2 DEF Drop, arqVars, radioVars, history, Placed, Located, Reserved, InHandler, InLoop,
                Sending, Counted
  <2>3. Answering' /\ Waiting'
    BY <1>2, AckUnchanged DEF Drop, arqVars, radioVars, history, AckToCome, Carried
  <2>4. QED  BY <2>1, <2>2, <2>3
<1>3. ASSUME NEW n \in Nodes, Handler(n) PROVE RadioInv'
  <2>1. CASE Attempt(n)
    BY <1>3, <2>1, TypeAttempt, PlacedAttempt, SendingHandler, CountedHandler, AckAttempt
  <2>2. CASE Sent(n)
    BY <1>3, <2>2, TypeSent, PlacedSent, SendingHandler, CountedHandler, AckSent
  <2>3. CASE Answered(n)
    BY <1>3, <2>3, TypeAnswered, PlacedAnswered, SendingHandler, CountedHandler, AckAnswered
  <2>4. QED  BY <1>3, <2>1, <2>2, <2>3 DEF Handler
<1>4. ASSUME NEW n \in Nodes, Air(n) PROVE RadioInv'
  <2>1. TypeOK' /\ Placed' /\ Sending' /\ Counted'
    BY <1>4, TypeAir, PlacedAir, SendingAir, CountedAir
  <2>2. Answering' /\ Waiting'
    BY <1>4, AckAirKeyboard, AckAirDongle, NodesFacts
  <2>3. QED  BY <2>1, <2>2
<1>5. ASSUME NEW n \in Nodes, Expire(n) PROVE RadioInv'
  <2>1. TypeOK'
    BY <1>5, TypeExpire
  <2>2. Placed' /\ Sending' /\ Counted'
    BY <1>5 DEF Expire, arqVars, radioVars, history, Placed, Located, Reserved, InHandler, InLoop,
                Sending, Counted
  <2>3. Answering' /\ Waiting'
    BY <1>5, AckUnchanged DEF Expire, arqVars, radioVars, history, AckToCome, Carried
  <2>4. QED  BY <2>1, <2>2, <2>3
<1>6. ASSUME Loop PROVE RadioInv'
  <2>1. TypeOK' /\ Placed'
    BY <1>6, TypeEnter, TypeReceive, TypeReceived, TypeSendAnswer, TypeHandOver, TypeUseReport,
       PlacedEnter, PlacedReceive, PlacedReceived, PlacedSendAnswer, PlacedHandOver, PlacedUseReport
    DEF Loop, radio_arq_receive
  <2>2. QED  BY <1>6, <2>1, SendingLoop, CountedLoop, AckLoop
<1>7. CASE UNCHANGED vars
  <2>1. /\ TypeOK' /\ Placed' /\ Sending' /\ Counted'
    BY <1>7 DEF vars, arqVars, radioVars, history, TypeOK, ArqTypes, MediumTypes, HistoryTypes,
                Placed, Located, Reserved, InHandler, InLoop, Sending, Counted
  <2>2. Answering' /\ Waiting'
    BY <1>7, AckUnchanged DEF vars, arqVars, radioVars, history, AckToCome, Carried
  <2>3. QED  BY <2>1, <2>2
<1>8. QED  BY <1>1, <1>2, <1>3, <1>4, <1>5, <1>6, <1>7 DEF Next

LEMMA InvCorrect == Spec => []RadioInv
<1>1. QED  BY InvInit, InvStep, PTL DEF Spec

\* radio_arq.c and radio.c keep their variables in their types; no call
\* transmits more than three times (radio_arq.c:50, 73).
THEOREM TypeCorrect == Spec => []TypeOK
<1>1. RadioInv => TypeOK
  BY DEF RadioInv
<1>2. QED  BY <1>1, InvCorrect, PTL

\* radio_arq_busy keeps the main loop and the handler of a board off the radio
\* while the other uses it (radio_arq.c:42-44, 80-82), for any messages and any
\* number of key events.
THEOREM UncontendedCorrect == Spec => []RadioUncontended
<1>1. RadioInv => RadioUncontended
  <2> SUFFICES ASSUME RadioInv PROVE RadioUncontended
    OBVIOUS
  <2>1. \A n \in Nodes : isr[n] = "attempt" => radio[n] = "off"
    BY DEF RadioInv, Placed, Located, InHandler
  <2>2. main \in {"claim", "answer"} /\ isr["dongle"] = "idle" => radio["dongle"] = "off"
    BY DEF RadioInv, Placed, Located, InLoop
  <2>3. MainRuns("loop") \/ MainRuns("claim") => ~busy["dongle"]
    BY DEF RadioInv, Placed, Reserved, MainRuns
  <2>4. QED  BY <2>1, <2>2, <2>3 DEF RadioUncontended
<1>2. QED  BY <1>1, InvCorrect, PTL

\* A handler that sleeps never interrupts a sleep of the main loop, since
\* radio_arq_busy covers all of them (timer.c:88-100).
THEOREM SleepsCorrect == Spec => []SleepsApart
<1>1. RadioInv => SleepsApart
  BY DEF RadioInv, Placed, Located, SleepsApart
<1>2. QED  BY <1>1, InvCorrect, PTL

\* An ACK heard in a call means that the dongle received that call's message,
\* unless it answers an older one (radio_arq.c:67-71, 85-89).
THEOREM AckCorrect == Spec => []AckMeansReceived
<1>1. RadioInv => AckMeansReceived
  BY DEF RadioInv, Answering, AckHeard, AckMeansReceived
<1>2. QED  BY <1>1, InvCorrect, PTL

\* The dongle is given a message twice only after an ACK of its call did not
\* reach the keyboard in time (radio_arq.c:51-75).
THEOREM DuplicateCorrect == Spec => []DuplicateNeedsLostAck
<1>1. RadioInv => DuplicateNeedsLostAck
  BY DEF RadioInv, Waiting, DuplicateNeedsLostAck
<1>2. QED  BY <1>1, InvCorrect, PTL

-----------------------------------------------------------------------------
(* The protocol implements RadioLink.                                        *)

LEMMA LinkInit == Init => Link!Init
BY NodesFacts DEF Init, Link!Init, InCall, InHand, Carried

LEMMA LinkStutter ==
  ASSUME InCall' = InCall, InHand' = InHand, copies' = copies, report' = report
  PROVE  UNCHANGED Link!vars
BY DEF Link!vars

LEMMA LinkCall ==
  ASSUME RadioInv, NEW n \in Nodes, Call(n)
  PROVE  [Link!Next]_Link!vars
<1>1. InHand' = InHand /\ report' = report
  BY DEF Call, radioVars, InHand, Carried
<1>2. CASE n = "keyboard"
  <2>1. PICK m \in Switches[n] : packet' = [packet EXCEPT ![n] = Message(m)]
    BY DEF Call
  <2>2. isr["keyboard"] = "idle" /\ isr'["keyboard"] = "attempt" /\ copies' = 0
    BY <1>2, NodesFacts DEF Call, RadioInv, TypeOK, ArqTypes
  <2>3. InCall = -1 /\ InCall' = m
    BY <1>2, <2>1, <2>2, NodesFacts, PacketFacts DEF InCall, RadioInv, TypeOK, ArqTypes
  <2>4. m \in Messages
    BY MessagesFacts
  <2>5. Link!Call
    BY <1>1, <2>2, <2>3, <2>4 DEF Link!Call
  <2>6. QED  BY <2>5 DEF Link!Next
<1>3. CASE n = "dongle"
  <2>1. InCall' = InCall /\ copies' = copies
    BY <1>3, NodesFacts DEF Call, history, InCall, RadioInv, TypeOK, ArqTypes
  <2>2. QED  BY <1>1, <2>1, LinkStutter
<1>4. QED  BY <1>2, <1>3, NodesFacts

\* The keyboard's handler changes the call only where it returns.
LEMMA LinkKeyboard ==
  ASSUME RadioInv, Handler("keyboard")
  PROVE  [Link!Next]_Link!vars
<1>1. /\ heard'["dongle"] = heard["dongle"] /\ main' = main
      /\ copies' = copies /\ report' = report
  BY NodesFacts DEF Handler, Attempt, Sent, Answered, Transmit, Listen, EndWait, history,
                    RadioInv, TypeOK, MediumTypes
<1>2. InHand' = InHand
  BY <1>1 DEF InHand, Carried
<1>3. isr["keyboard"] # "idle" /\ InCall \in Messages
  <2>1. isr["keyboard"] # "idle"
    BY DEF Handler, Attempt, Sent, Answered
  <2>2. packet["keyboard"] \in Packets \cup {None} /\ packet["keyboard"].type = "message"
    BY <2>1, NodesFacts DEF RadioInv, TypeOK, ArqTypes, Sending
  <2>3. QED  BY <2>1, <2>2, PacketFacts DEF InCall
<1>4. CASE isr'["keyboard"] = "idle"
  <2>1. InCall' = -1
    BY <1>4 DEF InCall
  <2>2. InCall # -1
    BY <1>3, MessagesFacts
  <2>3. Link!Return
    BY <1>1, <1>2, <2>1, <2>2 DEF Link!Return
  <2>4. QED  BY <2>3 DEF Link!Next
<1>5. CASE isr'["keyboard"] # "idle"
  <2>1. packet'["keyboard"] = packet["keyboard"]
    BY <1>5, NodesFacts DEF Handler, Attempt, Sent, Answered, RadioInv, TypeOK, ArqTypes
  <2>2. InCall' = InCall
    BY <1>3, <1>5, <2>1 DEF InCall
  <2>3. QED  BY <1>1, <1>2, <2>2, LinkStutter
<1>6. QED  BY <1>4, <1>5

\* The dongle's handler excludes an exchange of its main loop.
LEMMA LinkDongle ==
  ASSUME RadioInv, Handler("dongle")
  PROVE  [Link!Next]_Link!vars
<1>1. /\ isr'["keyboard"] = isr["keyboard"] /\ packet'["keyboard"] = packet["keyboard"]
      /\ main' = main /\ copies' = copies /\ report' = report
  BY NodesFacts DEF Handler, Attempt, Sent, Answered, history, RadioInv, TypeOK, ArqTypes
<1>2. main \in {"loop", "claim", "report"}
  BY DEF Handler, Attempt, Sent, Answered, RadioInv, Placed, Located
<1>3. InHand = -1 /\ InHand' = -1
  BY <1>1, <1>2 DEF InHand, Carried
<1>4. QED  BY <1>1, <1>3, LinkStutter DEF InCall

LEMMA LinkAirKeyboard ==
  ASSUME RadioInv, Air("keyboard")
  PROVE  [Link!Next]_Link!vars
<1> DEFINE n == "keyboard"
<1>1. PICK got \in {OnAir(n), Bad, Nothing} :
        /\ radio["dongle"] # "rx" => got = Nothing
        /\ heard' = IF got = Nothing THEN heard ELSE [heard EXCEPT !["dongle"] = got]
        /\ copies' = IF got = OnAir(n) /\ main = "listen" THEN copies + 1 ELSE copies
  BY NodesFacts DEF Air
<1>2. radio["keyboard"] = "tx" /\ isr' = isr /\ packet' = packet /\ main' = main /\ report' = report
  BY DEF Air, arqVars
<1>3. /\ isr["keyboard"] = "sending"
      /\ OnAir(n) = packet[n] /\ OnAir(n).type = "message"
  BY <1>2, NodesFacts, OnAirFacts DEF RadioInv
<1>4. InCall' = InCall /\ InCall = packet["keyboard"].value
  BY <1>2, <1>3 DEF InCall
<1>5. CASE main = "listen" /\ got = OnAir(n)
  <2>1. got # Nothing /\ heard'["dongle"] = got
    BY <1>1, <1>3, <1>5, PacketFacts, NodesFacts DEF RadioInv, TypeOK, MediumTypes
  <2>2. heard["dongle"] = Nothing
    BY <1>1, <2>1, NodesFacts DEF RadioInv, Placed, Located
  <2>3. InHand = -1 /\ InHand' = InCall
    BY <1>2, <1>3, <1>4, <1>5, <2>1, <2>2, PacketFacts DEF InHand, Carried
  <2>4. packet["keyboard"] \in Packets \cup {None}
    BY NodesFacts DEF RadioInv, TypeOK, ArqTypes
  <2>5. InCall # -1
    BY <1>3, <1>4, <2>4, PacketFacts, MessagesFacts
  <2>6. copies < 3
    <3>1. retries["keyboard"] \in 0 .. 3 /\ copies \in 0 .. 3
      BY NodesFacts DEF RadioInv, TypeOK, ArqTypes, HistoryTypes
    <3>2. retries["keyboard"] >= 1 /\ copies <= 3 - retries["keyboard"]
      BY <1>2, <1>3, NodesFacts DEF RadioInv, Counted
    <3>3. QED  BY <3>1, <3>2
  <2>7. Link!Carry
    BY <1>1, <1>2, <1>4, <1>5, <2>3, <2>5, <2>6 DEF Link!Carry
  <2>8. QED  BY <2>7 DEF Link!Next
<1>6. CASE ~(main = "listen" /\ got = OnAir(n))
  <2>1. copies' = copies
    BY <1>1, <1>6
  <2>2. InHand' = InHand
    <3>1. CASE got = Nothing
      BY <1>1, <1>2, <3>1 DEF InHand, Carried
    <3>2. CASE got # Nothing
      <4>1. /\ radio["dongle"] = "rx" /\ heard["dongle"] = Nothing
            /\ heard'["dongle"] = got
        BY <1>1, <3>2, NodesFacts DEF RadioInv, TypeOK, MediumTypes, Placed, Located
      <4>2. got = Bad \/ main # "listen"
        BY <1>1, <1>6, <3>2
      <4>3. main = "listen" \/ main \in {"loop", "claim", "report"}
        BY <4>1 DEF RadioInv, TypeOK, ArqTypes, Placed, Located, InLoop
      <4>4. QED  BY <1>2, <4>1, <4>2, <4>3, PacketFacts DEF InHand, Carried
    <3>3. QED  BY <3>1, <3>2
  <2>3. QED  BY <1>2, <1>4, <2>1, <2>2, LinkStutter
<1>7. QED  BY <1>5, <1>6

LEMMA LinkAirDongle ==
  ASSUME RadioInv, Air("dongle")
  PROVE  [Link!Next]_Link!vars
<1>1. isr' = isr /\ packet' = packet /\ main' = main /\ report' = report /\ copies' = copies
  BY DEF Air, arqVars
<1>2. heard'["dongle"] = heard["dongle"]
  BY NodesFacts DEF Air, RadioInv, TypeOK, MediumTypes
<1>3. QED  BY <1>1, <1>2, LinkStutter DEF InCall, InHand, Carried

LEMMA LinkLoop ==
  ASSUME RadioInv, Loop
  PROVE  [Link!Next]_Link!vars
<1>1. isr' = isr /\ packet' = packet /\ copies' = copies
  BY DEF Loop, radio_arq_receive, Enter, Receive, Received, SendAnswer, HandOver, UseReport, history
<1>2. InCall' = InCall
  BY <1>1 DEF InCall
<1>3. CASE HandOver
  <2>1. /\ main = "answering" /\ main' = "report"
        /\ report' = Delivered(heard["dongle"])
    BY <1>3 DEF HandOver, MainRuns
  <2>2. InHand' = -1
    BY <2>1 DEF InHand, Carried
  <2>3. CASE Carried
    <3>1. heard["dongle"].type = "message" /\ heard["dongle"] \in Packets
      BY <2>3, NodesFacts, PacketFacts DEF Carried, RadioInv, TypeOK, MediumTypes
    <3>2. report' = heard["dongle"].value
      BY <2>1, <3>1, PacketFacts DEF Delivered
    <3>3. InHand = heard["dongle"].value /\ InHand # -1
      BY <2>3, <3>1, PacketFacts, MessagesFacts DEF InHand
    <3>4. Link!HandOver
      BY <1>1, <1>2, <2>2, <3>2, <3>3 DEF Link!HandOver
    <3>5. QED  BY <3>4 DEF Link!Next
  <2>4. CASE ~Carried
    <3>1. heard["dongle"] \in {Bad, Nothing}
      BY <2>1, <2>4 DEF Carried, RadioInv, Sending
    <3>2. report' = Blank
      BY <2>1, <3>1 DEF Delivered
    <3>3. InHand = -1
      BY <2>4 DEF InHand
    <3>4. Link!HandBlank
      BY <1>1, <1>2, <2>2, <3>2, <3>3 DEF Link!HandBlank
    <3>5. QED  BY <3>4 DEF Link!Next
  <2>5. QED  BY <2>3, <2>4
<1>4. CASE Enter \/ Receive \/ Received \/ SendAnswer \/ UseReport
  <2>1. report' = report
    BY <1>4 DEF Enter, Receive, Received, SendAnswer, UseReport
  <2>2. InHand' = InHand
    <3>1. CASE Receive
      <4>1. heard'["dongle"] = Nothing
        BY <3>1, NodesFacts DEF Receive, Listen, RadioInv, TypeOK, MediumTypes
      <4>2. main = "claim"
        BY <3>1 DEF Receive, MainRuns
      <4>3. QED  BY <4>1, <4>2, PacketFacts DEF InHand, Carried
    <3>2. CASE Received
      BY <3>2 DEF Received, MainRuns, InHand, Carried
    <3>3. CASE SendAnswer
      BY <3>3 DEF SendAnswer, MainRuns, Transmit, InHand, Carried
    <3>4. CASE Enter \/ UseReport
      BY <3>4 DEF Enter, UseReport, MainRuns, InHand, Carried, radioVars
    <3>5. QED  BY <1>4, <3>1, <3>2, <3>3, <3>4
  <2>3. QED  BY <1>1, <1>2, <2>1, <2>2, LinkStutter
<1>5. QED  BY <1>3, <1>4 DEF Loop, radio_arq_receive

LEMMA LinkStep == RadioInv /\ [Next]_vars => [Link!Next]_Link!vars
<1> SUFFICES ASSUME RadioInv, [Next]_vars PROVE [Link!Next]_Link!vars
  OBVIOUS
<1>1. ASSUME NEW n \in Nodes, Call(n) PROVE [Link!Next]_Link!vars
  BY <1>1, LinkCall
<1>2. ASSUME NEW n \in Nodes, Drop(n) PROVE [Link!Next]_Link!vars
  BY <1>2, LinkStutter DEF Drop, arqVars, radioVars, history, InCall, InHand, Carried
<1>3. ASSUME NEW n \in Nodes, Handler(n) PROVE [Link!Next]_Link!vars
  BY <1>3, LinkKeyboard, LinkDongle, NodesFacts
<1>4. ASSUME NEW n \in Nodes, Air(n) PROVE [Link!Next]_Link!vars
  BY <1>4, LinkAirKeyboard, LinkAirDongle, NodesFacts
<1>5. ASSUME NEW n \in Nodes, Expire(n) PROVE [Link!Next]_Link!vars
  BY <1>5, LinkStutter DEF Expire, arqVars, radioVars, history, InCall, InHand, Carried
<1>6. ASSUME Loop PROVE [Link!Next]_Link!vars
  BY <1>6, LinkLoop
<1>7. CASE UNCHANGED vars
  BY <1>7, LinkStutter DEF vars, arqVars, radioVars, history, InCall, InHand, Carried
<1>8. QED  BY <1>1, <1>2, <1>3, <1>4, <1>5, <1>6, <1>7 DEF Next

\* radio_arq_send and radio_arq_receive implement the link: what the dongle's
\* main loop is given was carried to it during the call that sent it, at most
\* three times, in order and unchanged, or is all zeros.
THEOREM LinkCorrect == Spec => LinkSpec
<1>1. QED  BY LinkInit, LinkStep, InvCorrect, PTL DEF Spec, LinkSpec, Link!Spec

-----------------------------------------------------------------------------
(* Every wait ends and every call is finite.                                 *)

\* Each wait with a timeout has it: the timer counts until the wait is over.
WaitsTimed ==
  /\ \A n \in Nodes : isr[n] \in {"sending", "waiting"} => WaitOver(n) \/ timer[n] = "counting"
  /\ main = "answering" => WaitOver("dongle") \/ timer["dongle"] = "counting"

\* What a handler still has to do: three steps for each attempt.
Stage(place) == IF place = "attempt" THEN 2 ELSE IF place = "sending" THEN 1 ELSE 0
StepsLeft(n) == 3 * retries[n] + Stage(isr[n])

\* No step repeats an attempt or part of one: while a call lasts its handler
\* only gets closer to its end, whatever else happens (radio_arq.c:50-75).
SendAdvances ==
  [][\A n \in Nodes : isr[n] # "idle" =>
       \/ isr'[n] = "idle"
       \/ isr'[n] = isr[n] /\ StepsLeft(n)' = StepsLeft(n)
       \/ StepsLeft(n)' < StepsLeft(n)]_vars

LEMMA WaitsStep ==
  ASSUME RadioInv, WaitsTimed, [Next]_vars
  PROVE  WaitsTimed'
<1> USE NodesFacts DEF WaitsTimed, WaitOver, Expired
<1>1. /\ isr \in [Nodes -> {"idle", "attempt", "sending", "waiting"}]
      /\ radio \in [Nodes -> {"off", "tx", "rx", "end"}]
      /\ timer \in [Nodes -> {"off", "counting", "expired"}]
      /\ isr["dongle"] # "idle" => main \in {"loop", "claim", "report"}
      /\ main = "answering" => busy["dongle"]
  BY DEF RadioInv, TypeOK, ArqTypes, MediumTypes, Placed, Located, Reserved
<1>2. ASSUME NEW n \in Nodes, Call(n) \/ Drop(n) PROVE WaitsTimed'
  BY <1>1, <1>2 DEF Call, Drop, MayCall, arqVars, radioVars
<1>3. ASSUME NEW n \in Nodes, Handler(n) PROVE WaitsTimed'
  <2>1. CASE Attempt(n)
    BY <1>1, <2>1 DEF Attempt, Transmit, StartTimeout
  <2>2. CASE Sent(n)
    BY <1>1, <2>2 DEF Sent, Listen, StartTimeout
  <2>3. CASE Answered(n)
    BY <1>1, <2>3 DEF Answered, EndWait
  <2>4. QED  BY <1>3, <2>1, <2>2, <2>3 DEF Handler
<1>4. ASSUME NEW n \in Nodes, Air(n) PROVE WaitsTimed'
  BY <1>1, <1>4 DEF Air, arqVars
<1>5. ASSUME NEW n \in Nodes, Expire(n) PROVE WaitsTimed'
  BY <1>1, <1>5 DEF Expire, arqVars, radioVars
<1>6. CASE Loop
  BY <1>1, <1>6 DEF Loop, radio_arq_receive, Enter, Receive, Received, SendAnswer, HandOver, UseReport, MainRuns, Transmit,
                   StartTimeout, EndWait, Listen, StartInfinite, radioVars
<1>7. CASE UNCHANGED vars
  BY <1>7 DEF vars, arqVars, radioVars
<1>8. QED  BY <1>2, <1>3, <1>4, <1>5, <1>6, <1>7 DEF Next

\* The safety half of SendReturns and LoopListens: no wait of a transmission
\* or for an answer is without its timeout, so that each ends whatever the
\* other board and the medium do (radio.c:129, 185).  The one wait
\* without timeout is the dongle's for a message.
THEOREM WaitsCorrect == Spec => []WaitsTimed
<1>1. Init => WaitsTimed
  BY NodesFacts DEF Init, WaitsTimed
<1>2. RadioInv /\ WaitsTimed /\ [Next]_vars => WaitsTimed'
  BY WaitsStep
<1>3. QED  BY <1>1, <1>2, InvCorrect, PTL DEF Spec

LEMMA StepsFacts ==
  ASSUME TypeOK, NEW n \in Nodes
  PROVE  StepsLeft(n) \in 0 .. 11
BY DEF TypeOK, ArqTypes, StepsLeft, Stage

\* ... and a call takes three attempts at most: StepsLeft is a natural number
\* that only its handler's steps change, and they lower it.
THEOREM AdvancesCorrect ==
  Spec => [](\A n \in Nodes : StepsLeft(n) \in 0 .. 11) /\ SendAdvances
<1>1. RadioInv => \A n \in Nodes : StepsLeft(n) \in 0 .. 11
  BY StepsFacts DEF RadioInv
<1>2. ASSUME RadioInv, [Next]_vars, NEW n \in Nodes, isr[n] # "idle"
      PROVE  \/ isr'[n] = "idle"
             \/ isr'[n] = isr[n] /\ StepsLeft(n)' = StepsLeft(n)
             \/ StepsLeft(n)' < StepsLeft(n)
  <2>1. /\ isr \in [Nodes -> {"idle", "attempt", "sending", "waiting"}]
        /\ retries \in [Nodes -> 0 .. 3]
    BY <1>2 DEF RadioInv, TypeOK, ArqTypes
  <2>2. CASE isr'[n] = isr[n] /\ retries'[n] = retries[n]
    BY <2>2 DEF StepsLeft
  <2>3. CASE Attempt(n)
    BY <2>1, <2>3 DEF Attempt, StepsLeft, Stage
  <2>4. CASE Sent(n)
    BY <2>1, <2>4 DEF Sent, StepsLeft, Stage
  <2>5. CASE Answered(n)
    <3>1. isr[n] = "waiting" /\ (isr'[n] = "idle" \/ (isr'[n] = "attempt" /\ retries'[n] = retries[n] - 1))
      BY <2>1, <2>5 DEF Answered, Spent
    <3>2. QED  BY <2>1, <3>1 DEF StepsLeft, Stage
  <2>6. ASSUME NEW m \in Nodes, Call(m) \/ Drop(m) \/ Air(m) \/ Expire(m)
        PROVE  isr'[n] = isr[n] /\ retries'[n] = retries[n]
    BY <1>2, <2>1, <2>6 DEF Call, Drop, Air, Expire, arqVars
  <2>7. ASSUME NEW m \in Nodes, Handler(m), m # n
        PROVE  isr'[n] = isr[n] /\ retries'[n] = retries[n]
    BY <2>1, <2>7 DEF Handler, Attempt, Sent, Answered
  <2>8. ASSUME Loop \/ UNCHANGED vars
        PROVE  isr'[n] = isr[n] /\ retries'[n] = retries[n]
    BY <2>8 DEF Loop, radio_arq_receive, Enter, Receive, Received, SendAnswer, HandOver, UseReport, vars, arqVars
  <2>9. CASE Handler(n)
    BY <2>3, <2>4, <2>5, <2>9 DEF Handler
  <2>10. QED  BY <1>2, <2>2, <2>6, <2>7, <2>8, <2>9 DEF Next
<1>3. RadioInv /\ [Next]_vars => [\A n \in Nodes : isr[n] # "idle" =>
        \/ isr'[n] = "idle"
        \/ isr'[n] = isr[n] /\ StepsLeft(n)' = StepsLeft(n)
        \/ StepsLeft(n)' < StepsLeft(n)]_vars
  BY <1>2
<1>4. QED  BY <1>1, <1>3, InvCorrect, PTL DEF SendAdvances, Spec
=============================================================================
