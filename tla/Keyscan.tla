------------------------------ MODULE Keyscan ------------------------------
(***************************************************************************)
(* The key scanner for directly wired switches (src/keyscan.c) with    *)
(* the GPIOTE driver under it (src/drivers/gpiote.c) and the GPIO      *)
(* port's DETECT signal, modelled from how the two use it.                 *)
(*                                                                         *)
(* DETECT is high while the level of some pin meets that pin's sense       *)
(* setting.  Its rising edge, and only that, raises EVENTS_PORT.  Switches *)
(* move at any time: between the boot steps of the main thread, and        *)
(* between the steps of the interrupt handler, which reads the pins one    *)
(* after the other.                                                        *)
(***************************************************************************)
EXTENDS Integers, Sequences, FiniteSets

CONSTANTS
  Pins,       \* the GPIO pins with a switch
  Direct,     \* [matrix ids -> the pins of that configuration], <<>> if unused
  ColsLen     \* [matrix ids -> cols_len]

Matrices == 0 .. 3         \* configs[4]
MAX_ROWS == 8

ASSUME KeyscanAssumption ==
  /\ Direct \in [Matrices -> Seq(Pins)]
  /\ ColsLen \in [Matrices -> 1 .. 32]
  /\ \A m \in Matrices : Len(Direct[m]) <= ColsLen[m] * MAX_ROWS

\* Every switch is wired to one place of one configuration.
Wired(pin, m, i) == i \in DOMAIN Direct[m] /\ Direct[m][i] = pin
ASSUME WiringAssumption ==
  \A pin \in Pins : \E m \in Matrices : \E i \in DOMAIN Direct[m] :
    \A n \in Matrices : \A j \in DOMAIN Direct[n] : Wired(pin, n, j) <=> n = m /\ j = i

VARIABLES
  pressed,    \* the pins whose switch is closed (the pin reads low)
  sense,      \* PIN_CNF[pin].SENSE: "off", "low" or "high"
  event,      \* EVENTS_PORT
  inten,      \* the PORT interrupt is enabled
  direct_len, \* configs[m].direct_len
  matrix,     \* state[m].matrix: indices of the pins read as pressed
  previous,   \* state[m].previous_matrix
  isr,        \* the interrupt handler: label, matrix, pin index, value read
  boot,       \* the thread in init_keyscan_direct: label, matrix, pin index
  delivered,  \* what KEYSCAN_EventHandler was last called with
  hasty       \* when switches moved (or were held) at a bad moment: "boot",
              \* before the boot steps were done; "handler", after them but
              \* with an event pending or being handled

hardware == <<pressed, sense, event, inten>>
scanner  == <<direct_len, matrix, previous>>
vars     == <<hardware, scanner, isr, boot, delivered, hasty>>

\* init_keyscan_direct 61-68: matrix[row] is compared for row < rows_len.
divide_ceil(a, b) == IF a % b = 0 THEN a \div b ELSE a \div b + 1
Lesser(a, b) == IF a < b THEN a ELSE b
rows_len(m) == Lesser(divide_ceil(Len(Direct[m]), ColsLen[m]), MAX_ROWS)
Row(m, i) == (i - 1) \div ColsLen[m]

Detect(s, p) == \E pin \in Pins : \/ s[pin] = "low" /\ pin \in p
                                  \/ s[pin] = "high" /\ pin \notin p

\* EVENTS_PORT after a step that sets the senses to s and the switches to p.
Edge(s, p) == event \/ (~Detect(sense, pressed) /\ Detect(s, p))

Init ==
  /\ pressed \in SUBSET Pins
  /\ sense = [pin \in Pins |-> "off"]
  /\ event = FALSE
  /\ inten = FALSE
  /\ direct_len = [m \in Matrices |-> 0]
  /\ matrix = [m \in Matrices |-> {}]
  /\ previous = [m \in Matrices |-> {}]
  /\ isr = [at |-> "idle", m |-> 0, i |-> 1, value |-> FALSE]
  /\ boot = [at |-> "register", m |-> 0, i |-> 1]
  /\ delivered = [m \in Matrices |-> {}]
  /\ hasty = IF pressed = {} THEN {} ELSE {"boot"}

-----------------------------------------------------------------------------
(* Faulty variants of definitions below, one plausible slip each.  No      *)
(* behaviour uses them: each is put in the place of the definition it is   *)
(* named after to see that a property notices.                             *)

LengthFaulty(m) == ColsLen[m]             \* the wrong length is registered
OppositeSenseFaulty(value) == "low"       \* releases are not sensed
MatrixChangedFaulty(m) == TRUE            \* duplicates are not filtered
\* ... or the rows are counted without rounding up.
MatrixChangedTruncated(m) ==
  \E i \in (matrix[m] \ previous[m]) \cup (previous[m] \ matrix[m]) :
    Row(m, i) < Len(Direct[m]) \div ColsLen[m]
NextScanFaulty == [isr EXCEPT !.at = "idle"]     \* stops at the first matrix
-----------------------------------------------------------------------------
(* A switch opens or closes (external).                                    *)

Switch(pin) ==
  /\ pressed' = IF pin \in pressed THEN pressed \ {pin} ELSE pressed \cup {pin}
  /\ event' = Edge(sense, pressed')
  /\ hasty' = hasty \cup (IF boot.at # "done" THEN {"boot"}
                          ELSE IF event \/ isr.at # "idle" THEN {"handler"} ELSE {})
  /\ UNCHANGED <<sense, inten, scanner, isr, boot, delivered>>

-----------------------------------------------------------------------------
(* init_keyscan_direct, called by the main thread for each configuration.  *)
(* The thread only runs while the handler does not.                        *)

Thread(at) == boot.at = at /\ isr.at = "idle" /\ ~(event /\ inten)

NextMatrix == IF boot.m = 3 THEN [boot EXCEPT !.at = "done"]
              ELSE [at |-> "register", m |-> boot.m + 1, i |-> 1]

SkipUnused ==
  /\ Thread("register") /\ Direct[boot.m] = <<>>
  /\ boot' = NextMatrix
  /\ UNCHANGED <<hardware, scanner, isr, delivered, hasty>>

Length(m) == Len(Direct[m])

\* Until PORT events are disabled, a handler already scans this matrix.
Register ==
  /\ Thread("register") /\ Direct[boot.m] # <<>>
  /\ direct_len' = [direct_len EXCEPT ![boot.m] = Length(boot.m)]
  /\ boot' = [boot EXCEPT !.at = "disable"]
  /\ UNCHANGED <<hardware, matrix, previous, isr, delivered, hasty>>

gpiote_disable_port_events ==
  /\ Thread("disable")
  /\ inten' = FALSE
  /\ boot' = [boot EXCEPT !.at = "configure"]
  /\ UNCHANGED <<pressed, sense, event, scanner, isr, delivered, hasty>>

ConfigurePin ==
  /\ Thread("configure") /\ boot.i <= Len(Direct[boot.m])
  /\ sense' = [sense EXCEPT ![Direct[boot.m][boot.i]] = "low"]
  /\ event' = Edge(sense', pressed)
  /\ boot' = [boot EXCEPT !.i = @ + 1]
  /\ UNCHANGED <<pressed, inten, scanner, isr, delivered, hasty>>

gpiote_enable_port_events ==
  /\ Thread("configure") /\ boot.i > Len(Direct[boot.m])
  /\ event' = FALSE
  /\ inten' = TRUE
  /\ boot' = NextMatrix
  /\ UNCHANGED <<pressed, sense, scanner, isr, delivered, hasty>>

init_keyscan_direct ==
  \/ SkipUnused \/ Register \/ gpiote_disable_port_events
  \/ ConfigurePin \/ gpiote_enable_port_events

-----------------------------------------------------------------------------
(* GPIOTE_IRQHandler, GPIOTE_PortEventHandler and keyscan_direct.          *)

TakeEvent ==
  /\ isr.at = "idle" /\ event /\ inten
  /\ event' = FALSE
  /\ isr' = [at |-> "matrix", m |-> 0, i |-> 1, value |-> FALSE]
  /\ UNCHANGED <<pressed, sense, inten, scanner, boot, delivered, hasty>>

NextScan == IF isr.m = 3 THEN [isr EXCEPT !.at = "idle"]
            ELSE [isr EXCEPT !.at = "matrix", !.m = @ + 1, !.i = 1]

SkipMatrix ==
  /\ isr.at = "matrix" /\ direct_len[isr.m] = 0
  /\ isr' = NextScan
  /\ UNCHANGED <<hardware, scanner, boot, delivered, hasty>>

StartScan ==
  /\ isr.at = "matrix" /\ direct_len[isr.m] # 0
  /\ previous' = [previous EXCEPT ![isr.m] = matrix[isr.m]]
  /\ isr' = [isr EXCEPT !.at = "read"]
  /\ UNCHANGED <<hardware, direct_len, matrix, boot, delivered, hasty>>

\* A closed switch pulls its pin low; a pin whose input is not connected yet
\* reads low too.
ValueRead == LET pin == Direct[isr.m][isr.i] IN pin \in pressed \/ sense[pin] = "off"

ReadPin ==
  /\ isr.at = "read" /\ isr.i <= direct_len[isr.m]
  /\ isr' = [isr EXCEPT !.at = "set_cnf", !.value = ValueRead]
  /\ UNCHANGED <<hardware, scanner, boot, delivered, hasty>>

OppositeSense(value) == IF value THEN "high" ELSE "low"

SetCnf ==
  /\ isr.at = "set_cnf"
  /\ matrix' = [matrix EXCEPT ![isr.m] = IF isr.value THEN @ \cup {isr.i} ELSE @ \ {isr.i}]
  /\ sense' = [sense EXCEPT ![Direct[isr.m][isr.i]] = OppositeSense(isr.value)]
  /\ event' = Edge(sense', pressed)
  /\ isr' = [isr EXCEPT !.at = "read", !.i = @ + 1]
  /\ UNCHANGED <<pressed, inten, direct_len, previous, boot, delivered, hasty>>

\* keyscan_has_matrix_changed.  keyscan_debounce, its last condition, always
\* lets the change through: debounceTimeoutStarted is never set.
MatrixChanged(m) ==
  \E i \in (matrix[m] \ previous[m]) \cup (previous[m] \ matrix[m]) :
    Row(m, i) < rows_len(m)

EndScan ==
  /\ isr.at = "read" /\ isr.i > direct_len[isr.m]
  /\ delivered' = IF MatrixChanged(isr.m)
                  THEN [delivered EXCEPT ![isr.m] = matrix[isr.m]] ELSE delivered
  /\ isr' = NextScan
  /\ UNCHANGED <<hardware, scanner, boot, hasty>>

GPIOTE_IRQHandler ==
  TakeEvent \/ SkipMatrix \/ StartScan \/ ReadPin \/ SetCnf \/ EndScan

Next ==
  \/ \E pin \in Pins : Switch(pin)
  \/ init_keyscan_direct
  \/ GPIOTE_IRQHandler

Spec == Init /\ [][Next]_vars

\* A handler that has an event to handle runs, and the thread goes on when
\* the handler is done.  Nothing makes a switch move.
FairSpec == Spec /\ WF_vars(GPIOTE_IRQHandler) /\ WF_vars(init_keyscan_direct)

-----------------------------------------------------------------------------
(* Properties                                                              *)

HardwareTypes ==
  /\ pressed \subseteq Pins
  /\ sense \in [Pins -> {"off", "low", "high"}]
  /\ event \in BOOLEAN /\ inten \in BOOLEAN

ScannerTypes ==
  /\ direct_len \in [Matrices -> Nat]
  /\ \A m \in Matrices : direct_len[m] \in {0, Len(Direct[m])}
  /\ matrix \in [Matrices -> SUBSET (Nat \ {0})]
  /\ previous \in [Matrices -> SUBSET (Nat \ {0})]
  /\ delivered \in [Matrices -> SUBSET (Nat \ {0})]
  /\ hasty \subseteq {"boot", "handler"}

HandlerPlaces == [at : {"idle", "matrix", "read", "set_cnf"}, m : Matrices,
                  i : Nat \ {0}, value : BOOLEAN]
BootPlaces == [at : {"register", "disable", "configure", "done"}, m : Matrices,
               i : Nat \ {0}]

\* Types; a configuration is registered whole or not at all, and the handler
\* never leaves it (keyscan.c:52, 145).
TypeOK ==
  /\ HardwareTypes /\ ScannerTypes
  /\ isr \in HandlerPlaces /\ boot \in BootPlaces
  /\ isr.at = "set_cnf" => isr.i \in DOMAIN Direct[isr.m]

Reported == UNION {{Direct[m][i] : i \in delivered[m]} : m \in Matrices}

\* Between two runs of the handler everything it has read was handed to
\* KEYSCAN_EventHandler, for every matrix and every row.
AllDelivered == isr.at = "idle" => delivered = matrix

\* After an undisturbed boot a pin senses the level opposite to the one last
\* read from it, so that its next change is a trigger (docs/keyscan.md:139-142).
SenseOpposite ==
  boot.at = "done" /\ "boot" \notin hasty =>
    \A m \in Matrices : \A i \in 1 .. direct_len[m] :
      sense[Direct[m][i]] = IF i \in matrix[m] THEN "high" ELSE "low"

\* Whenever the handler is done and no event is pending, a switch whose state
\* was not read keeps DETECT high: the hardware still knows of the change
\* although no event announces it.
MissedIsSensed ==
  boot.at = "done" /\ "boot" \notin hasty /\ isr.at = "idle" /\ ~event =>
    \/ pressed = Reported
    \/ Detect(sense, pressed)

\* The handler is never called twice in a row with the same switch states
\* (docs/keyscan.md:144-145).
NoDuplicate ==
  [][\A m \in Matrices :
       isr.at = "read" /\ isr.m = m /\ isr' = NextScan /\ MatrixChanged(m)
         => matrix[m] # delivered[m]]_vars

\* Where switches only move while nothing is being handled, every change of
\* every switch is reported.
CalmEdgesDetected == pressed # Reported ~> (pressed = Reported \/ hasty # {})

\* "The module automatically configures each pin to detect both rising and
\* falling edges" (docs/keyscan.md:139-140): after an undisturbed boot every
\* change that lasts is reported.
EdgesDetected ==
  \A pin \in Pins :
    ((pin \in pressed) # (pin \in Reported)) ~>
      ((pin \in pressed) = (pin \in Reported) \/ "boot" \in hasty)
=============================================================================
