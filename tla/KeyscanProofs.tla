---------------------------- MODULE KeyscanProofs ----------------------------
(* Theorems about the key scanner of Keyscan, for every set of switches and  *)
(* every wiring of them to the four configurations.                          *)
EXTENDS Keyscan, TLAPS

-----------------------------------------------------------------------------
(* The inductive invariant, part by part.                                    *)

Scanning(m) == isr.at \in {"read", "set_cnf"} /\ isr.m = m

\* What was read and not yet handed over is what is being scanned.
Handed == \A m \in Matrices : /\ matrix[m] \subseteq DOMAIN Direct[m]
                              /\ previous[m] \subseteq DOMAIN Direct[m]
                              /\ delivered[m] = IF Scanning(m) THEN previous[m] ELSE matrix[m]

\* A boot during which no switch is pressed goes unnoticed by the handler.
QuietBoot == "boot" \notin hasty /\ boot.at # "done" =>
               /\ pressed = {} /\ event = FALSE /\ isr.at = "idle"
               /\ \A m \in Matrices : matrix[m] = {}
               /\ \A pin \in Pins : sense[pin] # "high"

\* How far boot has come.
Registered == /\ boot.at \in {"register", "disable"} => boot.i = 1
              /\ boot.at = "done" => boot.m = 3
              /\ \A m \in Matrices :
                   m < boot.m \/ (m = boot.m /\ boot.at # "register")
                     => direct_len[m] = Len(Direct[m])

Configured(m, i) == boot.at = "done" \/ m < boot.m \/ (m = boot.m /\ i < boot.i)

Armed == "boot" \notin hasty =>
           \A m \in Matrices : \A i \in DOMAIN Direct[m] :
             Configured(m, i) =>
               sense[Direct[m][i]] = IF i \in matrix[m] THEN "high" ELSE "low"

KeyscanInv == TypeOK /\ Handed /\ QuietBoot /\ Registered /\ Armed

-----------------------------------------------------------------------------
(* The wiring and the rows.                                                  *)

LEMMA DirectFacts ==
  ASSUME NEW m \in Matrices
  PROVE  /\ Len(Direct[m]) \in Nat
         /\ DOMAIN Direct[m] = 1 .. Len(Direct[m])
         /\ \A i \in DOMAIN Direct[m] : Direct[m][i] \in Pins
BY KeyscanAssumption

LEMMA WiringFacts ==
  /\ \A m, n \in Matrices : \A i \in DOMAIN Direct[m], j \in DOMAIN Direct[n] :
       Direct[m][i] = Direct[n][j] => m = n /\ i = j
  /\ \A pin \in Pins : \E m \in Matrices : \E i \in DOMAIN Direct[m] : Direct[m][i] = pin
<1>1. ASSUME NEW m \in Matrices, NEW n \in Matrices,
             NEW i \in DOMAIN Direct[m], NEW j \in DOMAIN Direct[n],
             Direct[m][i] = Direct[n][j]
      PROVE  m = n /\ i = j
  <2>1. Direct[m][i] \in Pins
    BY DirectFacts
  <2>2. Wired(Direct[m][i], m, i) /\ Wired(Direct[m][i], n, j)
    BY <1>1 DEF Wired
  <2>3. QED  BY <2>1, <2>2, WiringAssumption
<1>2. ASSUME NEW pin \in Pins
      PROVE  \E m \in Matrices : \E i \in DOMAIN Direct[m] : Direct[m][i] = pin
  BY WiringAssumption DEF Wired
<1>3. QED  BY <1>1, <1>2

\* Every index of a configuration lies in a row that is compared.
LEMMA RowFacts ==
  ASSUME NEW m \in Matrices, NEW i \in DOMAIN Direct[m]
  PROVE  Row(m, i) < rows_len(m)
<1> DEFINE L == Len(Direct[m])
           C == ColsLen[m]
           q == (i - 1) \div C
<1>1. L \in Nat /\ C \in 1 .. 32 /\ L <= C * 8 /\ i \in 1 .. L
  BY DirectFacts, KeyscanAssumption DEF MAX_ROWS
<1> HIDE DEF L, C
<1>2. q \in Nat /\ q * C <= i - 1
  BY <1>1
<1>3. q < 8
  BY <1>1, <1>2
<1>4. q < divide_ceil(L, C)
  <2> DEFINE d == L \div C
  <2>1. d \in Nat /\ d * C <= L /\ L < d * C + C
    BY <1>1
  <2>2. L % C = 0 => d * C = L
    BY <1>1
  <2> HIDE DEF d, q
  <2>3. L % C = 0 => q < d
    BY <1>1, <1>2, <2>1, <2>2
  <2>4. q < d + 1
    BY <1>1, <1>2, <2>1
  <2>5. QED  BY <2>3, <2>4 DEF divide_ceil, d
<1>5. QED  BY <1>3, <1>4 DEF Row, rows_len, Lesser, MAX_ROWS, L, C

-----------------------------------------------------------------------------
(* Types.                                                                    *)

LEMMA TypeInit == Init => TypeOK
<1> SUFFICES ASSUME Init PROVE TypeOK
  OBVIOUS
<1>1. HardwareTypes
  <2>1. event \in BOOLEAN /\ inten \in BOOLEAN
    BY Zenon DEF Init
  <2>2. QED  BY <2>1 DEF Init, HardwareTypes
<1>2. ScannerTypes
  BY DEF Init, ScannerTypes
<1>3. isr \in HandlerPlaces /\ isr.at # "set_cnf"
  BY DEF Init, HandlerPlaces, Matrices
<1>4. boot \in BootPlaces
  BY DEF Init, BootPlaces, Matrices
<1>5. QED  BY <1>1, <1>2, <1>3, <1>4 DEF TypeOK

LEMMA HardwareType ==
  ASSUME TypeOK, Next
  PROVE  HardwareTypes'
<1> USE DEF TypeOK, HardwareTypes
<1>1. ASSUME NEW pin \in Pins, Switch(pin) PROVE HardwareTypes'
  <2>1. pressed' \subseteq Pins
    BY <1>1 DEF Switch
  <2>2. event' \in BOOLEAN
    BY <1>1, Zenon DEF Switch, Edge
  <2>3. QED  BY <1>1, <2>1, <2>2 DEF Switch
<1>2. CASE SkipUnused
  BY <1>2 DEF SkipUnused, hardware
<1>3. CASE Register
  BY <1>3 DEF Register, hardware
<1>4. CASE gpiote_disable_port_events
  <2>1. inten' \in BOOLEAN
    BY <1>4, Zenon DEF gpiote_disable_port_events
  <2>2. QED  BY <1>4, <2>1 DEF gpiote_disable_port_events
<1>5. CASE ConfigurePin
  <2>1. event' \in BOOLEAN
    BY <1>5, Zenon DEF ConfigurePin, Edge
  <2>2. QED  BY <1>5, <2>1 DEF ConfigurePin
<1>6. CASE gpiote_enable_port_events
  <2>1. event' \in BOOLEAN /\ inten' \in BOOLEAN
    BY <1>6, Zenon DEF gpiote_enable_port_events
  <2>2. QED  BY <1>6, <2>1 DEF gpiote_enable_port_events
<1>7. CASE TakeEvent
  <2>1. event' \in BOOLEAN
    BY <1>7, Zenon DEF TakeEvent
  <2>2. QED  BY <1>7, <2>1 DEF TakeEvent
<1>8. CASE SkipMatrix \/ StartScan \/ ReadPin \/ EndScan
  BY <1>8 DEF SkipMatrix, StartScan, ReadPin, EndScan, hardware
<1>9. CASE SetCnf
  <2>1. event' \in BOOLEAN
    BY <1>9, Zenon DEF SetCnf, Edge
  <2>2. QED  BY <1>9, <2>1 DEF SetCnf, OppositeSense
<1>10. QED
  BY <1>1, <1>2, <1>3, <1>4, <1>5, <1>6, <1>7, <1>8, <1>9
     DEF Next, init_keyscan_direct, GPIOTE_IRQHandler

LEMMA ScannerType ==
  ASSUME TypeOK, Next
  PROVE  ScannerTypes'
<1> USE DEF TypeOK, ScannerTypes
<1>1. ASSUME NEW pin \in Pins, Switch(pin) PROVE ScannerTypes'
  BY <1>1 DEF Switch, scanner
<1>2. CASE SkipUnused \/ gpiote_disable_port_events \/ ConfigurePin \/ gpiote_enable_port_events
  BY <1>2 DEF SkipUnused, gpiote_disable_port_events, ConfigurePin, gpiote_enable_port_events, scanner
<1>3. CASE Register
  <2>1. Len(Direct[boot.m]) \in Nat
    BY DirectFacts DEF BootPlaces
  <2>2. QED  BY <1>3, <2>1 DEF Register, Length
<1>4. CASE TakeEvent \/ SkipMatrix \/ ReadPin
  BY <1>4 DEF TakeEvent, SkipMatrix, ReadPin, scanner
<1>5. CASE StartScan
  BY <1>5 DEF StartScan, HandlerPlaces
<1>6. CASE SetCnf
  BY <1>6 DEF SetCnf, HandlerPlaces
<1>7. CASE EndScan
  BY <1>7 DEF EndScan, scanner, HandlerPlaces
<1>8. QED
  BY <1>1, <1>2, <1>3, <1>4, <1>5, <1>6, <1>7 DEF Next, init_keyscan_direct, GPIOTE_IRQHandler

LEMMA NextScanFacts ==
  ASSUME TypeOK
  PROVE  /\ NextScan \in HandlerPlaces
         /\ NextScan.at = IF isr.m = 3 THEN "idle" ELSE "matrix"
<1>1. CASE isr.m = 3
  BY <1>1 DEF TypeOK, NextScan, HandlerPlaces
<1>2. CASE isr.m # 3
  <2>1. isr.m + 1 \in Matrices
    BY <1>2 DEF TypeOK, HandlerPlaces, Matrices
  <2>2. NextScan = [at |-> "matrix", m |-> isr.m + 1, i |-> 1, value |-> isr.value]
    BY <1>2 DEF TypeOK, NextScan, HandlerPlaces
  <2>3. isr.value \in BOOLEAN
    BY DEF TypeOK, HandlerPlaces
  <2>4. QED  BY <1>2, <2>1, <2>2, <2>3 DEF HandlerPlaces
<1>3. QED  BY <1>1, <1>2

LEMMA NextMatrixFacts ==
  ASSUME TypeOK
  PROVE  /\ NextMatrix \in BootPlaces
         /\ boot.m = 3 => NextMatrix.at = "done" /\ NextMatrix.m = 3 /\ NextMatrix.i = boot.i
         /\ boot.m # 3 => NextMatrix = [at |-> "register", m |-> boot.m + 1, i |-> 1]
<1>1. CASE boot.m = 3
  BY <1>1 DEF TypeOK, NextMatrix, BootPlaces
<1>2. CASE boot.m # 3
  <2>1. boot.m + 1 \in Matrices
    BY <1>2 DEF TypeOK, BootPlaces, Matrices
  <2>2. QED  BY <1>2, <2>1 DEF TypeOK, NextMatrix, BootPlaces
<1>3. QED  BY <1>1, <1>2

LEMMA HandlerType ==
  ASSUME TypeOK, Next
  PROVE  isr' \in HandlerPlaces /\ (isr'.at = "set_cnf" => isr'.i \in DOMAIN Direct[isr'.m])
<1> DEFINE Goal == isr' \in HandlerPlaces
                   /\ (isr'.at = "set_cnf" => isr'.i \in DOMAIN Direct[isr'.m])
<1>1. ASSUME NEW pin \in Pins, Switch(pin) PROVE Goal
  BY <1>1 DEF Switch, TypeOK
<1>2. CASE init_keyscan_direct
  BY <1>2 DEF init_keyscan_direct, SkipUnused, Register, gpiote_disable_port_events,
              ConfigurePin, gpiote_enable_port_events, TypeOK
<1>3. CASE TakeEvent
  BY <1>3 DEF TakeEvent, HandlerPlaces, Matrices
<1>4. CASE SkipMatrix \/ EndScan
  BY <1>4, NextScanFacts DEF SkipMatrix, EndScan
<1>5. CASE StartScan
  BY <1>5 DEF StartScan, TypeOK, HandlerPlaces
<1>6. CASE ReadPin
  <2>1. isr.i \in DOMAIN Direct[isr.m]
    BY <1>6, DirectFacts DEF ReadPin, TypeOK, ScannerTypes, HandlerPlaces
  <2>2. ValueRead \in BOOLEAN
    BY Zenon DEF ValueRead
  <2>3. isr' = [isr EXCEPT !.at = "set_cnf", !.value = ValueRead]
    BY <1>6 DEF ReadPin
  <2>4. QED  BY <2>1, <2>2, <2>3 DEF TypeOK, HandlerPlaces
<1>7. CASE SetCnf
  <2>1. isr.i + 1 \in Nat \ {0}
    BY DEF TypeOK, HandlerPlaces
  <2>2. isr' = [isr EXCEPT !.at = "read", !.i = isr.i + 1]
    BY <1>7 DEF SetCnf
  <2>3. QED  BY <2>1, <2>2 DEF TypeOK, HandlerPlaces
<1>8. QED
  BY <1>1, <1>2, <1>3, <1>4, <1>5, <1>6, <1>7 DEF Next, GPIOTE_IRQHandler

LEMMA BootType ==
  ASSUME TypeOK, Next
  PROVE  boot' \in BootPlaces
<1>1. ASSUME NEW pin \in Pins, Switch(pin) PROVE boot' \in BootPlaces
  BY <1>1 DEF Switch, TypeOK
<1>2. CASE SkipUnused \/ gpiote_enable_port_events
  BY <1>2, NextMatrixFacts DEF SkipUnused, gpiote_enable_port_events
<1>3. CASE Register \/ gpiote_disable_port_events \/ ConfigurePin
  BY <1>3 DEF Register, gpiote_disable_port_events, ConfigurePin, TypeOK, BootPlaces
<1>4. CASE GPIOTE_IRQHandler
  BY <1>4 DEF GPIOTE_IRQHandler, TakeEvent, SkipMatrix, StartScan, ReadPin, SetCnf, EndScan, TypeOK
<1>5. QED  BY <1>1, <1>2, <1>3, <1>4 DEF Next, init_keyscan_direct

LEMMA TypeStep == TypeOK /\ [Next]_vars => TypeOK'
<1>1. ASSUME TypeOK, Next PROVE TypeOK'
  BY <1>1, HardwareType, ScannerType, HandlerType, BootType DEF TypeOK
<1>2. ASSUME TypeOK, UNCHANGED vars PROVE TypeOK'
  BY <1>2 DEF vars, hardware, scanner, TypeOK, HardwareTypes, ScannerTypes
<1>3. QED  BY <1>1, <1>2

-----------------------------------------------------------------------------
(* What is handed over.                                                      *)

LEMMA HandedInit == Init => Handed
BY DEF Init, Handed, Scanning

LEMMA HandedStep ==
  ASSUME TypeOK, Handed, Next
  PROVE  Handed'
<1> USE DEF TypeOK, ScannerTypes, HandlerPlaces, Handed, Scanning
<1>1. ASSUME NEW pin \in Pins, Switch(pin) PROVE Handed'
  BY <1>1 DEF Switch, scanner
<1>2. CASE init_keyscan_direct
  BY <1>2 DEF init_keyscan_direct, SkipUnused, Register, gpiote_disable_port_events,
              ConfigurePin, gpiote_enable_port_events, scanner
<1>3. CASE TakeEvent
  BY <1>3 DEF TakeEvent, scanner
<1>4. CASE SkipMatrix
  BY <1>4, NextScanFacts DEF SkipMatrix, scanner
<1>5. CASE StartScan
  BY <1>5 DEF StartScan
<1>6. CASE ReadPin
  BY <1>6 DEF ReadPin, scanner
<1>7. CASE SetCnf
  BY <1>7 DEF SetCnf
<1>8. CASE EndScan
  <2>1. ~MatrixChanged(isr.m) => matrix[isr.m] = previous[isr.m]
    BY RowFacts DEF MatrixChanged
  <2>2. /\ isr.at = "read" /\ isr.m \in Matrices
        /\ isr'.at \notin {"read", "set_cnf"}
        /\ matrix' = matrix /\ previous' = previous
        /\ delivered' = IF MatrixChanged(isr.m)
                         THEN [delivered EXCEPT ![isr.m] = matrix[isr.m]] ELSE delivered
    BY <1>8, NextScanFacts DEF EndScan, scanner
  <2>3. ASSUME NEW m \in Matrices PROVE delivered'[m] = matrix[m]
    <3>1. CASE m = isr.m
      BY <2>1, <2>2, <3>1
    <3>2. CASE m # isr.m
      BY <2>2, <3>2
    <3>3. QED  BY <3>1, <3>2
  <2>4. QED  BY <2>2, <2>3
<1>9. QED
  BY <1>1, <1>2, <1>3, <1>4, <1>5, <1>6, <1>7, <1>8 DEF Next, GPIOTE_IRQHandler

-----------------------------------------------------------------------------
(* Boot.                                                                     *)

LEMMA BootInit == Init => QuietBoot /\ Registered
BY DEF Init, QuietBoot, Registered, Matrices

LEMMA QuietBootStep ==
  ASSUME TypeOK, QuietBoot, Next
  PROVE  QuietBoot'
<1> USE DEF TypeOK, HardwareTypes, ScannerTypes, QuietBoot
<1>1. ASSUME NEW pin \in Pins, Switch(pin) PROVE QuietBoot'
  BY <1>1 DEF Switch, scanner
<1>2. CASE SkipUnused
  BY <1>2 DEF SkipUnused, Thread, hardware, scanner
<1>3. CASE Register
  BY <1>3 DEF Register, Thread, hardware
<1>4. CASE gpiote_disable_port_events
  BY <1>4 DEF gpiote_disable_port_events, Thread, scanner
<1>5. CASE ConfigurePin
  BY <1>5 DEF ConfigurePin, Thread, Edge, Detect, scanner
<1>6. CASE gpiote_enable_port_events
  BY <1>6 DEF gpiote_enable_port_events, Thread, scanner
<1>7. CASE GPIOTE_IRQHandler
  BY <1>7 DEF GPIOTE_IRQHandler, TakeEvent, SkipMatrix, StartScan, ReadPin, SetCnf, EndScan
<1>8. QED
  BY <1>1, <1>2, <1>3, <1>4, <1>5, <1>6, <1>7 DEF Next, init_keyscan_direct

LEMMA RegisteredStep ==
  ASSUME TypeOK, Registered, Next
  PROVE  Registered'
<1> USE DEF TypeOK, ScannerTypes, BootPlaces, Registered, Matrices
<1>1. ASSUME NEW pin \in Pins, Switch(pin) PROVE Registered'
  BY <1>1 DEF Switch, scanner
<1>2. CASE SkipUnused
  <2>1. direct_len[boot.m] = Len(Direct[boot.m])
    BY <1>2, DirectFacts DEF SkipUnused
  <2>2. QED  BY <1>2, <2>1, NextMatrixFacts DEF SkipUnused, Thread, scanner
<1>3. CASE Register
  BY <1>3 DEF Register, Thread, Length
<1>4. CASE gpiote_disable_port_events
  BY <1>4 DEF gpiote_disable_port_events, Thread, scanner
<1>5. CASE ConfigurePin
  BY <1>5 DEF ConfigurePin, Thread, scanner
<1>6. CASE gpiote_enable_port_events
  <2>1. direct_len[boot.m] = Len(Direct[boot.m]) /\ direct_len' = direct_len
    BY <1>6 DEF gpiote_enable_port_events, Thread, scanner
  <2>2. boot' = NextMatrix
    BY <1>6 DEF gpiote_enable_port_events
  <2>3. CASE boot.m = 3
    BY <2>1, <2>2, <2>3, NextMatrixFacts
  <2>4. CASE boot.m # 3
    <3>1. boot'.at = "register" /\ boot'.i = 1 /\ boot'.m = boot.m + 1
      <4>1. NextMatrix = [at |-> "register", m |-> boot.m + 1, i |-> 1]
        BY <2>4, NextMatrixFacts
      <4>2. QED  BY <2>2, <4>1
    <3>2. ASSUME NEW m \in Matrices, m < boot'.m PROVE direct_len[m] = Len(Direct[m])
      <4>1. m < boot.m \/ m = boot.m
        BY <3>1, <3>2
      <4>2. QED  BY <2>1, <4>1
    <3>3. QED  BY <2>1, <3>1, <3>2
  <2>5. QED  BY <2>3, <2>4
<1>7. CASE GPIOTE_IRQHandler
  BY <1>7 DEF GPIOTE_IRQHandler, TakeEvent, SkipMatrix, StartScan, ReadPin, SetCnf, EndScan, scanner
<1>8. QED
  BY <1>1, <1>2, <1>3, <1>4, <1>5, <1>6, <1>7 DEF Next, init_keyscan_direct

-----------------------------------------------------------------------------
(* The sense of the pins.                                                    *)

LEMMA ArmedInit == Init => Armed
<1> SUFFICES ASSUME Init PROVE Armed
  OBVIOUS
<1>1. ~ \E m \in Matrices : \E i \in DOMAIN Direct[m] : Configured(m, i)
  BY DirectFacts DEF Init, Configured, Matrices
<1>2. QED  BY <1>1 DEF Armed

\* Boot goes on to the next configuration.
LEMMA ArmedNextMatrix ==
  ASSUME TypeOK, Armed, boot' = NextMatrix, boot.at # "done",
         sense' = sense, matrix' = matrix, hasty' = hasty,
         \A i \in DOMAIN Direct[boot.m] : i < boot.i
  PROVE  Armed'
<1>1. SUFFICES ASSUME "boot" \notin hasty, NEW m \in Matrices, NEW i \in DOMAIN Direct[m],
                      Configured(m, i)'
               PROVE  sense[Direct[m][i]] = IF i \in matrix[m] THEN "high" ELSE "low"
  BY DEF Armed
<1>2. Configured(m, i)
  <2>1. boot.m \in Matrices /\ i \in Nat
    BY DirectFacts DEF TypeOK, BootPlaces
  <2>2. CASE boot.m = 3
    BY <2>1, <2>2 DEF Configured, Matrices
  <2>3. CASE boot.m # 3
    <3>1. boot'.m = boot.m + 1 /\ boot'.i = 1 /\ boot'.at = "register"
      BY <2>3, NextMatrixFacts
    <3>2. m < boot.m + 1 \/ (m = boot.m + 1 /\ i < 1)
      BY <1>1, <3>1 DEF Configured
    <3>3. ~(i < 1)
      BY DirectFacts
    <3>4. m < boot.m \/ m = boot.m
      BY <2>1, <3>2, <3>3 DEF Matrices
    <3>5. QED  BY <3>4 DEF Configured
  <2>4. QED  BY <2>2, <2>3
<1>3. QED  BY <1>1, <1>2 DEF Armed

LEMMA ArmedStep ==
  ASSUME TypeOK, QuietBoot, Registered, Armed, Next
  PROVE  Armed'
<1>1. ASSUME NEW pin \in Pins, Switch(pin) PROVE Armed'
  BY <1>1 DEF Switch, scanner, Armed, Configured
<1>2. CASE SkipUnused
  BY <1>2, ArmedNextMatrix, DirectFacts DEF SkipUnused, Thread, hardware, scanner, TypeOK, BootPlaces
<1>3. CASE Register \/ gpiote_disable_port_events
  BY <1>3 DEF Register, gpiote_disable_port_events, Thread, hardware, scanner, Armed, Configured,
              TypeOK, BootPlaces
<1>4. CASE ConfigurePin
  <2>1. SUFFICES ASSUME "boot" \notin hasty, NEW m \in Matrices, NEW i \in DOMAIN Direct[m],
                        Configured(m, i)'
                 PROVE  sense'[Direct[m][i]] = "low" /\ i \notin matrix[m]
    BY <1>4 DEF ConfigurePin, scanner, Armed
  <2>2. matrix[m] = {}
    BY <1>4, <2>1 DEF ConfigurePin, Thread, QuietBoot
  <2>3. boot.m \in Matrices /\ boot.i \in Nat \ {0} /\ i \in Nat
    BY DirectFacts DEF TypeOK, BootPlaces
  <2>4. /\ Direct[m][i] \in Pins
        /\ sense \in [Pins -> {"off", "low", "high"}]
        /\ sense' = [sense EXCEPT ![Direct[boot.m][boot.i]] = "low"]
        /\ boot.at = "configure"
        /\ boot' = [boot EXCEPT !.i = boot.i + 1]
    BY <1>4, DirectFacts DEF ConfigurePin, Thread, TypeOK, HardwareTypes
  <2>5. CASE m = boot.m /\ i = boot.i
    BY <2>2, <2>4, <2>5
  <2>6. CASE ~(m = boot.m /\ i = boot.i)
    <3>1. Configured(m, i)
      BY <2>1, <2>3, <2>4, <2>6 DEF Configured, TypeOK, BootPlaces
    <3>2. sense[Direct[m][i]] = "low"
      BY <2>1, <2>2, <3>1 DEF Armed
    <3>3. QED  BY <2>2, <2>4, <3>2
  <2>7. QED  BY <2>5, <2>6
<1>5. CASE gpiote_enable_port_events
  <2>1. \A i \in DOMAIN Direct[boot.m] : i < boot.i
    BY <1>5, DirectFacts DEF gpiote_enable_port_events, TypeOK, BootPlaces
  <2>2. QED
    BY <1>5, <2>1, ArmedNextMatrix DEF gpiote_enable_port_events, Thread, scanner
<1>6. CASE TakeEvent \/ SkipMatrix \/ StartScan \/ ReadPin \/ EndScan
  BY <1>6 DEF TakeEvent, SkipMatrix, StartScan, ReadPin, EndScan, hardware, scanner, Armed, Configured
<1>7. CASE SetCnf
  <2>1. SUFFICES ASSUME "boot" \notin hasty, NEW m \in Matrices, NEW i \in DOMAIN Direct[m],
                        Configured(m, i)
                 PROVE  sense'[Direct[m][i]] = IF i \in matrix'[m] THEN "high" ELSE "low"
    BY <1>7 DEF SetCnf, Armed, Configured
  <2>2. /\ isr.m \in Matrices /\ isr.i \in DOMAIN Direct[isr.m]
        /\ Direct[m][i] \in Pins
        /\ sense \in [Pins -> {"off", "low", "high"}]
        /\ matrix \in [Matrices -> SUBSET (Nat \ {0})]
    BY <1>7, DirectFacts DEF SetCnf, TypeOK, HandlerPlaces, HardwareTypes, ScannerTypes
  <2>3. /\ matrix' = [matrix EXCEPT ![isr.m] = IF isr.value THEN @ \cup {isr.i} ELSE @ \ {isr.i}]
        /\ sense' = [sense EXCEPT ![Direct[isr.m][isr.i]] =
                                   IF isr.value THEN "high" ELSE "low"]
    BY <1>7 DEF SetCnf, OppositeSense
  <2>4. CASE m = isr.m /\ i = isr.i
    BY <2>2, <2>3, <2>4
  <2>5. CASE ~(m = isr.m /\ i = isr.i)
    <3>1. Direct[m][i] # Direct[isr.m][isr.i]
      BY <2>2, <2>5, WiringFacts
    <3>2. sense'[Direct[m][i]] = sense[Direct[m][i]]
      BY <2>2, <2>3, <3>1
    <3>3. i \in matrix'[m] <=> i \in matrix[m]
      BY <2>2, <2>3, <2>5
    <3>4. QED  BY <2>1, <3>2, <3>3 DEF Armed
  <2>6. QED  BY <2>4, <2>5
<1>8. QED
  BY <1>1, <1>2, <1>3, <1>4, <1>5, <1>6, <1>7 DEF Next, init_keyscan_direct, GPIOTE_IRQHandler

-----------------------------------------------------------------------------
(* The invariant.                                                            *)

LEMMA InvInit == Init => KeyscanInv
BY TypeInit, HandedInit, BootInit, ArmedInit DEF KeyscanInv

LEMMA InvStep == KeyscanInv /\ [Next]_vars => KeyscanInv'
<1>1. ASSUME KeyscanInv, Next PROVE KeyscanInv'
  BY <1>1, TypeStep, HandedStep, QuietBootStep, RegisteredStep, ArmedStep DEF KeyscanInv
<1>2. ASSUME KeyscanInv, UNCHANGED vars PROVE KeyscanInv'
  <2>1. TypeOK'
    BY <1>2, TypeStep DEF KeyscanInv
  <2>2. Handed' /\ QuietBoot' /\ Registered' /\ Armed'
    BY <1>2 DEF vars, hardware, scanner, KeyscanInv, Handed, Scanning, QuietBoot, Registered,
                Armed, Configured
  <2>3. QED  BY <2>1, <2>2 DEF KeyscanInv
<1>3. QED  BY <1>1, <1>2

LEMMA InvCorrect == Spec => []KeyscanInv
<1>1. QED  BY InvInit, InvStep, PTL DEF Spec

\* keyscan.c and gpiote.c keep their variables in their types, and the handler
\* never leaves the configuration it scans (keyscan.c:145).
THEOREM TypeCorrect == Spec => []TypeOK
<1>1. KeyscanInv => TypeOK
  BY DEF KeyscanInv
<1>2. QED  BY <1>1, InvCorrect, PTL

\* When the handler is done, all it has read was handed over: no row is left
\* out of the comparison and no change suppressed (keyscan.c:61-68, 104-135).
THEOREM DeliveryCorrect == Spec => []AllDelivered
<1>1. KeyscanInv => AllDelivered
  <2> SUFFICES ASSUME KeyscanInv, isr.at = "idle" PROVE delivered = matrix
    BY DEF AllDelivered
  <2>1. \A m \in Matrices : delivered[m] = matrix[m]
    BY DEF KeyscanInv, Handed, Scanning
  <2>2. QED  BY <2>1 DEF KeyscanInv, TypeOK, ScannerTypes
<1>2. QED  BY <1>1, InvCorrect, PTL

\* Between two runs of the handler a pin is reported if it was read as pressed.
LEMMA ReportedRead ==
  ASSUME KeyscanInv, isr.at = "idle", NEW m \in Matrices, NEW i \in DOMAIN Direct[m]
  PROVE  Direct[m][i] \in Reported <=> i \in matrix[m]
<1>1. \A n \in Matrices : delivered[n] = matrix[n] /\ matrix[n] \subseteq DOMAIN Direct[n]
  BY DEF KeyscanInv, Handed, Scanning
<1>2. Direct[m][i] \in Reported <=> \E n \in Matrices : \E j \in matrix[n] : Direct[m][i] = Direct[n][j]
  BY <1>1 DEF Reported
<1>3. QED  BY <1>1, <1>2, WiringFacts

\* After a boot during which no switch was pressed, every pin senses the level
\* opposite to the one last read from it (keyscan.c:148-162).
THEOREM SenseCorrect == Spec => []SenseOpposite
<1>1. KeyscanInv => SenseOpposite
  <2> SUFFICES ASSUME KeyscanInv, boot.at = "done", "boot" \notin hasty,
                      NEW m \in Matrices, NEW i \in 1 .. direct_len[m]
               PROVE  sense[Direct[m][i]] = IF i \in matrix[m] THEN "high" ELSE "low"
    BY DEF SenseOpposite
  <2>1. i \in DOMAIN Direct[m]
    BY DirectFacts DEF KeyscanInv, TypeOK, ScannerTypes
  <2>2. QED  BY <2>1 DEF KeyscanInv, Armed, Configured
<1>2. QED  BY <1>1, InvCorrect, PTL

\* ... so that a switch whose state was not read keeps DETECT high: what the
\* handler missed, the hardware still shows (keyscan.c:145-162).
THEOREM MissedCorrect == Spec => []MissedIsSensed
<1>1. KeyscanInv => MissedIsSensed
  <2> SUFFICES ASSUME KeyscanInv, boot.at = "done", "boot" \notin hasty, isr.at = "idle",
                      ~Detect(sense, pressed)
               PROVE  pressed = Reported
    BY DEF MissedIsSensed
  <2>1. ASSUME NEW pin \in Pins PROVE pin \in pressed <=> pin \in Reported
    <3>1. PICK m \in Matrices : \E i \in DOMAIN Direct[m] : Direct[m][i] = pin
      BY WiringFacts
    <3>2. PICK i \in DOMAIN Direct[m] : Direct[m][i] = pin
      BY <3>1
    <3>3. sense[pin] = IF i \in matrix[m] THEN "high" ELSE "low"
      BY <3>2 DEF KeyscanInv, Armed, Configured
    <3>4. pin \in Reported <=> i \in matrix[m]
      BY <3>2, ReportedRead
    <3>5. QED  BY <3>3, <3>4 DEF Detect
  <2>2. pressed \subseteq Pins
    BY DEF KeyscanInv, TypeOK, HardwareTypes
  <2>3. Reported \subseteq Pins
    BY DirectFacts DEF Reported, KeyscanInv, Handed, Scanning
  <2>4. QED  BY <2>1, <2>2, <2>3
<1>2. QED  BY <1>1, InvCorrect, PTL

\* The handler is never called twice in a row with the same switches: what is
\* compared with is what was handed over last (keyscan.c:104-135, 148).
THEOREM DuplicateCorrect == Spec => NoDuplicate
<1>1. ASSUME KeyscanInv, NEW m \in Matrices, isr.at = "read", isr.m = m, MatrixChanged(m)
      PROVE  matrix[m] # delivered[m]
  <2>1. delivered[m] = previous[m]
    BY <1>1 DEF KeyscanInv, Handed, Scanning
  <2>2. matrix[m] # previous[m]
    BY <1>1 DEF MatrixChanged
  <2>3. QED  BY <2>1, <2>2
<1>2. KeyscanInv => \A m \in Matrices :
        isr.at = "read" /\ isr.m = m /\ isr' = NextScan /\ MatrixChanged(m)
          => matrix[m] # delivered[m]
  BY <1>1
<1>3. QED  BY <1>2, InvCorrect, PTL DEF NoDuplicate

-----------------------------------------------------------------------------
(* Switches that only move while nothing is being handled.                   *)

\* The handler will still read pin i of matrix m.
Ahead(m, i) ==
  \/ isr.at = "idle" /\ event
  \/ isr.at # "idle" /\ (isr.m < m \/ (isr.m = m /\ (isr.at = "matrix" \/ isr.i <= i)))

Unread(m, i) == (i \in matrix[m]) # (Direct[m][i] \in pressed)

\* A scan starts with the first pin; no switch differs from what was read of
\* it unless its pin is still to be read, and what was just read holds.
CalmInv ==
  /\ isr.at = "matrix" => isr.i = 1
  /\ hasty = {} =>
       /\ \A m \in Matrices : \A i \in DOMAIN Direct[m] : Unread(m, i) => Ahead(m, i)
       /\ isr.at = "set_cnf" => isr.value = (Direct[isr.m][isr.i] \in pressed)

\* With no event pending and the handler done, every switch is reported as it
\* is, if none moved during boot or while another was being handled.
CalmReported == hasty = {} /\ isr.at = "idle" /\ ~event => pressed = Reported

LEMMA CalmInit == Init => CalmInv
BY DEF Init, CalmInv, Unread, Matrices

\* A pin whose sense is the one Armed gives keeps DETECT high exactly while
\* its switch differs from what was read of it.
LEMMA UnreadDetected ==
  ASSUME KeyscanInv, "boot" \notin hasty, boot.at = "done", NEW p
  PROVE  Detect(sense, p) <=> \E n \in Matrices : \E j \in DOMAIN Direct[n] :
                                (j \in matrix[n]) # (Direct[n][j] \in p)
<1>1. \A n \in Matrices : \A j \in DOMAIN Direct[n] :
        Direct[n][j] \in Pins /\ sense[Direct[n][j]] = IF j \in matrix[n] THEN "high" ELSE "low"
  BY DirectFacts DEF KeyscanInv, Armed, Configured
<1>2. \A pin \in Pins : \E n \in Matrices : \E j \in DOMAIN Direct[n] : Direct[n][j] = pin
  BY WiringFacts
<1>3. ASSUME Detect(sense, p)
      PROVE  \E n \in Matrices : \E j \in DOMAIN Direct[n] : (j \in matrix[n]) # (Direct[n][j] \in p)
  <2>1. PICK pin \in Pins : (sense[pin] = "low" /\ pin \in p) \/ (sense[pin] = "high" /\ pin \notin p)
    BY <1>3 DEF Detect
  <2>2. PICK n \in Matrices : \E j \in DOMAIN Direct[n] : Direct[n][j] = pin
    BY <1>2
  <2>3. PICK j \in DOMAIN Direct[n] : Direct[n][j] = pin
    BY <2>2
  <2>4. (j \in matrix[n]) # (Direct[n][j] \in p)
    BY <1>1, <2>1, <2>3
  <2>5. QED  BY <2>4
<1>4. ASSUME NEW n \in Matrices, NEW j \in DOMAIN Direct[n],
             (j \in matrix[n]) # (Direct[n][j] \in p)
      PROVE  Detect(sense, p)
  BY <1>1, <1>4 DEF Detect
<1>5. QED  BY <1>3, <1>4

LEMMA CalmStep ==
  ASSUME KeyscanInv, CalmInv, Next, hasty' = {}
  PROVE  /\ \A m \in Matrices : \A i \in DOMAIN Direct[m] : Unread(m, i)' => Ahead(m, i)'
         /\ isr'.at = "set_cnf" => isr'.value = (Direct[isr'.m][isr'.i] \in pressed')
<1> DEFINE AllAhead == \A m \in Matrices : \A i \in DOMAIN Direct[m] : Unread(m, i) => Ahead(m, i)
           Just == isr.at = "set_cnf" => isr.value = (Direct[isr.m][isr.i] \in pressed)
<1>1. hasty = {}
  BY DEF Next, Switch, init_keyscan_direct, SkipUnused, Register, gpiote_disable_port_events,
         ConfigurePin, gpiote_enable_port_events, GPIOTE_IRQHandler, TakeEvent, SkipMatrix,
         StartScan, ReadPin, SetCnf, EndScan
<1>2. AllAhead /\ Just
  BY <1>1 DEF CalmInv
<1>3. SUFFICES AllAhead' /\ Just'
  OBVIOUS
<1>4. CASE boot.at # "done"
  <2>1. pressed = {} /\ isr.at = "idle" /\ event = FALSE /\ \A m \in Matrices : matrix[m] = {}
    BY <1>1, <1>4 DEF KeyscanInv, QuietBoot
  <2>2. ~ \E pin \in Pins : Switch(pin)
    BY <1>4 DEF Switch
  <2>3. pressed' = pressed /\ matrix' = matrix /\ isr' = isr
    BY <2>1, <2>2 DEF Next, init_keyscan_direct, SkipUnused, Register, gpiote_disable_port_events,
         ConfigurePin, gpiote_enable_port_events, GPIOTE_IRQHandler, TakeEvent, SkipMatrix,
         StartScan, ReadPin, SetCnf, EndScan, hardware, scanner
  <2>4. QED  BY <2>1, <2>3 DEF Unread
<1> SUFFICES ASSUME boot.at = "done" PROVE AllAhead' /\ Just'
  BY <1>4
<1>5. ~init_keyscan_direct
  BY DEF init_keyscan_direct, SkipUnused, Register, gpiote_disable_port_events,
         ConfigurePin, gpiote_enable_port_events, Thread
<1>6. /\ isr \in HandlerPlaces
      /\ \A m \in Matrices : direct_len[m] = Len(Direct[m])
      /\ \A m \in Matrices : \A i \in DOMAIN Direct[m] : i \in 1 .. Len(Direct[m])
      /\ \A m \in Matrices : Len(Direct[m]) \in Nat
  <2>1. boot.m = 3
    BY DEF KeyscanInv, Registered
  <2>2. QED  BY <2>1, DirectFacts DEF KeyscanInv, TypeOK, Registered, Matrices
<1>7. ASSUME NEW pin \in Pins, Switch(pin) PROVE AllAhead' /\ Just'
  <2>1. ~event /\ isr.at = "idle"
    BY <1>7 DEF Switch
  <2>2. isr' = isr /\ matrix' = matrix /\ event' = Edge(sense, pressed')
    BY <1>7 DEF Switch, scanner
  <2>3. \A m \in Matrices : \A i \in DOMAIN Direct[m] : ~Unread(m, i)
    BY <1>2, <2>1 DEF Ahead
  <2>4. ASSUME NEW m \in Matrices, NEW i \in DOMAIN Direct[m], Unread(m, i)' PROVE event'
    <3>1. ~Detect(sense, pressed)
      BY <1>1, <2>3, UnreadDetected DEF Unread
    <3>2. Detect(sense, pressed')
      BY <1>1, <2>2, <2>4, UnreadDetected DEF Unread
    <3>3. QED  BY <2>2, <3>1, <3>2 DEF Edge
  <2>5. QED  BY <2>1, <2>2, <2>4 DEF Ahead
<1>8. CASE TakeEvent
  BY <1>6, <1>8 DEF TakeEvent, Ahead, Matrices, HandlerPlaces
<1>9. CASE SkipMatrix \/ EndScan
  <2>1. /\ pressed' = pressed /\ matrix' = matrix /\ event' = event /\ isr' = NextScan
        /\ isr.at \in {"matrix", "read"}
        /\ \A i \in DOMAIN Direct[isr.m] : isr.at = "read" /\ i < isr.i
    BY <1>6, <1>9 DEF SkipMatrix, EndScan, hardware, scanner, HandlerPlaces
  <2>2. ASSUME NEW m \in Matrices, NEW i \in DOMAIN Direct[m], Unread(m, i) PROVE Ahead(m, i)'
    <3>1. Ahead(m, i)
      BY <1>2, <2>2
    <3>2. isr.m < m
      BY <1>6, <2>1, <3>1 DEF Ahead, HandlerPlaces
    <3>3. isr.m # 3 /\ isr.m + 1 \in Matrices /\ (isr.m + 1 < m \/ isr.m + 1 = m)
      BY <1>6, <3>2 DEF HandlerPlaces, Matrices
    <3>4. isr'.at = "matrix" /\ isr'.m = isr.m + 1
      BY <1>6, <2>1, <3>3 DEF NextScan, HandlerPlaces
    <3>5. QED  BY <3>3, <3>4 DEF Ahead
  <2>3. isr'.at # "set_cnf"
    BY <2>1, NextScanFacts DEF KeyscanInv
  <2>4. QED  BY <2>1, <2>2, <2>3 DEF Unread
<1>10. CASE StartScan
  <2>1. isr.at = "matrix" /\ isr.i = 1
    BY <1>10 DEF StartScan, CalmInv
  <2>2. QED
    BY <1>2, <1>6, <1>10, <2>1 DEF StartScan, Ahead, Unread, HandlerPlaces, hardware
<1>11. CASE ReadPin
  <2>1. Direct[isr.m][isr.i] \in Pins /\ isr.i \in DOMAIN Direct[isr.m] /\ isr.m \in Matrices
    BY <1>6, <1>11, DirectFacts DEF ReadPin, HandlerPlaces
  <2>2. sense[Direct[isr.m][isr.i]] # "off"
    BY <1>1, <2>1 DEF KeyscanInv, Armed, Configured
  <2>3. ValueRead = (Direct[isr.m][isr.i] \in pressed)
    BY <2>2 DEF ValueRead
  <2>4. /\ isr' = [isr EXCEPT !.at = "set_cnf", !.value = ValueRead]
        /\ pressed' = pressed /\ matrix' = matrix /\ event' = event /\ isr.at = "read"
    BY <1>11 DEF ReadPin, hardware, scanner
  <2>5. isr'.at = "set_cnf" /\ isr'.m = isr.m /\ isr'.i = isr.i /\ isr'.value = ValueRead
    BY <1>6, <2>4 DEF HandlerPlaces
  <2>6. Just'
    BY <2>3, <2>4, <2>5
  <2>7. AllAhead'
    BY <1>2, <2>4, <2>5 DEF Ahead, Unread
  <2>8. QED  BY <2>6, <2>7
<1>12. CASE SetCnf
  <2>1. /\ isr.at = "set_cnf" /\ pressed' = pressed
        /\ isr.m \in Matrices /\ isr.i \in Nat
        /\ matrix' = [matrix EXCEPT ![isr.m] = IF isr.value THEN @ \cup {isr.i} ELSE @ \ {isr.i}]
        /\ isr'.at = "read" /\ isr'.m = isr.m /\ isr'.i = isr.i + 1
    BY <1>6, <1>12 DEF SetCnf, HandlerPlaces
  <2>2. matrix \in [Matrices -> SUBSET (Nat \ {0})]
    BY DEF KeyscanInv, TypeOK, ScannerTypes
  <2>3. ASSUME NEW m \in Matrices, NEW i \in DOMAIN Direct[m], Unread(m, i)' PROVE Ahead(m, i)'
    <3>1. ~(m = isr.m /\ i = isr.i)
      <4>1. SUFFICES ASSUME m = isr.m, i = isr.i PROVE FALSE
        OBVIOUS
      <4>2. isr.value <=> Direct[m][i] \in pressed
        BY <1>2, <2>1, <4>1
      <4>3. i \in matrix'[m] <=> isr.value
        BY <2>1, <2>2, <4>1
      <4>4. QED  BY <2>1, <2>3, <4>2, <4>3 DEF Unread
    <3>2. Unread(m, i)
      BY <2>1, <2>2, <2>3, <3>1 DEF Unread
    <3>3. Ahead(m, i)
      BY <1>2, <3>2
    <3>4. i \in Nat
      BY <1>6
    <3>5. QED  BY <2>1, <3>1, <3>3, <3>4 DEF Ahead
  <2>4. QED  BY <2>1, <2>3
<1>13. QED
  BY <1>5, <1>7, <1>8, <1>9, <1>10, <1>11, <1>12 DEF Next, GPIOTE_IRQHandler

LEMMA FirstStep ==
  ASSUME KeyscanInv, CalmInv, Next
  PROVE  isr'.at = "matrix" => isr'.i = 1
<1>1. isr \in HandlerPlaces
  BY DEF KeyscanInv, TypeOK
<1>2. CASE SkipMatrix \/ EndScan
  <2>1. isr' = NextScan
    BY <1>2 DEF SkipMatrix, EndScan
  <2>2. QED  BY <1>1, <2>1 DEF NextScan, HandlerPlaces
<1>3. CASE TakeEvent \/ StartScan \/ ReadPin \/ SetCnf
  <2>1. TakeEvent => isr'.i = 1
    BY DEF TakeEvent
  <2>2. StartScan \/ SetCnf => isr'.at = "read"
    BY <1>1 DEF StartScan, SetCnf, HandlerPlaces
  <2>3. ReadPin => isr'.at = "set_cnf"
    BY <1>1 DEF ReadPin, HandlerPlaces
  <2>4. QED  BY <1>3, <2>1, <2>2, <2>3
<1>4. CASE init_keyscan_direct \/ \E pin \in Pins : Switch(pin)
  <2>1. isr' = isr
    BY <1>4 DEF Switch, init_keyscan_direct, SkipUnused, Register, gpiote_disable_port_events,
                ConfigurePin, gpiote_enable_port_events
  <2>2. QED  BY <2>1 DEF CalmInv
<1>5. QED  BY <1>2, <1>3, <1>4 DEF Next, GPIOTE_IRQHandler

LEMMA CalmInvariant == Spec => [](KeyscanInv /\ CalmInv)
<1>1. ASSUME KeyscanInv, CalmInv, [Next]_vars PROVE CalmInv'
  <2>1. CASE Next /\ hasty' = {}
    BY <1>1, <2>1, FirstStep, CalmStep DEF CalmInv, Unread, Ahead
  <2>2. CASE Next /\ hasty' # {}
    BY <1>1, <2>2, FirstStep DEF CalmInv
  <2>3. CASE UNCHANGED vars
    BY <1>1, <2>3 DEF vars, hardware, scanner, CalmInv, Unread, Ahead
  <2>4. QED  BY <1>1, <2>1, <2>2, <2>3
<1>2. QED  BY <1>1, InvInit, InvStep, CalmInit, PTL DEF Spec

\* With no event pending and the handler done, every switch is reported as it
\* is, if none moved during boot or while another was being handled: the scan
\* leaves out no matrix and no pin (keyscan.c:137-165).
THEOREM CalmCorrect == Spec => []CalmReported
<1>1. KeyscanInv /\ CalmInv => CalmReported
  <2> SUFFICES ASSUME KeyscanInv, CalmInv, hasty = {}, isr.at = "idle", ~event
               PROVE  pressed = Reported
    BY DEF CalmReported
  <2>1. \A m \in Matrices : \A i \in DOMAIN Direct[m] : ~Unread(m, i)
    BY DEF CalmInv, Ahead
  <2>2. \A pin \in Pins : pin \in Reported <=> pin \in pressed
    BY <2>1, ReportedRead, WiringFacts DEF Unread
  <2>3. pressed \subseteq Pins
    BY DEF KeyscanInv, TypeOK, HardwareTypes
  <2>4. Reported \subseteq Pins
    BY DirectFacts DEF Reported, KeyscanInv, Handed, Scanning
  <2>5. QED  BY <2>2, <2>3, <2>4
<1>2. QED  BY <1>1, CalmInvariant, PTL
=============================================================================
