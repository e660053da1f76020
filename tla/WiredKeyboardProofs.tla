------------------------- MODULE WiredKeyboardProofs -------------------------
(* Proofs about WiredKeyboard, for every wiring, layout and movement of    *)
(* switches, cable and host: the scanner, the keymap and the port behave   *)
(* in it as their own specifications say, so that what is proved of them   *)
(* holds in the keyboard, and with that the host is left with no stuck key.*)
EXTENDS WiredKeyboard, KeyscanProofs, SequenceTheorems

LEMMA ScannerStep ==
  ASSUME [WiredNext]_wiredVars
  PROVE  [Next]_vars
<1>1. CASE Handler
  BY <1>1 DEF Handler, ScanStep, keyscan_debounce, KEYSCAN_EventHandler, VisitKeys,
              KEYMAP_ReportHandler, Refuse, Transfer, ReportCopied, ReportSent,
              Next, GPIOTE_IRQHandler
<1>2. CASE example_keymap_hid \/ SwitchMoves
  BY <1>2 DEF example_keymap_hid, Boot, keymap_register_config, SwitchMoves, Next
<1>3. CASE TimerElapses \/ DeviceComesUp \/ DeviceGoesDown \/ HostResets \/ HostPolls
  BY <1>3 DEF TimerElapses, DeviceComesUp, DeviceGoesDown, HostResets, HostForgets, HostPolls
<1>4. CASE UNCHANGED wiredVars
  BY <1>4 DEF wiredVars
<1>5. QED  BY <1>1, <1>2, <1>3, <1>4 DEF WiredNext

LEMMA ScannerRuns == WiredSpec => Spec
<1>1. WiredInit => Init
  BY DEF WiredInit
<1>2. [WiredNext]_wiredVars => [Next]_vars
  BY ScannerStep
<1>3. QED  BY <1>1, <1>2, PTL DEF WiredSpec, Spec

LEMMA PortStep ==
  ASSUME [WiredNext]_wiredVars
  PROVE  [Port!Next]_Port!vars
<1> USE DEF Port!vars, portVars
<1>1. CASE Transfer \/ ReportCopied \/ ReportSent
  BY <1>1 DEF Transfer, ReportCopied, ReportSent, Port!Next
<1>2. CASE ScanStep \/ keyscan_debounce \/ KEYSCAN_EventHandler \/ VisitKeys
           \/ KEYMAP_ReportHandler \/ Refuse \/ example_keymap_hid
  BY <1>2 DEF ScanStep, keyscan_debounce, KEYSCAN_EventHandler, VisitKeys,
              KEYMAP_ReportHandler, Refuse, example_keymap_hid, Boot, keymap_register_config
<1>3. CASE SwitchMoves \/ TimerElapses \/ DeviceComesUp \/ DeviceGoesDown \/ HostResets
           \/ HostPolls
  BY <1>3 DEF SwitchMoves, TimerElapses, DeviceComesUp, DeviceGoesDown, HostResets,
              HostPolls, Port!Next
<1>4. CASE UNCHANGED wiredVars
  BY <1>4 DEF wiredVars
<1>5. QED  BY <1>1, <1>2, <1>3, <1>4 DEF WiredNext, Handler

LEMMA PortRuns == WiredSpec => Port!Spec
<1>1. WiredInit => Port!Init
  BY DEF WiredInit
<1>2. [WiredNext]_wiredVars => [Port!Next]_Port!vars
  BY PortStep
<1>3. QED  BY <1>1, <1>2, PTL DEF WiredSpec, Port!Spec

-----------------------------------------------------------------------------
(* The keymap.                                                             *)

LEMMA MapAssumption == Map!KeymapAssumption
BY LayoutAssumption, ActionsAssumption
   DEF Map!KeymapAssumption, Map!Keys, Map!Layers

\* A scan of a matrix tells of the keys wired to it.
LEMMA ScanFacts ==
  ASSUME NEW m \in Matrices
  PROVE  KeysPressed(m) \subseteq Map!Scanned(0, m)
BY DEF KeysPressed, Map!Scanned, Map!KeysOf, Map!Keys

LEMMA KeymapStep ==
  ASSUME TypeOK, [WiredNext]_wiredVars
  PROVE  [Map!Next]_Map!vars
<1> USE DEF Map!vars, keymapVars, Map!keymap_state, Map!timeout, Map!call, Map!history
<1>1. CASE KEYSCAN_EventHandler
  <2>1. isr.m \in Matrices
    BY DEF TypeOK, HandlerPlaces
  <2>2. Map!keymap_update_state(0, isr.m, KeysPressed(isr.m))
    BY <1>1 DEF KEYSCAN_EventHandler
  <2>3. KeysPressed(isr.m) \in SUBSET Map!Scanned(0, isr.m)
    BY <2>1, ScanFacts
  <2>4. QED  BY <2>1, <2>2, <2>3 DEF Map!Next
<1>2. CASE keyscan_debounce \/ VisitKeys \/ KEYMAP_ReportHandler
  BY <1>2 DEF keyscan_debounce, VisitKeys, KEYMAP_ReportHandler, Map!Next
<1>3. CASE ScanStep \/ Refuse \/ Transfer \/ ReportCopied \/ ReportSent \/ Boot
  BY <1>3 DEF ScanStep, Refuse, Transfer, ReportCopied, ReportSent, Boot
<1>4. CASE keymap_register_config \/ TimerElapses
  BY <1>4 DEF keymap_register_config, TimerElapses, Map!Next
<1>5. CASE SwitchMoves \/ DeviceComesUp \/ DeviceGoesDown \/ HostResets \/ HostPolls
  BY <1>5 DEF SwitchMoves, DeviceComesUp, DeviceGoesDown, HostResets, HostForgets, HostPolls
<1>6. CASE UNCHANGED wiredVars
  BY <1>6 DEF wiredVars
<1>7. QED
  BY <1>1, <1>2, <1>3, <1>4, <1>5, <1>6 DEF WiredNext, Handler, example_keymap_hid

LEMMA KeymapRuns == WiredSpec => Map!Spec
<1>1. WiredInit => Map!Init
  BY DEF WiredInit
<1>2. TypeOK /\ [WiredNext]_wiredVars => [Map!Next]_Map!vars
  BY KeymapStep
<1>3. QED  BY <1>1, <1>2, ScannerRuns, TypeCorrect, PTL DEF WiredSpec, Map!Spec


-----------------------------------------------------------------------------
(* The scanner's and the keymap's properties hold in the keyboard.         *)

\* Types of the scanner's state in the keyboard.
THEOREM WiredTypeCorrect == WiredSpec => []TypeOK
BY ScannerRuns, TypeCorrect, PTL

\* All that the scanner has read was handed to the keymap.
THEOREM WiredDeliveryCorrect == WiredSpec => []AllDelivered
BY ScannerRuns, DeliveryCorrect, PTL

\* After a boot with no switch pressed every pin senses the next change.
THEOREM WiredSenseCorrect == WiredSpec => []SenseOpposite
BY ScannerRuns, SenseCorrect, PTL

\* A change the handler missed keeps DETECT high.
THEOREM WiredMissedCorrect == WiredSpec => []MissedIsSensed
BY ScannerRuns, MissedCorrect, PTL

\* The keymap is never called twice in a row with the same switches.
THEOREM WiredDuplicateCorrect == WiredSpec => NoDuplicate
BY ScannerRuns, DuplicateCorrect, PTL

LEMMA KeymapFacts == WiredSpec => []Map!TypeOK /\ []Map!ReportSound
<1>1. Map!Spec => []Map!TypeOK
  BY MapAssumption, Map!TypeCorrect
<1>2. Map!Spec => []Map!ReportSound
  BY MapAssumption, Map!ReportCorrect
<1>3. QED  BY <1>1, <1>2, KeymapRuns, PTL

\* Whatever the switches, the scanner and the host do, the reports the keymap
\* makes of the scans show no key that is up and miss none that is down, no
\* layer is stuck and no tap is pending for a key that something disturbed:
\* the scanner and its debouncing are a use of the keymap that its own
\* theorems cover (keyscan.c:104-135, keymap.c:108-254).
THEOREM WiredKeymapCorrect ==
  WiredSpec => [](Map!ReportSound /\ Map!ReportComplete /\ Map!LayersHeld /\ Map!TapArmed)
<1>1. Map!Spec => []Map!ReportSound /\ []Map!ReportComplete
  BY MapAssumption, Map!ReportCorrect, Map!CompleteCorrect
<1>2. Map!Spec => []Map!LayersHeld /\ []Map!TapArmed
  BY MapAssumption, Map!LayersCorrect, Map!ArmedCorrect
<1>3. QED  BY <1>1, <1>2, KeymapRuns, PTL

-----------------------------------------------------------------------------
(* The host.  What it will have read once it has polled is sound when the  *)
(* handler is done: it is empty, or the last report of the last update.    *)

View == IF endpoint # <<>> THEN Head(endpoint) ELSE host

\* A report of which every code belongs to a key the keymap knows as pressed.
Sound(r) == \A code \in Map!Typed(r) : \E k \in physical : Map!CanType(k, code)

\* A device that is down has forgotten its reports, and no call is made.
Forgotten == ~ready => host = Map!EmptyReport /\ endpoint = <<>> /\ sender = "idle"

\* The reports that are still to be sent are the last ones of the update.
Queued == unsent # <<>> =>
            /\ ~busy /\ reports # <<>>
            /\ unsent \in Seq(Map!ReportType)
            /\ unsent[Len(unsent)] = Map!Report

\* A call that is about to return has shown its report to the host, which may
\* have forgotten it.
Shown == /\ sender # "idle" => unsent # <<>>
         /\ sender = "sent" => View \in {Head(unsent), Map!EmptyReport}

\* The keymap knows of no key that the scanner did not report.
Known == /\ registered = {} => physical = {}
         /\ physical \subseteq 1 .. KeyCount
         /\ \A k \in physical : Bit[k] \in delivered[Source[k]]

Settled == ready /\ ~Calling => Sound(View)

HostInv == Forgotten /\ Queued /\ Shown /\ Known /\ Settled

Facts == TypeOK /\ Map!TypeOK /\ Map!ReportSound

LEMMA EmptySound == Sound(Map!EmptyReport)
BY DEF Sound, Map!Typed, Map!EmptyReport

LEMMA HostInit == WiredInit => HostInv
<1> SUFFICES ASSUME WiredInit PROVE HostInv
  OBVIOUS
<1>1. Forgotten /\ Queued /\ Shown
  BY DEF WiredInit, Port!Init, Forgotten, Queued, Shown
<1>2. Known
  BY DEF WiredInit, Map!Init, Known
<1>3. Settled
  BY DEF WiredInit, Port!Init, Settled
<1>4. QED  BY <1>1, <1>2, <1>3 DEF HostInv

\* Steps that change neither the reports nor what the keymap knows.
LEMMA ElsewhereStep ==
  ASSUME HostInv, UNCHANGED <<delivered, registered, busy, reports, physical, portVars, usbVars>>
  PROVE  HostInv'
BY DEF HostInv, Forgotten, Queued, Shown, Known, Settled, portVars, usbVars,
       View, Sound, Calling, Map!Typed, Map!Report

\* A scan that hands a change to the keymap.
LEMMA EventStep ==
  ASSUME Facts, HostInv, KEYSCAN_EventHandler
  PROVE  HostInv'
<1> USE DEF HostInv, KEYSCAN_EventHandler, Map!keymap_update_state, Calling
<1>1. Forgotten' /\ Queued' /\ Shown' /\ Settled'
  BY DEF Forgotten, Queued, Shown, Settled, View, portVars, usbVars
<1>2. Known'
  <2>1. isr.m \in Matrices /\ delivered' = [delivered EXCEPT ![isr.m] = matrix[isr.m]]
        /\ delivered \in [Matrices -> SUBSET (Nat \ {0})]
    BY DEF EndScan, Changed, Facts, TypeOK, HandlerPlaces, ScannerTypes
  <2>2. CASE 0 \notin registered
    <3>1. registered = {}
      BY <2>2 DEF Facts, Map!TypeOK, Map!StateTypes
    <3>2. physical' = {}
      BY <2>2, <3>1 DEF Known
    <3>3. QED  BY <3>2 DEF Known
  <2>3. CASE 0 \in registered
    <3>1. physical' = (physical \ Map!Scanned(0, isr.m)) \cup KeysPressed(isr.m)
          /\ registered' = registered
      BY <2>3
    <3>2. ASSUME NEW k \in physical' PROVE k \in 1 .. KeyCount /\ Bit[k] \in delivered'[Source[k]]
      <4>1. CASE k \in KeysPressed(isr.m)
        BY <2>1, <4>1 DEF KeysPressed
      <4>2. CASE k \in physical \ Map!Scanned(0, isr.m)
        <5>1. k \in 1 .. KeyCount /\ Bit[k] \in delivered[Source[k]] /\ Source[k] \in Matrices
          BY <4>2, LayoutAssumption DEF Known
        <5>2. Source[k] # isr.m
          BY <4>2, <5>1 DEF Map!Scanned, Map!KeysOf, Map!Keys
        <5>3. QED  BY <2>1, <5>1, <5>2
      <4>3. QED  BY <3>1, <3>2, <4>1, <4>2
    <3>3. QED  BY <2>3, <3>1, <3>2 DEF Known
  <2>4. QED  BY <2>2, <2>3
<1>3. QED  BY <1>1, <1>2

\* The end of an update: its reports are queued.
LEMMA UpdateStep ==
  ASSUME Facts', HostInv, KEYMAP_ReportHandler
  PROVE  HostInv'
<1> USE DEF HostInv, KEYMAP_ReportHandler, Map!EndUpdate
<1>1. unsent = <<>> /\ sender = "idle"
  BY DEF Queued, Shown
<1>2. reports' # <<>> /\ reports' \in Seq(Map!ReportType)
  BY DEF Facts, Map!TypeOK, Map!CallTypes, Map!Reports
<1>3. Forgotten' /\ Queued' /\ Shown' /\ Settled'
  BY <1>1, <1>2 DEF Forgotten, Queued, Shown, Settled, Calling, portVars, Map!Report
<1>4. Known'
  BY DEF Known, Map!history, vars, scanner
<1>5. QED  BY <1>3, <1>4

\* The reports are sent, one after the other, or refused.
LEMMA TailFacts ==
  ASSUME NEW S, NEW s \in Seq(S), s # <<>>
  PROVE  /\ Tail(s) \in Seq(S)
         /\ Tail(s) # <<>> => Tail(s)[Len(Tail(s))] = s[Len(s)]
         /\ Tail(s) = <<>> => Head(s) = s[Len(s)]
<1>1. /\ Head(s) = s[1] /\ Tail(s) \in Seq(S) /\ Len(Tail(s)) = Len(s) - 1
      /\ \A i \in 1 .. Len(Tail(s)) : Tail(s)[i] = s[i + 1]
  BY HeadTailProperties
<1>2. Len(s) \in Nat /\ Len(Tail(s)) \in Nat
  BY <1>1, LenProperties
<1>3. Tail(s) = <<>> <=> Len(Tail(s)) = 0
  BY <1>1, EmptySeq
<1>4. CASE Tail(s) = <<>>
  BY <1>1, <1>2, <1>3, <1>4
<1>5. CASE Tail(s) # <<>>
  <2>1. Len(Tail(s)) \in 1 .. Len(Tail(s))
    BY <1>2, <1>3, <1>5
  <2>2. Tail(s)[Len(Tail(s))] = s[Len(s) - 1 + 1]
    BY <1>1, <2>1
  <2>3. QED  BY <1>1, <1>2, <1>5, <2>2
<1>6. QED  BY <1>4, <1>5

LEMMA QueueFacts ==
  ASSUME Queued, unsent # <<>>
  PROVE  /\ Tail(unsent) \in Seq(Map!ReportType)
         /\ Tail(unsent) # <<>> => Tail(unsent)[Len(Tail(unsent))] = Map!Report
         /\ Tail(unsent) = <<>> => Head(unsent) = Map!Report
<1>1. unsent \in Seq(Map!ReportType) /\ unsent[Len(unsent)] = Map!Report
  BY DEF Queued
<1>2. QED  BY <1>1, TailFacts

LEMMA SendStep ==
  ASSUME Facts, HostInv, Refuse \/ Transfer \/ ReportCopied \/ ReportSent
  PROVE  HostInv'
<1> USE DEF HostInv, portVars, keymapVars, usbVars
<1>1. Known'
  BY DEF Refuse, Transfer, ReportCopied, ReportSent, Known, vars
<1>2. CASE Refuse
  <2>1. unsent # <<>> /\ unsent' = Tail(unsent) /\ ~ready
    BY <1>2 DEF Refuse
  <2>2. Queued'
    BY <1>2, <2>1, QueueFacts DEF Refuse, Queued, Map!Report
  <2>3. Forgotten' /\ Shown' /\ Settled'
    BY <1>2, <2>1 DEF Refuse, Forgotten, Shown, Settled
  <2>4. QED  BY <1>1, <2>2, <2>3
<1>3. CASE Transfer
  <2>1. Queued' /\ Settled'
    BY <1>3 DEF Transfer, Queued, Settled, Calling, Map!Report
  <2>2. Forgotten' /\ Shown'
    BY <1>3 DEF Transfer, Forgotten, Shown, Port!Begin, Port!Start, Port!Fail, Port!Step
  <2>3. QED  BY <1>1, <2>1, <2>2
<1>4. CASE ReportCopied
  <2>1. unsent # <<>> /\ ready
    BY <1>4 DEF ReportCopied, Port!Copy, Port!Step, Shown, Forgotten
  <2>2. Queued' /\ Settled'
    BY <1>4, <2>1 DEF ReportCopied, Queued, Settled, Calling, Map!Report
  <2>3. Forgotten' /\ Shown'
    BY <1>4, <2>1 DEF ReportCopied, Forgotten, Shown, Port!Copy, Port!Step, View
  <2>4. QED  BY <1>1, <2>2, <2>3
<1>5. CASE ReportSent
  <2>1. /\ sender = "sent" /\ sender' = "idle" /\ ready' = ready /\ ready
        /\ unsent' = Tail(unsent) /\ unsent # <<>>
    BY <1>5 DEF ReportSent, Port!Return, Port!Step, Shown, Forgotten
  <2>2. Queued'
    BY <1>5, <2>1, QueueFacts DEF ReportSent, Queued, Map!Report
  <2>3. Forgotten' /\ Shown'
    BY <2>1 DEF Forgotten, Shown
  <2>4. Settled'
    <3>1. SUFFICES ASSUME Tail(unsent) = <<>> PROVE Sound(View)
      BY <1>5, <2>1 DEF ReportSent, Settled, Calling, View, Sound, Map!Typed
    <3>2. View \in {Map!Report, Map!EmptyReport}
      BY <2>1, <3>1, QueueFacts DEF Shown
    <3>3. Sound(Map!Report)
      BY <2>1 DEF Facts, Map!ReportSound, Queued, Sound
    <3>4. QED  BY <3>2, <3>3, EmptySound
  <2>5. QED  BY <1>1, <2>2, <2>3, <2>4
<1>6. QED  BY <1>2, <1>3, <1>4, <1>5

\* The keymap is registered; it knows of no key.
LEMMA RegisterStep ==
  ASSUME Facts, HostInv, keymap_register_config
  PROVE  HostInv'
<1> USE DEF HostInv, keymap_register_config, Map!keymap_register_config, HandlerIdle, Calling,
            portVars, usbVars
<1>1. physical = {} /\ physical' = {} /\ registered' # {}
  BY DEF Known
<1>2. Forgotten' /\ Queued' /\ Shown' /\ Known'
  BY <1>1 DEF Forgotten, Queued, Shown, Known, View
<1>3. Settled'
  BY <1>1 DEF Settled, Sound, View, Map!Typed
<1>4. QED  BY <1>2, <1>3

\* The device comes and goes, and the host polls it.
LEMMA DeviceStep ==
  ASSUME HostInv, DeviceComesUp \/ DeviceGoesDown \/ HostResets \/ HostPolls
  PROVE  HostInv'
<1> USE DEF HostInv, keymapVars, usbVars, portVars, HandlerIdle, Calling
<1>1. /\ delivered' = delivered /\ registered' = registered /\ physical' = physical
      /\ busy' = busy /\ reports' = reports /\ unsent' = unsent
  BY DEF DeviceComesUp, DeviceGoesDown, HostResets, HostPolls, HostForgets, vars, scanner
<1>2. Known' /\ Queued'
  BY <1>1 DEF Known, Queued, Map!Report
<1>3. CASE DeviceComesUp
  <2>1. Forgotten' /\ Shown'
    BY <1>3 DEF DeviceComesUp, Port!GoUp, Forgotten, Shown, View
  <2>2. Settled'
    BY <1>3, EmptySound DEF DeviceComesUp, Port!GoUp, Forgotten, Settled, View, Sound, Map!Typed
  <2>3. QED  BY <1>2, <2>1, <2>2
<1>4. CASE DeviceGoesDown
  <2>1. sender = "idle" /\ sender' = "idle" /\ ready' = FALSE
    BY <1>4 DEF DeviceGoesDown, Port!GoDown, Port!Interrupts
  <2>2. Forgotten' /\ Shown' /\ Settled'
    BY <1>4, <2>1 DEF DeviceGoesDown, HostForgets, Forgotten, Shown, Settled
  <2>3. QED  BY <1>2, <2>2
<1>5. CASE HostResets
  <2>1. View' = Map!EmptyReport
    BY <1>5 DEF HostResets, HostForgets, View, Map!EmptyReport
  <2>2. Forgotten' /\ Shown'
    BY <1>5, <2>1 DEF HostResets, HostForgets, Forgotten, Shown, Map!EmptyReport
  <2>3. Settled'
    BY <1>5, <2>1, EmptySound DEF HostResets, HostForgets, Settled, Sound, Map!Typed
  <2>4. QED  BY <1>2, <2>2, <2>3
<1>6. CASE HostPolls
  <2>1. View' = View
    BY <1>6 DEF HostPolls, View
  <2>2. Forgotten' /\ Shown'
    BY <1>6, <2>1 DEF HostPolls, Forgotten, Shown, Map!EmptyReport
  <2>3. Settled'
    BY <1>6, <2>1 DEF HostPolls, Settled, Sound, Map!Typed
  <2>4. QED  BY <1>2, <2>2, <2>3
<1>7. QED  BY <1>3, <1>4, <1>5, <1>6

LEMMA HostStep ==
  ASSUME Facts, Facts', HostInv, [WiredNext]_wiredVars
  PROVE  HostInv'
<1> USE DEF keymapVars, Map!history, Map!call
<1>1. CASE ScanStep
  <2>1. delivered' = delivered
    BY <1>1 DEF ScanStep, Changed, GPIOTE_IRQHandler, TakeEvent, SkipMatrix, StartScan,
                ReadPin, SetCnf, EndScan
  <2>2. QED  BY <1>1, <2>1, ElsewhereStep DEF ScanStep
<1>2. CASE keyscan_debounce \/ VisitKeys \/ TimerElapses
  BY <1>2, ElsewhereStep
     DEF keyscan_debounce, VisitKeys, TimerElapses, Map!keyscan_debounce, Map!Visit,
         Map!Observe, Map!TimerElapses, vars
<1>3. CASE Boot \/ SwitchMoves
  <2>1. delivered' = delivered
    BY <1>3 DEF Boot, SwitchMoves, Switch, init_keyscan_direct, SkipUnused, Register,
                gpiote_disable_port_events, ConfigurePin, gpiote_enable_port_events
  <2>2. QED  BY <1>3, <2>1, ElsewhereStep DEF Boot, SwitchMoves
<1>4. CASE KEYSCAN_EventHandler \/ KEYMAP_ReportHandler
  BY <1>4, EventStep, UpdateStep
<1>5. CASE Refuse \/ Transfer \/ ReportCopied \/ ReportSent
  BY <1>5, SendStep
<1>6. CASE keymap_register_config
  BY <1>6, RegisterStep
<1>7. CASE DeviceComesUp \/ DeviceGoesDown \/ HostResets \/ HostPolls
  BY <1>7, DeviceStep
<1>8. CASE UNCHANGED wiredVars
  BY <1>8, ElsewhereStep DEF wiredVars, vars
<1>9. QED
  BY <1>1, <1>2, <1>3, <1>4, <1>5, <1>6, <1>7, <1>8 DEF WiredNext, Handler, example_keymap_hid

LEMMA HostView ==
  ASSUME TypeOK, HostInv
  PROVE  HostSound
<1> SUFFICES ASSUME HandlerIdle, endpoint = <<>>, NEW code \in Map!Typed(host)
             PROVE  \E k \in 1 .. KeyCount : PinOf(k) \in Reported /\ Map!CanType(k, code)
  BY DEF HostSound
<1>1. Sound(host)
  BY EmptySound DEF HostInv, Forgotten, Settled, View, HandlerIdle
<1>2. PICK k \in physical : Map!CanType(k, code)
  BY <1>1 DEF Sound
<1>3. k \in 1 .. KeyCount /\ Bit[k] \in delivered[Source[k]] /\ Source[k] \in Matrices
  BY LayoutAssumption DEF HostInv, Known
<1>4. PinOf(k) \in Reported
  BY <1>3 DEF PinOf, Reported
<1>5. QED  BY <1>2, <1>3, <1>4

\* No stuck key: when the handler is done and the host has read the last
\* report, it shows only codes of keys whose switches were reported as closed
\* (keymap_hid.c:72-79, usb_hid.c:221-227).
THEOREM HostSoundCorrect == WiredSpec => []HostSound
<1>1. WiredInit => HostInv
  BY HostInit
<1>2. Facts /\ Facts' /\ HostInv /\ [WiredNext]_wiredVars => HostInv'
  BY HostStep
<1>3. TypeOK /\ HostInv => HostSound
  BY HostView
<1>4. WiredSpec => []Facts
  BY WiredTypeCorrect, KeymapFacts, PTL DEF Facts
<1>5. Facts => TypeOK
  BY DEF Facts
<1>6. QED  BY <1>1, <1>2, <1>3, <1>4, <1>5, PTL DEF WiredSpec

-----------------------------------------------------------------------------
(* The whole way from a switch to the host, when nothing went wrong.       *)

\* A report that shows every key the keymap knows as pressed, if there is
\* room for all.
Complete(r) ==
  Cardinality(physical) < 5 =>
    \A k \in physical : Certain(k) => \E code \in Map!Typed(r) : Map!CanType(k, code)

\* A call that is about to return has shown its report to the host, and what
\* the host has not lost shows all keys when the handler is done.
Fresh == ~stale => /\ sender = "sent" => View = Head(unsent)
                   /\ ~Calling => Complete(View)

LEMMA FreshInit == WiredInit => Fresh
BY DEF WiredInit, Map!Init, Port!Init, Fresh, Complete

\* Once a key is pressed, the last report of an update shows it.
LEMMA ReportIsComplete ==
  ASSUME Facts, Map!ReportComplete, HostInv, reports # <<>>
  PROVE  Complete(Map!Report)
<1>1. config_id = 0
  BY DEF Facts, Map!TypeOK, Map!CallTypes
<1>2. Map!KeysOf(config_id) \cap physical = physical
  BY <1>1 DEF HostInv, Known, Map!KeysOf, Map!Keys
<1>3. SUFFICES ASSUME Cardinality(physical) < 5, NEW k \in physical, Certain(k)
               PROVE  \E code \in Map!Typed(Map!Report) : Map!CanType(k, code)
  BY DEF Complete
<1>4. Map!Cardinality(Map!KeysOf(config_id) \cap physical) < 5 /\ k \in Map!KeysOf(config_id) \cap physical
  <2>1. Map!Cardinality(physical) = Cardinality(physical)
    BY Zenon DEF Map!Cardinality, Cardinality
  <2>2. QED  BY <1>2, <1>3, <2>1
<1>5. Actions[0][k] # Map!KC_TRNS /\ \A a \in Map!ActionsOf(k) : Map!IsTyping(a) /\ Map!Code(a) # 0
  BY <1>3 DEF Certain
<1>6. QED  BY <1>4, <1>5 DEF Map!ReportComplete

LEMMA FreshStep ==
  ASSUME Facts, Map!ReportComplete, HostInv, Fresh, [WiredNext]_wiredVars
  PROVE  Fresh'
<1> USE DEF Fresh, Calling
<1>1. CASE UNCHANGED <<busy, physical, portVars, usbVars>>
  BY <1>1 DEF portVars, usbVars, View, Complete, Map!Typed
<1>2. CASE ScanStep \/ keyscan_debounce \/ TimerElapses \/ VisitKeys \/ Boot \/ SwitchMoves
           \/ UNCHANGED wiredVars
  <2>1. UNCHANGED <<busy, physical, portVars, usbVars>>
    BY <1>2 DEF ScanStep, keyscan_debounce, TimerElapses, VisitKeys, Boot, SwitchMoves, wiredVars,
         keymapVars, Map!keyscan_debounce, Map!TimerElapses, Map!Visit, Map!call, Map!history
  <2>2. QED  BY <1>1, <2>1
<1>3. CASE KEYSCAN_EventHandler
  BY <1>3 DEF KEYSCAN_EventHandler, Map!keymap_update_state, portVars, usbVars, View
<1>4. CASE KEYMAP_ReportHandler
  <2>1. reports' # <<>>
    BY <1>4 DEF KEYMAP_ReportHandler, Map!EndUpdate, Map!Reports
  <2>2. QED
    BY <1>4, <2>1 DEF KEYMAP_ReportHandler, Map!EndUpdate, portVars, HostInv, Queued, Shown
<1>5. CASE Refuse
  BY <1>5 DEF Refuse
<1>6. CASE Transfer
  BY <1>6 DEF Transfer, Port!Begin, Port!Start, Port!Fail, Port!Step, keymapVars, usbVars
<1>7. CASE ReportCopied
  BY <1>7 DEF ReportCopied, Port!Copy, Port!Step, keymapVars, HostInv, Shown, View
<1>8. CASE ReportSent
  <2>1. /\ sender = "sent" /\ sender' = "idle" /\ unsent # <<>> /\ unsent' = Tail(unsent)
        /\ UNCHANGED <<keymapVars, endpoint, host, stale>>
    BY <1>8 DEF ReportSent, Port!Return, Port!Step, HostInv, Shown
  <2>2. ASSUME ~stale, Tail(unsent) = <<>> PROVE Complete(View)
    <3>1. View = Map!Report
      BY <2>1, <2>2, QueueFacts DEF HostInv
    <3>2. reports # <<>>
      BY <2>1 DEF HostInv, Queued
    <3>3. QED  BY <3>1, <3>2, ReportIsComplete
  <2>3. QED  BY <2>1, <2>2 DEF keymapVars, View, Complete, Map!Typed
<1>9. CASE keymap_register_config
  <2>1. physical' = {} /\ sender = "idle" /\ sender' = "idle"
    BY <1>9 DEF keymap_register_config, Map!keymap_register_config, HandlerIdle, portVars,
                HostInv, Known, Shown
  <2>2. QED  BY <2>1 DEF Complete
<1>10. CASE DeviceComesUp
  BY <1>10 DEF DeviceComesUp, Port!GoUp, keymapVars, usbVars, View, Complete, Map!Typed
<1>11. CASE DeviceGoesDown \/ HostResets
  BY <1>11 DEF DeviceGoesDown, HostResets, HostForgets
<1>12. CASE HostPolls
  BY <1>12 DEF HostPolls, keymapVars, portVars, View, Complete, Map!Typed
<1>13. QED
  BY <1>2, <1>3, <1>4, <1>5, <1>6, <1>7, <1>8, <1>9, <1>10, <1>11, <1>12
     DEF WiredNext, Handler, example_keymap_hid

LEMMA AgreeView ==
  ASSUME KeyscanInv, HostInv, HostSound, Fresh, CalmReported
  PROVE  HostAgrees
<1> SUFFICES ASSUME Undisturbed, HandlerIdle, ~event, endpoint = <<>>
             PROVE  /\ \A code \in Map!Typed(host) : \E k \in 1 .. KeyCount :
                         PinOf(k) \in pressed /\ Map!CanType(k, code)
                    /\ Cardinality(KeysReported) < 5 =>
                         \A k \in 1 .. KeyCount : PinOf(k) \in pressed /\ Certain(k) => Shows(k)
  BY DEF HostAgrees
<1>1. pressed = Reported /\ isr.at = "idle"
  BY DEF CalmReported, Undisturbed, HandlerIdle
<1>2. \A code \in Map!Typed(host) : \E k \in 1 .. KeyCount :
        PinOf(k) \in pressed /\ Map!CanType(k, code)
  BY <1>1 DEF HostSound
<1>3. ASSUME Cardinality(KeysReported) < 5, NEW k \in 1 .. KeyCount,
             PinOf(k) \in pressed, Certain(k)
      PROVE  Shows(k)
  <2>1. Complete(host)
    BY DEF Fresh, Undisturbed, HandlerIdle, View
  <2>2. Source[k] \in Matrices /\ Bit[k] \in DOMAIN Direct[Source[k]]
    BY LayoutAssumption
  <2>3. Bit[k] \in matrix[Source[k]]
    BY <1>1, <1>3, <2>2, ReportedRead DEF PinOf
  <2>4. k \in physical
    BY <1>1, <2>2, <2>3 DEF Undisturbed, KeysReported, KeyscanInv, Handed, Scanning
  <2>5. QED  BY <1>3, <2>1, <2>4 DEF Complete, Shows, Undisturbed
<1>4. QED  BY <1>2, <1>3

\* With nothing left to be done, and unless a switch moved at a bad moment,
\* a scan came before the registration of the keymap or a report was lost,
\* the host shows the keys whose switches are closed, and no others: what
\* holds of the scanner, the keymap and the driver one by one holds of the
\* three together (keymap_hid.c:56-81).
THEOREM HostAgreesCorrect == WiredSpec => []HostAgrees
<1>1. WiredInit => HostInv /\ Fresh
  BY HostInit, FreshInit
<1>2. Facts /\ Facts' /\ HostInv /\ [WiredNext]_wiredVars => HostInv'
  BY HostStep
<1>3. Facts /\ Map!ReportComplete /\ HostInv /\ Fresh /\ [WiredNext]_wiredVars => Fresh'
  BY FreshStep
<1>4. KeyscanInv /\ HostInv /\ HostSound /\ Fresh /\ CalmReported => HostAgrees
  BY AgreeView
<1>5. WiredSpec => []Facts
  BY WiredTypeCorrect, KeymapFacts, PTL DEF Facts
<1>6. WiredSpec => []Map!ReportComplete
  BY WiredKeymapCorrect, PTL
<1>7. WiredSpec => [](KeyscanInv /\ CalmInv) /\ []CalmReported
  BY ScannerRuns, CalmInvariant, CalmCorrect, PTL
<1>8. QED
  BY <1>1, <1>2, <1>3, <1>4, <1>5, <1>6, <1>7, HostSoundCorrect, PTL DEF WiredSpec
=============================================================================
