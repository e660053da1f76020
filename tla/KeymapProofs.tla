---------------------------- MODULE KeymapProofs ----------------------------
(* Theorems about the keymap of Keymap, for every set of configurations,   *)
(* layout, number of layers, table of actions and length of the report.    *)
EXTENDS Keymap, TLAPS, WellFoundedInduction, NaturalsInduction, FiniteSetTheorems

-----------------------------------------------------------------------------
(* Actions: what the decoding yields and what the searches find.  The      *)
(* decoding is expanded here only.                                         *)

LEMMA CodeType ==
  ASSUME NEW a \in ActionCodes
  PROVE  Code(a) \in 0 .. 255
BY DEF Code, ActionCodes

LEMMA ModifiersType ==
  ASSUME NEW a
  PROVE  Modifiers(a) \subseteq 0 .. 7
<1>1. \A n : Bits(n) \subseteq 0 .. 7
  BY DEF Bits
<1>2. QED  BY <1>1 DEF Modifiers

LEMMA TransparentIsNoTap == ~IsTap(KC_TRNS) /\ ~IsLayerTap(KC_TRNS)
BY DEF IsTap, IsLayerTap, Type, KC_TRNS

LEMMA LayerTapIsTap ==
  ASSUME NEW a, IsLayerTap(a)
  PROVE  IsTap(a) /\ ~IsTyping(a)
BY DEF IsTap, IsLayerTap, IsTyping

LEMMA LayerFacts == 0 \in Layers /\ Layers \subseteq Nat
<1>1. LayersLen \in 1 .. 15
  BY KeymapAssumption DEF KeymapAssumption
<1>2. QED  BY <1>1 DEF Layers

\* A set of naturals with an upper bound has a highest member.
LEMMA HighestMember ==
  ASSUME NEW n \in Nat, NEW S \in SUBSET (0 .. n), S # {}
  PROVE  Highest(S) \in S /\ \A m \in S : m <= Highest(S)
<1> DEFINE T == {n - l : l \in S}
<1>1. T \subseteq Nat /\ T # {}
  OBVIOUS
<1>2. PICK x \in T : \A y \in T : ~ (<<y, x>> \in OpToRel(<, Nat))
  BY <1>1, NatLessThanWellFounded, WFMin, Zenon
<1>3. PICK h \in S : x = n - h
  BY <1>2
<1>4. ASSUME NEW m \in S PROVE m <= h
  <2>1. n - m \in T /\ n - m \in Nat /\ x \in Nat
    BY <1>1
  <2>2. ~(n - m < x)
    BY <1>2, <2>1 DEF OpToRel
  <2>3. QED  BY <1>3, <2>2
<1>5. QED  BY <1>3, <1>4 DEF Highest

LEMMA SearchFinds ==
  ASSUME NEW start \in Layers, NEW k \in Keys
  PROVE  /\ Search(start, k) \in Layers
         /\ Search(start, k) # 0 => Actions[Search(start, k)][k] # KC_TRNS
         /\ start = 0 => Search(start, k) = 0
<1> DEFINE S == {l \in 0 .. start :
                   l = 0 \/ (l \in active_layers[Config[k]] /\ Actions[l][k] # KC_TRNS)}
<1>1. start \in Nat /\ 0 \in S /\ S \subseteq 0 .. start
  BY LayerFacts
<1>2. Highest(S) \in S
  BY <1>1, HighestMember
<1>3. PICK h \in S : Search(start, k) = h
  BY <1>2 DEF Search
<1>4. S \subseteq Layers
  BY <1>1, KeymapAssumption DEF Layers
<1>5. \A l \in S : /\ l # 0 => Actions[l][k] # KC_TRNS
                  /\ start = 0 => l = 0
  BY <1>1
<1>6. QED  BY <1>3, <1>4, <1>5

\* The action of a key: one of its own, that of layer 0 once it is released,
\* and none only if it has none on layer 0.
LEMMA ActionFound ==
  ASSUME StateTypes, NEW k \in Keys
  PROVE  /\ get_action(k) \in ActionCodes
         /\ \E l \in Layers : get_action(k) = Actions[l][k]
         /\ get_action(k) = KC_TRNS => Actions[0][k] = KC_TRNS
         /\ layout_state[k] = Up => get_action(k) = Actions[0][k]
<1> DEFINE start == IF layout_state[k] = Up THEN 0 ELSE layout_state[k]
<1>1. start \in Layers
  BY LayerFacts DEF StateTypes
<1>2. get_action(k) = Actions[Search(start, k)][k]
  BY DEF get_action
<1>3. /\ Search(start, k) \in Layers
      /\ Search(start, k) # 0 => Actions[Search(start, k)][k] # KC_TRNS
      /\ start = 0 => Search(start, k) = 0
  BY <1>1, SearchFinds
<1>4. QED  BY <1>2, <1>3, KeymapAssumption

LEMMA ActionIsOwn ==
  ASSUME StateTypes, NEW k \in Keys, get_action(k) # KC_TRNS
  PROVE  get_action(k) \in ActionsOf(k)
BY ActionFound DEF ActionsOf

-----------------------------------------------------------------------------
(* The report.                                                             *)

LEMMA AddKeyType ==
  ASSUME NEW r \in ReportInProgress, NEW code \in 0 .. 255
  PROVE  AddKey(r, code) \in ReportInProgress
<1>1. KeySlots \in Nat /\ KeySlots > 0 /\ r.index + 1 \in Nat
  BY KeymapAssumption DEF ReportInProgress
<1>2. (r.index + 1) % KeySlots \in 0 .. KeySlots - 1
  BY <1>1
<1>3. QED  BY <1>2 DEF AddKey, ReportInProgress

LEMMA HoldType ==
  ASSUME NEW r \in ReportInProgress, NEW a \in ActionCodes
  PROVE  Hold(r, a) \in ReportInProgress
<1>1. AddModifiers(r, a) \in ReportInProgress
  BY ModifiersType DEF AddModifiers, ReportInProgress
<1>2. QED  BY <1>1, AddKeyType, CodeType DEF Hold

LEMMA ReleaseType ==
  ASSUME NEW r \in ReportInProgress, NEW a \in ActionCodes, NEW k
  PROVE  Release(r, a, k) \in ReportInProgress
<1>1. Undo(r, a) \in ReportInProgress
  BY DEF Undo, ReportInProgress
<1>2. AddKey(Undo(r, a), Code(a)) \in ReportInProgress
  BY <1>1, AddKeyType, CodeType
<1>3. [AddKey(Undo(r, a), Code(a)) EXCEPT !.tapped = r.index] \in ReportInProgress
  BY <1>2 DEF ReportInProgress
<1>4. QED  BY <1>1, <1>3 DEF Release

LEMMA NewReportType == NewReport \in ReportInProgress
BY KeymapAssumption DEF NewReport, EmptyReport, ReportInProgress

LEMMA SlotCleared ==
  ASSUME NEW f \in ReportType, NEW j \in 0 .. KeySlots - 1
  PROVE  /\ [f EXCEPT !.keys[j] = 0] \in ReportType
         /\ [f EXCEPT !.keys[j] = 0].modifiers = f.modifiers
<1>1. [f.keys EXCEPT ![j] = 0] \in [0 .. KeySlots - 1 -> 0 .. 255]
  BY DEF ReportType
<1>2. ASSUME NEW g \in [0 .. KeySlots - 1 -> 0 .. 255]
      PROVE  /\ [f EXCEPT !.keys = g] \in ReportType
             /\ [f EXCEPT !.keys = g].modifiers = f.modifiers
  BY DEF ReportType
<1>3. QED  BY <1>1, <1>2

LEMMA ReportsType ==
  ASSUME report \in ReportInProgress
  PROVE  /\ Reports \in Seq(ReportType) /\ Len(Reports) \in 1 .. 2
         /\ Reports[Len(Reports)].modifiers = report.modifiers
         /\ \A i \in 0 .. KeySlots - 1 :
              Reports[Len(Reports)].keys[i] =
                IF i = report.tapped THEN 0 ELSE report.keys[i]
<1> DEFINE first == [modifiers |-> report.modifiers, keys |-> report.keys]
           second == [first EXCEPT !.keys[report.tapped] = 0]
<1>1. first \in ReportType
  BY DEF ReportInProgress, ReportType
<1>2. CASE report.tapped = NoSlot
  <2>1. Reports = <<first>>
    BY <1>2 DEF Reports
  <2>2. QED  BY <1>1, <1>2, <2>1, KeymapAssumption DEF NoSlot
<1>3. CASE report.tapped # NoSlot
  <2>1. Reports = <<first, second>>
    BY <1>3 DEF Reports
  <2>2. second \in ReportType /\ second.modifiers = report.modifiers
    BY <1>1, <1>3, SlotCleared DEF ReportInProgress
  <2>3. second.keys = [report.keys EXCEPT ![report.tapped] = 0]
    BY DEF ReportInProgress
  <2>4. \A i \in 0 .. KeySlots - 1 :
          second.keys[i] = IF i = report.tapped THEN 0 ELSE report.keys[i]
    BY <2>3 DEF ReportInProgress
  <2> HIDE DEF first, second
  <2>5. Reports \in Seq(ReportType) /\ Len(Reports) = 2 /\ Reports[2] = second
    BY <1>1, <2>1, <2>2
  <2>6. QED  BY <2>2, <2>4, <2>5
<1>4. QED  BY <1>2, <1>3

-----------------------------------------------------------------------------
(* Types.                                                                  *)

TypeInv ==
  /\ TypeOK
  /\ timed \in Tappable \cup {NoKey}
  /\ busy \/ todo = {}

LEMMA KeyFacts ==
  /\ NoKey \notin Keys /\ Tappable \subseteq Keys
  /\ \A c \in Configs : KeysOf(c) \subseteq Keys
  /\ \A k \in Keys : Config[k] \in Configs
  /\ \A c \in Configs, k \in Keys : k \in KeysOf(c) <=> Config[k] = c
BY KeymapAssumption DEF NoKey, Keys, Tappable, KeysOf

LEMMA TypeInit == Init => TypeInv
<1> SUFFICES ASSUME Init PROVE TypeInv
  OBVIOUS
<1>1. StateTypes
  BY LayerFacts DEF Init, StateTypes
<1>2. reports \in Seq(ReportType) /\ Len(reports) <= 2
  BY DEF Init
<1>3. CallTypes
  BY <1>2, NewReportType DEF Init, CallTypes
<1>4. HistoryTypes
  BY DEF Init, HistoryTypes
<1>5. QED  BY <1>1, <1>3, <1>4 DEF Init, TypeInv, TypeOK

LEMMA RegisterType ==
  ASSUME TypeInv, NEW c \in Configs, keymap_register_config(c)
  PROVE  TypeInv'
<1> USE DEF TypeInv, TypeOK, keymap_register_config, timeout
<1>1. StateTypes'
  BY LayerFacts DEF StateTypes
<1>2. reports' \in Seq(ReportType) /\ Len(reports') <= 2
  OBVIOUS
<1>3. CallTypes'
  BY <1>2 DEF CallTypes
<1>4. HistoryTypes'
  BY DEF HistoryTypes
<1>5. QED  BY <1>1, <1>3, <1>4 DEF Tappable

LEMMA UpdateType ==
  ASSUME TypeInv, NEW c \in Configs, NEW s \in Sources,
         NEW pressed \in SUBSET Scanned(c, s), keymap_update_state(c, s, pressed)
  PROVE  TypeInv'
<1> USE DEF TypeInv, TypeOK, keymap_update_state, timeout
<1>1. \A k \in Keys : get_top_layer(k) \in Layers
  BY SearchFinds, KeymapAssumption DEF get_top_layer, Layers
<1>2. Logical(c, s, pressed) \in [Keys -> Layers \cup {Up}]
  BY <1>1 DEF Logical, StateTypes
<1>3. StateTypes'
  BY <1>2 DEF StateTypes
<1>4. reports' \in Seq(ReportType) /\ Len(reports') <= 2
  OBVIOUS
<1>5. todo' \subseteq KeysOf(c) /\ config_id' = c
  OBVIOUS
<1>6. CallTypes'
  BY <1>4, <1>5, NewReportType DEF CallTypes
<1>7. physical' \subseteq Keys
  BY KeyFacts DEF HistoryTypes, Scanned
<1>8. HistoryTypes'
  BY <1>7 DEF HistoryTypes
<1>9. QED  BY <1>3, <1>6, <1>8 DEF Tappable

LEMMA VisitType ==
  ASSUME TypeInv, NEW k \in todo, Visit(k)
  PROVE  TypeInv'
<1> DEFINE a   == get_action(k)
           was == layout_previous_state[k] # Up
           is  == layout_state[k] # Up
<1>1. k \in Keys /\ k \in KeysOf(config_id) /\ config_id \in Configs
  BY KeyFacts DEF TypeInv, TypeOK, CallTypes
<1>2. /\ a \in ActionCodes
      /\ \E l \in Layers : a = Actions[l][k]
  BY <1>1, ActionFound DEF TypeInv, TypeOK
<1>3. IsLayerTap(a) => Field(a) \in Layers
  BY <1>1, <1>2, KeymapAssumption
<1>4. IsTap(a) => k \in Tappable
  BY <1>1, <1>2 DEF Tappable
<1>5. /\ report' \in {report, Hold(report, a), Release(report, a, k)}
      /\ active_layers' \in {active_layers,
            [active_layers EXCEPT ![config_id] = LayersAfter(@, a, is, was)]}
      /\ (is /\ IsTap(a) /\ Arm(a, k, is)) \/ Arm(a, k, FALSE) \/ UNCHANGED <<is_tapping, timeout, timed>>
      /\ Observe(k, is, is # was /\ a # KC_TRNS)
      /\ todo' = todo \ {k}
      /\ UNCHANGED <<registered, layout_state, layout_previous_state, config_id,
                     busy, reports, physical>>
  BY DEF Visit, Arm
<1> HIDE DEF a, was, is
<1>6. StateTypes'
  <2>1. active_layers' \in [Configs -> SUBSET Layers]
    <3>1. ASSUME NEW layers \in SUBSET Layers
          PROVE  LayersAfter(layers, a, is, was) \in SUBSET Layers
      BY <1>3 DEF LayersAfter
    <3>2. QED  BY <1>1, <1>5, <3>1 DEF TypeInv, TypeOK, StateTypes
  <2>2. /\ is_tapping' \in [Configs -> Keys \cup {NoKey}]
        /\ timer' \in {"running", "elapsed", "stopped"}
        /\ timeout_expired' \in BOOLEAN
    BY <1>1, <1>5 DEF TypeInv, TypeOK, StateTypes, Arm, StartTimer, StopTimer, timeout
  <2>3. QED  BY <1>5, <2>1, <2>2 DEF TypeInv, TypeOK, StateTypes
<1>7. CallTypes'
  <2>1. report' \in ReportInProgress
    BY <1>2, <1>5, HoldType, ReleaseType DEF TypeInv, TypeOK, CallTypes
  <2>2. QED  BY <1>5, <2>1 DEF TypeInv, TypeOK, CallTypes
<1>8. timed' \in Tappable \cup {NoKey}
  BY <1>4, <1>5 DEF TypeInv, Arm
<1>9. HistoryTypes'
  BY <1>1, <1>5, <1>8, KeyFacts DEF TypeInv, TypeOK, HistoryTypes, Observe
<1>10. busy' \/ todo' = {}
  BY <1>5 DEF TypeInv
<1>11. Tappable' = Tappable
  BY DEF Tappable
<1>12. QED  BY <1>6, <1>7, <1>8, <1>9, <1>10, <1>11 DEF TypeInv, TypeOK

LEMMA RestType ==
  ASSUME TypeInv, \/ EndUpdate \/ keyscan_debounce \/ TimerElapses
                  \/ (\E k \in Keys : KeyAges(k)) \/ UNCHANGED vars
  PROVE  TypeInv'
<1> USE DEF TypeInv, TypeOK, keymap_state, timeout, call, history
<1>1. CASE EndUpdate
  <2>1. reports' \in Seq(ReportType) /\ Len(reports') <= 2 /\ report' \in ReportInProgress
    BY <1>1, ReportsType, NewReportType DEF EndUpdate, CallTypes
  <2>2. CallTypes'
    BY <1>1, <2>1 DEF EndUpdate, CallTypes
  <2>3. QED  BY <1>1, <2>2 DEF EndUpdate, StateTypes, HistoryTypes, Tappable
<1>2. CASE keyscan_debounce
  BY <1>2 DEF keyscan_debounce, StateTypes, CallTypes, HistoryTypes, Tappable
<1>3. CASE TimerElapses
  <2>1. late' \subseteq down \cap Tappable
    BY <1>3, KeyFacts DEF TimerElapses, HistoryTypes
  <2>2. Tappable' = Tappable
    BY DEF Tappable
  <2>3. QED  BY <1>3, <2>1, <2>2 DEF TimerElapses, StateTypes, CallTypes, HistoryTypes
<1>4. CASE \E k \in Keys : KeyAges(k)
  BY <1>4 DEF KeyAges, StateTypes, CallTypes, HistoryTypes, Tappable
<1>5. CASE UNCHANGED vars
  BY <1>5 DEF vars, StateTypes, CallTypes, HistoryTypes, Tappable
<1>6. QED  BY <1>1, <1>2, <1>3, <1>4, <1>5

LEMMA TypeInvariant == Spec => []TypeInv
<1>1. TypeInv /\ [Next]_vars => TypeInv'
  BY RegisterType, UpdateType, VisitType, RestType DEF Next
<1>2. QED  BY <1>1, TypeInit, PTL DEF Spec

\* The types of the keymap's state: no index leaves the report, no layer the
\* table of actions, and a call passes on one report or two (keymap.c:108-254).
THEOREM TypeCorrect == Spec => []TypeOK
<1>1. TypeInv => TypeOK
  BY DEF TypeInv
<1>2. QED  BY <1>1, TypeInvariant, PTL

-----------------------------------------------------------------------------
(* What a step of the loop does, with the abbreviations expanded.          *)

\* The logical state is that of the physical switches; the loop has come
\* as far as `down`.
ScanInv ==
  /\ \A k \in Keys : layout_state[k] # Up <=> k \in physical
  /\ \A k \in todo : layout_previous_state[k] # Up <=> k \in down
  /\ \A k \in Keys \ todo : k \in down <=> k \in physical
  /\ \A c \in Configs \ registered : KeysOf(c) \cap physical = {}

LEMMA ScanInit == Init => ScanInv
BY DEF Init, ScanInv

LEMMA ScanStep ==
  ASSUME TypeInv, ScanInv, [Next]_vars
  PROVE  ScanInv'
<1> USE DEF ScanInv
<1>1. ASSUME NEW c \in Configs, keymap_register_config(c)
      PROVE  ScanInv'
  BY <1>1 DEF keymap_register_config, TypeInv, TypeOK, StateTypes, KeysOf
<1>2. ASSUME NEW c \in Configs, NEW s \in Sources,
             NEW pressed \in SUBSET Scanned(c, s), keymap_update_state(c, s, pressed)
      PROVE  ScanInv'
  <2>1. todo = {} /\ pressed \subseteq KeysOf(c)
    BY <1>2 DEF keymap_update_state, TypeInv, Scanned
  <2>2. CASE c \in registered
    <3>1. /\ layout_previous_state' = layout_state /\ layout_state' = Logical(c, s, pressed)
          /\ physical' = (physical \ Scanned(c, s)) \cup pressed
          /\ UNCHANGED <<down, registered>>
      BY <1>2, <2>2 DEF keymap_update_state
    <3>2. \A k \in Keys : get_top_layer(k) # Up
      BY SearchFinds, KeymapAssumption DEF get_top_layer, Layers, Up
    <3>3. \A k \in Keys : layout_state'[k] # Up <=> k \in physical'
      BY <3>1, <3>2 DEF Logical, Scanned, KeysOf
    <3>4. \A k \in Keys \ todo' : k \in down' <=> k \in physical'
      BY <1>2, <2>1, <2>2, <3>1 DEF keymap_update_state, Scanned
    <3>5. \A k \in todo' : layout_previous_state'[k] # Up <=> k \in down'
      BY <1>2, <2>1, <2>2, <3>1 DEF keymap_update_state, KeysOf
    <3>6. \A d \in Configs \ registered' : KeysOf(d)' \cap physical' = {}
      BY <2>1, <2>2, <3>1 DEF KeysOf
    <3>7. QED  BY <3>3, <3>4, <3>5, <3>6
  <2>3. CASE c \notin registered
    BY <1>2, <2>1, <2>3 DEF keymap_update_state, KeysOf
  <2>4. QED  BY <2>2, <2>3
<1>3. ASSUME NEW k \in todo, Visit(k)
      PROVE  ScanInv'
  <2>1. /\ todo' = todo \ {k}
        /\ down' = IF layout_state[k] # Up THEN down \cup {k} ELSE down \ {k}
        /\ UNCHANGED <<registered, layout_state, layout_previous_state, physical>>
    BY <1>3 DEF Visit, Observe
  <2>2. k \in Keys
    BY KeyFacts DEF TypeInv, TypeOK, CallTypes
  <2>3. QED  BY <2>1, <2>2 DEF KeysOf
<1>4. CASE EndUpdate
  BY <1>4 DEF EndUpdate, history, KeysOf
<1>5. CASE keyscan_debounce
  BY <1>5 DEF keyscan_debounce, keymap_state, call, history, KeysOf
<1>6. CASE TimerElapses
  BY <1>6 DEF TimerElapses, keymap_state, call, KeysOf
<1>7. ASSUME NEW k \in Keys, KeyAges(k)
      PROVE  ScanInv'
  BY <1>7 DEF KeyAges, keymap_state, call, KeysOf
<1>8. CASE UNCHANGED vars
  BY <1>8 DEF vars, keymap_state, call, history, KeysOf
<1>9. QED  BY <1>1, <1>2, <1>3, <1>4, <1>5, <1>6, <1>7, <1>8 DEF Next

LoopInv == TypeInv /\ ScanInv

LEMMA LoopInvariant == Spec => []LoopInv
<1>1. Init => LoopInv
  BY TypeInit, ScanInit DEF LoopInv
<1>2. LoopInv /\ [Next]_vars => LoopInv'
  <2>1. TypeInv /\ [Next]_vars => TypeInv'
    BY RegisterType, UpdateType, VisitType, RestType DEF Next
  <2>2. QED  BY <2>1, ScanStep DEF LoopInv
<1>3. QED  BY <1>1, <1>2, PTL DEF Spec

LEMMA VisitFacts ==
  ASSUME LoopInv, NEW k \in todo, Visit(k)
  PROVE  /\ k \in Keys /\ Config[k] = config_id /\ config_id \in Configs
         /\ busy = TRUE /\ busy' = TRUE
         /\ todo' = todo \ {k}
         /\ layout_previous_state[k] # Up <=> k \in down
         /\ layout_state[k] # Up <=> k \in physical
         /\ down' = IF k \in physical THEN down \cup {k} ELSE down \ {k}
         /\ UNCHANGED <<registered, layout_state, layout_previous_state, config_id,
                        reports, physical>>
         /\ k \notin physical => get_action(k) = Actions[0][k]
         /\ get_action(k) = KC_TRNS => Actions[0][k] = KC_TRNS
         /\ get_action(k) # KC_TRNS => get_action(k) \in ActionsOf(k)
<1>1. k \in KeysOf(config_id) /\ config_id \in Configs /\ busy \in BOOLEAN /\ busy
  BY DEF LoopInv, TypeInv, TypeOK, CallTypes
<1>2. k \in Keys /\ Config[k] = config_id
  BY <1>1, KeyFacts
<1>3. /\ layout_previous_state[k] # Up <=> k \in down
      /\ layout_state[k] # Up <=> k \in physical
  BY <1>2 DEF LoopInv, ScanInv
<1>4. /\ k \notin physical => get_action(k) = Actions[0][k]
      /\ get_action(k) = KC_TRNS => Actions[0][k] = KC_TRNS
      /\ get_action(k) # KC_TRNS => get_action(k) \in ActionsOf(k)
  BY <1>2, <1>3, ActionFound, ActionIsOwn DEF LoopInv, TypeInv, TypeOK
<1>5. /\ todo' = todo \ {k} /\ busy' = busy
      /\ down' = IF layout_state[k] # Up THEN down \cup {k} ELSE down \ {k}
      /\ UNCHANGED <<registered, layout_state, layout_previous_state, config_id,
                     reports, physical>>
  BY DEF Visit, Observe
<1>6. QED  BY <1>1, <1>2, <1>3, <1>4, <1>5

-----------------------------------------------------------------------------
(* Layers.                                                                 *)

LEMMA LayersVisit ==
  ASSUME LoopInv, LayersHeld, NEW k \in todo, Visit(k)
  PROVE  LayersHeld'
<1> DEFINE a   == get_action(k)
           was == layout_previous_state[k] # Up
           is  == layout_state[k] # Up
<1>1. /\ k \in Keys /\ Config[k] = config_id /\ config_id \in Configs
      /\ busy = TRUE /\ busy' = TRUE
      /\ was <=> k \in down
      /\ is <=> k \in physical
      /\ down' = IF is THEN down \cup {k} ELSE down \ {k}
      /\ ~is => a = Actions[0][k]
      /\ a # KC_TRNS => a \in ActionsOf(k)
  BY VisitFacts
<1>2. active_layers' =
        IF a = KC_TRNS THEN active_layers
        ELSE [active_layers EXCEPT ![config_id] = LayersAfter(@, a, is, was)]
  BY DEF Visit
<1>3. k \in KeysOf(config_id)
  BY <1>1, KeyFacts
<1>4. active_layers \in [Configs -> SUBSET Layers]
  BY DEF LoopInv, TypeInv, TypeOK, StateTypes
<1> HIDE DEF a, is, was
<1>5. SUFFICES ASSUME NEW c \in Configs, NEW l \in active_layers'[c] \ {0}, ~Sticky(c, l)
               PROVE  \E j \in KeysOf(c) \cap down' :
                        IsLayerTap(Actions[0][j]) /\ Field(Actions[0][j]) = l
  BY <1>1 DEF LayersHeld, Seen, Sticky, KeysOf, ActionsOf
<1>6. CASE l \in active_layers[c]
  <2>1. PICK j \in KeysOf(c) \cap down :
               IsLayerTap(Actions[0][j]) /\ Field(Actions[0][j]) = l
    BY <1>1, <1>5, <1>6 DEF LayersHeld, Seen
  <2>2. CASE j \in down'
    BY <2>1, <2>2
  <2>3. CASE j \notin down'
    <3>1. j = k /\ ~is /\ was
      BY <1>1, <2>1, <2>3
    <3>2. a = Actions[0][k] /\ IsLayerTap(a) /\ Field(a) = l /\ c = config_id
      BY <1>1, <2>1, <3>1, KeyFacts
    <3>3. a # KC_TRNS
      BY <3>2, TransparentIsNoTap
    <3>4. active_layers'[c] = active_layers[c] \ {l}
      BY <1>1, <1>2, <1>4, <3>1, <3>2, <3>3 DEF LayersAfter
    <3>5. QED  BY <3>4
  <2>4. QED  BY <2>2, <2>3
<1>7. CASE l \notin active_layers[c]
  <2>1. c = config_id /\ is /\ IsLayerTap(a) /\ Field(a) = l /\ a # KC_TRNS
    BY <1>1, <1>2, <1>4, <1>7 DEF LayersAfter
  <2>2. IsLayerTap(Actions[0][k]) /\ Field(Actions[0][k]) = l
    BY <1>1, <1>3, <1>5, <2>1 DEF Sticky
  <2>3. QED  BY <1>1, <1>3, <2>1, <2>2
<1>8. QED  BY <1>6, <1>7

LEMMA LayersStep ==
  ASSUME LoopInv, LayersHeld, [Next]_vars
  PROVE  LayersHeld'
<1> USE DEF LayersHeld, Seen, Sticky, KeysOf, ActionsOf
<1>1. ASSUME NEW c \in Configs, keymap_register_config(c)
      PROVE  LayersHeld'
  <2>1. /\ busy = FALSE /\ busy' = FALSE /\ physical' = physical \ KeysOf(c)
        /\ active_layers' = [active_layers EXCEPT ![c] = {0}]
        /\ active_layers \in [Configs -> SUBSET Layers]
    BY <1>1 DEF keymap_register_config, LoopInv, TypeInv, TypeOK, CallTypes, StateTypes
  <2>2. QED  BY <2>1
<1>2. ASSUME NEW c \in Configs, NEW s \in Sources,
             NEW pressed \in SUBSET Scanned(c, s), keymap_update_state(c, s, pressed)
      PROVE  LayersHeld'
  <2>1. todo = {} /\ ~busy /\ busy' /\ down' = down /\ active_layers' = active_layers
    BY <1>2 DEF keymap_update_state, LoopInv, TypeInv
  <2>2. \A k \in Keys : k \in down <=> k \in physical
    BY <2>1 DEF LoopInv, ScanInv
  <2>3. QED  BY <2>1, <2>2
<1>3. ASSUME NEW k \in todo, Visit(k)
      PROVE  LayersHeld'
  BY <1>3, LayersVisit
<1>4. CASE EndUpdate
  <2>1. todo = {} /\ busy /\ ~busy'
        /\ UNCHANGED <<active_layers, down, physical>>
    BY <1>4 DEF EndUpdate, history
  <2>2. \A k \in Keys : k \in down <=> k \in physical
    BY <2>1 DEF LoopInv, ScanInv
  <2>3. QED  BY <2>1, <2>2
<1>5. CASE \/ keyscan_debounce \/ TimerElapses \/ (\E k \in Keys : KeyAges(k))
           \/ UNCHANGED vars
  <2>1. UNCHANGED <<active_layers, busy, down, physical>>
    BY <1>5 DEF keyscan_debounce, TimerElapses, KeyAges, vars, keymap_state, call, history
  <2>2. QED  BY <2>1
<1>6. QED  BY <1>1, <1>2, <1>3, <1>4, <1>5 DEF Next

\* No sequence of scans, registrations and timeouts leaves a layer active
\* without a held key that activates it, sticky layers excepted
\* (keymap.c:95-98, 182-184, 217-221).
THEOREM LayersCorrect == Spec => []LayersHeld
<1>1. Init => LayersHeld
  BY DEF Init, LayersHeld
<1>2. QED  BY <1>1, LayersStep, LoopInvariant, PTL DEF Spec

-----------------------------------------------------------------------------
(* Reports: what Hold and Release change, then what a report may show.     *)

LEMMA AddKeyEffect ==
  ASSUME NEW r \in ReportInProgress, NEW code \in 0 .. 255
  PROVE  /\ AddKey(r, code).modifiers = r.modifiers
         /\ AddKey(r, code).tapped = r.tapped
         /\ \A i \in 0 .. KeySlots - 1 :
              AddKey(r, code).keys[i] = IF i = r.index THEN code ELSE r.keys[i]
BY DEF AddKey, ReportInProgress

LEMMA HoldEffect ==
  ASSUME NEW r \in ReportInProgress, NEW a \in ActionCodes
  PROVE  /\ Hold(r, a).modifiers = r.modifiers \cup Modifiers(a)
         /\ Hold(r, a).tapped = r.tapped
         /\ \A i \in 0 .. KeySlots - 1 :
              Hold(r, a).keys[i] = IF i = r.index /\ IsTyping(a) THEN Code(a) ELSE r.keys[i]
<1> DEFINE s == AddModifiers(r, a)
<1>1. /\ s \in ReportInProgress /\ s.modifiers = r.modifiers \cup Modifiers(a)
      /\ s.tapped = r.tapped /\ s.index = r.index /\ s.keys = r.keys
  BY ModifiersType DEF AddModifiers, ReportInProgress
<1> HIDE DEF s
<1>2. CASE IsTyping(a)
  <2>1. Hold(r, a) = AddKey(s, Code(a))
    BY <1>2 DEF Hold, s
  <2>2. /\ AddKey(s, Code(a)).modifiers = s.modifiers
        /\ AddKey(s, Code(a)).tapped = s.tapped
        /\ \A i \in 0 .. KeySlots - 1 :
             AddKey(s, Code(a)).keys[i] = IF i = s.index THEN Code(a) ELSE s.keys[i]
    BY <1>1, AddKeyEffect, CodeType
  <2>3. QED  BY <1>1, <1>2, <2>1, <2>2
<1>3. CASE ~IsTyping(a)
  <2>1. Hold(r, a) = s
    BY <1>3 DEF Hold, s
  <2>2. QED  BY <1>1, <1>3, <2>1
<1>4. QED  BY <1>2, <1>3

LEMMA ReleaseEffect ==
  ASSUME NEW r \in ReportInProgress, NEW a \in ActionCodes, NEW k
  PROVE  /\ Release(r, a, k).modifiers \subseteq r.modifiers
         /\ Type(a) # 3 => Release(r, a, k).modifiers = r.modifiers
         /\ Release(r, a, k).modifiers \cup Modifiers(a) = r.modifiers \cup Modifiers(a)
         /\ ~StillTapping(k) => /\ Release(r, a, k).tapped = r.tapped
                                /\ Release(r, a, k).keys = r.keys
         /\ StillTapping(k) =>
              /\ Release(r, a, k).tapped = r.index
              /\ \A i \in 0 .. KeySlots - 1 :
                   Release(r, a, k).keys[i] = IF i = r.index THEN Code(a) ELSE r.keys[i]
<1> DEFINE s == Undo(r, a)
           t == AddKey(s, Code(a))
<1>1. /\ s \in ReportInProgress /\ s.modifiers \subseteq r.modifiers
      /\ Type(a) # 3 => s.modifiers = r.modifiers
      /\ s.modifiers \cup Modifiers(a) = r.modifiers \cup Modifiers(a)
      /\ s.tapped = r.tapped /\ s.index = r.index /\ s.keys = r.keys
  BY DEF Undo, ReportInProgress
<1> HIDE DEF s
<1>2. /\ t \in ReportInProgress /\ t.modifiers = s.modifiers
      /\ \A i \in 0 .. KeySlots - 1 : t.keys[i] = IF i = s.index THEN Code(a) ELSE s.keys[i]
  BY <1>1, AddKeyType, AddKeyEffect, CodeType
<1> HIDE DEF t
<1>3. CASE StillTapping(k)
  <2>1. Release(r, a, k) = [t EXCEPT !.tapped = r.index]
    BY <1>3 DEF Release, s, t
  <2>2. /\ Release(r, a, k).tapped = r.index
        /\ Release(r, a, k).keys = t.keys
        /\ Release(r, a, k).modifiers = t.modifiers
    BY <1>2, <2>1 DEF ReportInProgress
  <2>3. QED  BY <1>1, <1>2, <1>3, <2>2
<1>4. CASE ~StillTapping(k)
  <2>1. Release(r, a, k) = s
    BY <1>4 DEF Release, s
  <2>2. QED  BY <1>1, <1>4, <2>1
<1>5. QED  BY <1>3, <1>4

\* The report under construction shows what is held, the slot of a tap apart,
\* and there is one tap at most.
OpenInv ==
  busy =>
    /\ \A i \in 0 .. KeySlots - 1 :
         report.keys[i] # 0 /\ i # report.tapped =>
           \E k \in KeysOf(config_id) \cap physical : CanType(k, report.keys[i])
    /\ \A b \in report.modifiers : \E k \in KeysOf(config_id) \cap physical : CanHold(k, b)
    /\ report.tapped # NoSlot => is_tapping[config_id] \notin todo

\* The three ways in which a visit changes report and tap.
LEMMA VisitReport ==
  ASSUME LoopInv, NEW k \in todo, Visit(k)
  PROVE  LET a == get_action(k) IN
         /\ a \in ActionCodes /\ report \in ReportInProgress
         /\ is_tapping' \in {is_tapping, [is_tapping EXCEPT ![config_id] = k],
                             [is_tapping EXCEPT ![config_id] = NoKey]}
         /\ \/ report' = report /\ (a = KC_TRNS \/ (k \notin physical /\ k \notin down))
                              /\ UNCHANGED <<is_tapping, timeout, timed>>
            \/ /\ a # KC_TRNS /\ k \in physical /\ report' = Hold(report, a)
               /\ IF k \in down THEN UNCHANGED <<is_tapping, timeout, timed>>
                  ELSE Arm(a, k, TRUE)
            \/ /\ a # KC_TRNS /\ k \notin physical /\ k \in down
               /\ report' = Release(report, a, k)
               /\ Arm(a, k, FALSE)
<1> DEFINE a   == get_action(k)
           was == layout_previous_state[k] # Up
           is  == layout_state[k] # Up
<1>1. (was <=> k \in down) /\ (is <=> k \in physical) /\ k \in Keys
  BY VisitFacts
<1>2. a \in ActionCodes /\ report \in ReportInProgress
  BY <1>1, ActionFound DEF LoopInv, TypeInv, TypeOK, CallTypes
<1>3. IF a = KC_TRNS
      THEN report' = report /\ UNCHANGED <<is_tapping, timeout, timed>>
      ELSE /\ report' = IF is THEN Hold(report, a)
                        ELSE IF was THEN Release(report, a, k) ELSE report
           /\ IF is # was THEN Arm(a, k, is) ELSE UNCHANGED <<is_tapping, timeout, timed>>
  BY DEF Visit
<1>4. \A p \in BOOLEAN : Arm(a, k, p) =>
        is_tapping' \in {[is_tapping EXCEPT ![config_id] = k],
                        [is_tapping EXCEPT ![config_id] = NoKey]}
  BY DEF Arm
<1> HIDE DEF a, was, is
<1>5. is \in BOOLEAN /\ was \in BOOLEAN
  BY DEF is, was
<1>6. CASE a = KC_TRNS
  BY <1>2, <1>3, <1>6 DEF a
<1>7. CASE a # KC_TRNS /\ is
  <2>1. is = TRUE
    BY <1>5, <1>7
  <2>2. CASE was
    BY <1>1, <1>2, <1>3, <1>5, <1>7, <2>1, <2>2 DEF a
  <2>3. CASE ~was
    <3>1. Arm(a, k, TRUE) /\ report' = Hold(report, a)
      BY <1>3, <1>5, <1>7, <2>1, <2>3
    <3>2. QED  BY <1>1, <1>2, <1>4, <1>7, <2>1, <2>3, <3>1 DEF a
  <2>4. QED  BY <2>2, <2>3
<1>8. CASE a # KC_TRNS /\ ~is
  <2>1. is = FALSE
    BY <1>5, <1>8
  <2>2. CASE was
    <3>1. Arm(a, k, FALSE) /\ report' = Release(report, a, k)
      BY <1>3, <1>5, <1>8, <2>1, <2>2
    <3>2. QED  BY <1>1, <1>2, <1>4, <1>8, <2>1, <2>2, <3>1 DEF a
  <2>3. CASE ~was
    BY <1>1, <1>2, <1>3, <1>5, <1>8, <2>1, <2>3 DEF a
  <2>4. QED  BY <2>2, <2>3
<1>9. QED  BY <1>6, <1>7, <1>8

LEMMA OpenVisit ==
  ASSUME LoopInv, OpenInv, NEW k \in todo, Visit(k)
  PROVE  OpenInv'
<1> DEFINE a     == get_action(k)
           Held  == KeysOf(config_id) \cap physical
           Slots == 0 .. KeySlots - 1
<1>1. /\ k \in KeysOf(config_id) /\ config_id \in Configs /\ busy /\ todo' = todo \ {k}
      /\ is_tapping \in [Configs -> Keys \cup {NoKey}]
      /\ UNCHANGED <<config_id, physical>>
  BY VisitFacts, KeyFacts DEF LoopInv, TypeInv, TypeOK, StateTypes
<1>2. SUFFICES
        /\ \A i \in Slots : report'.keys[i] # 0 /\ i # report'.tapped =>
             \E j \in Held : CanType(j, report'.keys[i])
        /\ \A b \in report'.modifiers : \E j \in Held : CanHold(j, b)
        /\ report'.tapped # NoSlot => is_tapping'[config_id] \notin todo'
  BY <1>1 DEF OpenInv, CanType, CanHold, ActionsOf, KeysOf
<1>3. /\ \A i \in Slots : report.keys[i] # 0 /\ i # report.tapped =>
           \E j \in Held : CanType(j, report.keys[i])
      /\ \A b \in report.modifiers : \E j \in Held : CanHold(j, b)
      /\ report.tapped # NoSlot => is_tapping[config_id] \notin todo
  BY <1>1 DEF OpenInv
<1>4. /\ a \in ActionCodes /\ report \in ReportInProgress
      /\ a # KC_TRNS => a \in ActionsOf(k)
      /\ is_tapping' \in {is_tapping, [is_tapping EXCEPT ![config_id] = k],
                          [is_tapping EXCEPT ![config_id] = NoKey]}
      /\ \/ report' = report
         \/ a # KC_TRNS /\ k \in physical /\ report' = Hold(report, a)
         \/ a # KC_TRNS /\ report' = Release(report, a, k) /\ Arm(a, k, FALSE)
  BY VisitReport, VisitFacts
<1>5. NoKey \notin todo
  BY KeyFacts DEF LoopInv, TypeInv, TypeOK, CallTypes
<1>6. is_tapping'[config_id] \in {is_tapping[config_id], k, NoKey}
  BY <1>1, <1>4
<1>7. report.tapped # NoSlot => is_tapping'[config_id] \notin todo'
  BY <1>1, <1>3, <1>5, <1>6
<1> HIDE DEF a
<1>8. CASE report' = report
  BY <1>3, <1>7, <1>8
<1>9. CASE a # KC_TRNS /\ k \in physical /\ report' = Hold(report, a)
  <2>1. /\ report'.modifiers = report.modifiers \cup Modifiers(a)
        /\ report'.tapped = report.tapped
        /\ \A i \in Slots : report'.keys[i] = IF i = report.index /\ IsTyping(a) THEN Code(a)
                                              ELSE report.keys[i]
    BY <1>4, <1>9, HoldEffect
  <2>2. k \in Held /\ (IsTyping(a) => CanType(k, Code(a)))
    BY <1>1, <1>4, <1>9 DEF CanType
  <2>3. \A b \in Modifiers(a) : CanHold(k, b)
    BY <1>4, <1>9 DEF CanHold
  <2>4. QED  BY <1>3, <1>7, <2>1, <2>2, <2>3
<1>10. CASE a # KC_TRNS /\ report' = Release(report, a, k) /\ Arm(a, k, FALSE)
  <2>1. report'.modifiers \subseteq report.modifiers
    BY <1>4, <1>10, ReleaseEffect
  <2>2. is_tapping'[config_id] = NoKey
    BY <1>1, <1>10 DEF Arm
  <2>3. CASE StillTapping(k)
    <3>1. report.tapped = NoSlot
      BY <1>3, <2>3 DEF StillTapping
    <3>2. /\ report'.tapped = report.index
          /\ \A i \in Slots : report'.keys[i] = IF i = report.index THEN Code(a)
                                                ELSE report.keys[i]
      BY <1>4, <1>10, <2>3, ReleaseEffect
    <3>3. \A i \in Slots : i # NoSlot
      BY DEF NoSlot
    <3>4. QED  BY <1>1, <1>3, <1>5, <2>1, <2>2, <3>1, <3>2, <3>3
  <2>4. CASE ~StillTapping(k)
    <3>1. report'.tapped = report.tapped /\ report'.keys = report.keys
      BY <1>4, <1>10, <2>4, ReleaseEffect
    <3>2. QED  BY <1>1, <1>3, <1>5, <2>1, <2>2, <3>1
  <2>5. QED  BY <2>3, <2>4
<1>11. QED  BY <1>4, <1>8, <1>9, <1>10

LEMMA SoundAtEnd ==
  ASSUME LoopInv, OpenInv, EndUpdate
  PROVE  OpenInv' /\ ReportSound'
<1> DEFINE Held  == KeysOf(config_id) \cap physical
           first == [modifiers |-> report.modifiers, keys |-> report.keys]
           last  == IF report.tapped = NoSlot THEN first
                    ELSE [first EXCEPT !.keys[report.tapped] = 0]
           Slots == 0 .. KeySlots - 1
<1>1. /\ busy /\ busy' = FALSE /\ reports' = Reports
      /\ UNCHANGED <<config_id, physical>>
      /\ report \in ReportInProgress
  BY DEF EndUpdate, history, LoopInv, TypeInv, TypeOK, CallTypes
<1>2. reports'[Len(reports')] = last
  BY <1>1 DEF Reports
<1>3. \A i \in Slots : i # NoSlot
  BY DEF NoSlot
<1>4. /\ last.modifiers = report.modifiers
      /\ DOMAIN last.keys = Slots
      /\ \A i \in Slots : last.keys[i] # 0 => last.keys[i] = report.keys[i] /\ i # report.tapped
  BY <1>1, <1>3 DEF ReportInProgress
<1> HIDE DEF last
<1>5. \A code \in Typed(last) : \E j \in Held : CanType(j, code)
  BY <1>1, <1>4 DEF Typed, OpenInv
<1>6. \A b \in last.modifiers : \E j \in Held : CanHold(j, b)
  BY <1>1, <1>4 DEF OpenInv
<1>7. /\ \A code \in Typed(last) : \E j \in KeysOf(config_id') \cap physical' : CanType(j, code)
      /\ \A b \in last.modifiers : \E j \in KeysOf(config_id') \cap physical' : CanHold(j, b)
  BY <1>1, <1>5, <1>6
<1>8. ReportSound'
  BY <1>2, <1>7 DEF ReportSound, Report, Typed, CanType, CanHold, ActionsOf, KeysOf
<1>9. QED  BY <1>1, <1>8 DEF OpenInv

LEMMA ReportStep ==
  ASSUME LoopInv, OpenInv, ReportSound, [Next]_vars
  PROVE  OpenInv' /\ ReportSound'
<1> USE DEF ReportSound, Report, Typed, CanType, CanHold, ActionsOf, KeysOf
<1>1. ASSUME NEW c \in Configs, keymap_register_config(c)
      PROVE  OpenInv' /\ ReportSound'
  <2>1. busy' = FALSE /\ reports' = <<>>
    BY <1>1 DEF keymap_register_config, LoopInv, TypeInv, TypeOK, CallTypes
  <2>2. QED  BY <2>1 DEF OpenInv
<1>2. ASSUME NEW c \in Configs, NEW s \in Sources,
             NEW pressed \in SUBSET Scanned(c, s), keymap_update_state(c, s, pressed)
      PROVE  OpenInv' /\ ReportSound'
  <2>1. reports' = <<>> /\ report' = NewReport
    BY <1>2 DEF keymap_update_state
  <2>2. /\ \A i \in 0 .. KeySlots - 1 : NewReport.keys[i] = 0
        /\ NewReport.modifiers = {} /\ NewReport.tapped = NoSlot
    BY DEF NewReport, EmptyReport
  <2>3. QED  BY <2>1, <2>2 DEF OpenInv
<1>3. ASSUME NEW k \in todo, Visit(k)
      PROVE  OpenInv' /\ ReportSound'
  <2>1. UNCHANGED <<reports, config_id, physical>>
    BY <1>3, VisitFacts
  <2>2. QED  BY <1>3, <2>1, OpenVisit
<1>4. CASE EndUpdate
  BY <1>4, SoundAtEnd
<1>5. CASE \/ keyscan_debounce \/ TimerElapses \/ (\E k \in Keys : KeyAges(k))
           \/ UNCHANGED vars
  <2>1. UNCHANGED <<reports, report, config_id, physical, busy, todo, is_tapping>>
    BY <1>5 DEF keyscan_debounce, TimerElapses, KeyAges, vars, keymap_state, call, history
  <2>2. QED  BY <2>1 DEF OpenInv
<1>6. QED  BY <1>1, <1>2, <1>3, <1>4, <1>5 DEF Next

\* The report an update leaves the host with shows nothing that no held key
\* can mean: no key and no modifier is stuck, and a tap is followed by its
\* release (keymap.c:225-239, 247-253).
THEOREM ReportCorrect == Spec => []ReportSound
<1>1. Init => OpenInv /\ ReportSound
  BY DEF Init, OpenInv, ReportSound
<1>2. LoopInv /\ OpenInv /\ ReportSound /\ [Next]_vars => OpenInv' /\ ReportSound'
  BY ReportStep
<1>3. QED  BY <1>1, <1>2, LoopInvariant, PTL DEF Spec

-----------------------------------------------------------------------------
(* The slots.  A code is overwritten when the index comes around, which    *)
(* takes more codes than there are slots.                                  *)

Held == KeysOf(config_id) \cap physical

\* A key that types on each layer.
Types(k) == Actions[0][k] # KC_TRNS /\ \A a \in ActionsOf(k) : IsTyping(a) /\ Code(a) # 0

ShownAt(i, k) == i # report.tapped /\ report.keys[i] # 0 /\ CanType(k, report.keys[i])

\* The report has n codes, each in a slot of its own, and room for those of
\* the held keys that are still to be visited and for a tap.
Filled(n) ==
  /\ n + Cardinality(Held \cap todo) + (IF report.tapped = NoSlot THEN 1 ELSE 0) <= KeySlots
  /\ report.index = IF n = KeySlots THEN 0 ELSE n
  /\ report.tapped # NoSlot => report.tapped < n
  /\ \A k \in Held \ todo : Types(k) => \E i \in 0 .. n - 1 : ShownAt(i, k)

SlotInv == busy /\ Cardinality(Held) < KeySlots => \E n \in Nat : Filled(n)

LEMMA FiniteKeys ==
  ASSUME NEW S \in SUBSET Keys
  PROVE  IsFiniteSet(S) /\ Cardinality(S) \in Nat
<1>1. IsFiniteSet(Keys)
  BY FS_Interval, KeymapAssumption DEF Keys
<1>2. IsFiniteSet(S)
  BY <1>1, FS_Subset
<1>3. QED  BY <1>2, FS_CardinalityType

LEMMA Remainder ==
  ASSUME NEW a \in Nat, NEW b \in Nat, a < b
  PROVE  a % b = a
OBVIOUS

LEMMA FreshSlot ==
  ASSUME NEW n \in Nat, n < KeySlots,
         NEW r \in ReportInProgress, r.index = n, NEW code \in 0 .. 255
  PROVE  AddKey(r, code).index = IF n + 1 = KeySlots THEN 0 ELSE n + 1
<1>1. KeySlots \in Nat \ {0} /\ n + 1 <= KeySlots
  BY KeymapAssumption
<1>2. AddKey(r, code).index = (n + 1) % KeySlots
  BY DEF AddKey, ReportInProgress
<1>3. CASE n + 1 = KeySlots
  BY <1>1, <1>2, <1>3
<1>4. CASE n + 1 < KeySlots
  BY <1>1, <1>2, <1>4, Remainder
<1>5. QED  BY <1>1, <1>3, <1>4

\* Where the index goes when a held key or a tap is added.
LEMMA IndexEffect ==
  ASSUME NEW r \in ReportInProgress, NEW a \in ActionCodes, NEW k,
         NEW n \in Nat, r.index = IF n = KeySlots THEN 0 ELSE n
  PROVE  /\ ~IsTyping(a) => Hold(r, a).index = r.index
         /\ IsTyping(a) /\ n < KeySlots =>
              Hold(r, a).index = IF n + 1 = KeySlots THEN 0 ELSE n + 1
         /\ ~StillTapping(k) => Release(r, a, k).index = r.index
         /\ StillTapping(k) /\ n < KeySlots =>
              Release(r, a, k).index = IF n + 1 = KeySlots THEN 0 ELSE n + 1
<1> DEFINE s == AddModifiers(r, a)
           u == Undo(r, a)
<1>1. /\ s \in ReportInProgress /\ s.index = r.index
      /\ u \in ReportInProgress /\ u.index = r.index
  BY ModifiersType DEF AddModifiers, Undo, ReportInProgress
<1>2. Code(a) \in 0 .. 255 /\ KeySlots \in Nat
  BY CodeType, KeymapAssumption
<1>3. ASSUME n < KeySlots
      PROVE  /\ AddKey(s, Code(a)).index = IF n + 1 = KeySlots THEN 0 ELSE n + 1
             /\ AddKey(u, Code(a)).index = IF n + 1 = KeySlots THEN 0 ELSE n + 1
  <2>1. s.index = n /\ u.index = n
    BY <1>1, <1>2, <1>3
  <2> HIDE DEF s, u
  <2>2. QED  BY <1>1, <1>2, <1>3, <2>1, FreshSlot
<1>4. AddKey(u, Code(a)) \in ReportInProgress
  BY <1>1, <1>2, AddKeyType
<1>5. Hold(r, a) = IF IsTyping(a) THEN AddKey(s, Code(a)) ELSE s
  BY DEF Hold
<1>6. Release(r, a, k) = IF StillTapping(k)
                         THEN [AddKey(u, Code(a)) EXCEPT !.tapped = r.index] ELSE u
  BY DEF Release
<1> HIDE DEF s, u
<1>7. [AddKey(u, Code(a)) EXCEPT !.tapped = r.index].index = AddKey(u, Code(a)).index
  BY <1>4 DEF ReportInProgress
<1>8. QED  BY <1>1, <1>3, <1>5, <1>6, <1>7

LEMMA SlotVisit ==
  ASSUME LoopInv, OpenInv, SlotInv, NEW k \in todo, Visit(k)
  PROVE  SlotInv'
<1> DEFINE a     == get_action(k)
           Slots == 0 .. KeySlots - 1
           Room(r) == IF r.tapped = NoSlot THEN 1 ELSE 0
<1>1. /\ k \in KeysOf(config_id) /\ busy /\ todo' = todo \ {k}
      /\ UNCHANGED <<config_id, physical>>
      /\ KeySlots \in Nat \ {0}
  BY VisitFacts, KeyFacts, KeymapAssumption
<1>2. Held' = Held
  BY <1>1 DEF Held, KeysOf
<1>3. SUFFICES ASSUME Cardinality(Held) < KeySlots
               PROVE  \E n \in Nat : Filled(n)'
  BY <1>2 DEF SlotInv
<1>4. PICK n \in Nat : Filled(n)
  BY <1>1, <1>3 DEF SlotInv
<1>5. /\ report \in ReportInProgress /\ a \in ActionCodes
      /\ \/ report' = report /\ (a = KC_TRNS \/ k \notin physical)
         \/ a # KC_TRNS /\ k \in physical /\ report' = Hold(report, a)
         \/ a # KC_TRNS /\ k \notin physical /\ report' = Release(report, a, k)
  BY VisitReport
<1>6. /\ a = KC_TRNS => Actions[0][k] = KC_TRNS
      /\ a # KC_TRNS => a \in ActionsOf(k)
  BY VisitFacts
<1>7. /\ Cardinality(Held \cap todo) \in Nat /\ Cardinality(Held \cap todo') \in Nat
      /\ Cardinality(Held \cap todo') =
           IF k \in physical THEN Cardinality(Held \cap todo) - 1 ELSE Cardinality(Held \cap todo)
  <2>1. Held \cap todo \in SUBSET Keys /\ Held \cap todo' \in SUBSET Keys
    BY <1>1 DEF Held, KeysOf
  <2>2. Held \cap todo' = (Held \cap todo) \ {k}
    BY <1>1
  <2>3. k \in Held \cap todo <=> k \in physical
    BY <1>1 DEF Held
  <2>4. /\ IsFiniteSet(Held \cap todo)
        /\ Cardinality(Held \cap todo) \in Nat /\ Cardinality(Held \cap todo') \in Nat
    BY <2>1, FiniteKeys
  <2>5. Cardinality((Held \cap todo) \ {k}) =
          IF k \in Held \cap todo THEN Cardinality(Held \cap todo) - 1
          ELSE Cardinality(Held \cap todo)
    BY <2>4, FS_RemoveElement
  <2>6. QED  BY <2>2, <2>3, <2>4, <2>5
<1>8. report.tapped \in {NoSlot} \cup Slots /\ report'.tapped \in {NoSlot} \cup Slots
  BY <1>5, HoldType, ReleaseType DEF ReportInProgress
<1>9. /\ n + Cardinality(Held \cap todo) + Room(report) <= KeySlots
      /\ report.index = IF n = KeySlots THEN 0 ELSE n
      /\ report.tapped # NoSlot => report.tapped < n
      /\ \A j \in Held \ todo : Types(j) => \E i \in 0 .. n - 1 : ShownAt(i, j)
  BY <1>4 DEF Filled
<1>10. \A j \in Held \ todo' : j \in Held \ todo \/ (j = k /\ k \in physical)
  BY <1>1 DEF Held
\* The codes in the first n slots are still there, and so is the tap.
<1>11. ASSUME NEW m \in Nat, n <= m,
              m + Cardinality(Held \cap todo') + Room(report') <= KeySlots,
              report'.index = IF m = KeySlots THEN 0 ELSE m,
              report'.tapped # NoSlot => report'.tapped < m,
              report'.tapped # report.tapped => report'.tapped >= n,
              \A i \in 0 .. n - 1 : report'.keys[i] = report.keys[i],
              k \in physical /\ Types(k) => ShownAt(n, k)' /\ n < m
       PROVE  Filled(m)'
  <2>1. SUFFICES ASSUME NEW j \in Held \ todo', Types(j)
                 PROVE  \E i \in 0 .. m - 1 : ShownAt(i, j)'
    BY <1>2, <1>11 DEF Filled, Types, ActionsOf
  <2>2. CASE j \in Held \ todo
    <3>1. PICK i \in 0 .. n - 1 : ShownAt(i, j)
      BY <1>9, <2>1, <2>2
    <3>2. i # report'.tapped /\ report'.keys[i] = report.keys[i]
      BY <1>11, <3>1 DEF ShownAt
    <3>3. ShownAt(i, j)'
      BY <3>1, <3>2 DEF ShownAt, CanType, ActionsOf
    <3>4. QED  BY <1>11, <3>3
  <2>3. CASE j = k /\ k \in physical
    BY <1>11, <2>1, <2>3
  <2>4. QED  BY <1>10, <2>1, <2>2, <2>3
<1> HIDE DEF a
<1>12. CASE report' = report /\ (a = KC_TRNS \/ k \notin physical)
  <2>1. ~(k \in physical /\ Types(k))
    BY <1>6, <1>12 DEF Types
  <2>2. n + Cardinality(Held \cap todo') + Room(report') <= KeySlots
    BY <1>1, <1>7, <1>9, <1>12
  <2>3. Filled(n)'
    BY <1>9, <1>11, <1>12, <2>1, <2>2
  <2>4. QED  BY <2>3
<1>13. CASE a # KC_TRNS /\ k \in physical /\ report' = Hold(report, a)
  <2>1. n < KeySlots /\ n \in Slots /\ report.index = n
    BY <1>1, <1>7, <1>9, <1>13
  <2>2. /\ report'.tapped = report.tapped
        /\ \A i \in Slots : report'.keys[i] = IF i = report.index /\ IsTyping(a) THEN Code(a)
                                              ELSE report.keys[i]
    BY <1>5, <1>13, HoldEffect
  <2>3. /\ ~IsTyping(a) => report'.index = report.index
        /\ IsTyping(a) => report'.index = IF n + 1 = KeySlots THEN 0 ELSE n + 1
    BY <1>5, <1>9, <1>13, <2>1, IndexEffect
  <2>4. \A i \in 0 .. n - 1 : report'.keys[i] = report.keys[i]
    BY <1>1, <2>1, <2>2
  <2>5. CASE IsTyping(a)
    <3>1. Types(k) => ShownAt(n, k)'
      <4>1. Types(k) => Code(a) # 0
        BY <1>6, <1>13 DEF Types
      <4>2. report'.keys[n] = Code(a) /\ n # report'.tapped
        BY <1>8, <1>9, <2>1, <2>2, <2>5 DEF NoSlot
      <4>3. CanType(k, Code(a))
        BY <1>6, <1>13, <2>5 DEF CanType
      <4>4. QED  BY <4>1, <4>2, <4>3 DEF ShownAt, CanType, ActionsOf
    <3>2. n + 1 \in Nat /\ n + 1 <= KeySlots
      BY <2>1, <1>1
    <3>3. n + 1 + Cardinality(Held \cap todo') + Room(report') <= KeySlots
      BY <1>1, <1>7, <1>9, <1>13, <2>2
    <3>4. report'.tapped # NoSlot => report'.tapped < n + 1
      BY <1>8, <1>9, <2>2
    <3>5. Filled(n + 1)'
      BY <1>11, <2>2, <2>3, <2>4, <2>5, <3>1, <3>2, <3>3, <3>4
    <3>6. QED  BY <3>2, <3>5
  <2>6. CASE ~IsTyping(a)
    <3>1. ~Types(k)
      BY <1>6, <1>13, <2>6 DEF Types
    <3>2. n + Cardinality(Held \cap todo') + Room(report') <= KeySlots
      BY <1>1, <1>7, <1>9, <1>13, <2>2
    <3>3. Filled(n)'
      BY <1>9, <1>11, <2>2, <2>3, <2>4, <2>6, <3>1, <3>2
    <3>4. QED  BY <3>3
  <2>7. QED  BY <2>5, <2>6
<1>14. CASE a # KC_TRNS /\ k \notin physical /\ report' = Release(report, a, k)
  <2>1. CASE StillTapping(k)
    <3>1. report.tapped = NoSlot
      BY <1>1, <2>1 DEF OpenInv, StillTapping
    <3>2. n < KeySlots /\ n \in Slots /\ report.index = n
      BY <1>1, <1>7, <1>9, <3>1
    <3>3. /\ report'.tapped = n
          /\ \A i \in Slots : report'.keys[i] = IF i = n THEN Code(a) ELSE report.keys[i]
      BY <1>5, <1>14, <2>1, <3>2, ReleaseEffect
    <3>4. report'.index = IF n + 1 = KeySlots THEN 0 ELSE n + 1
      BY <1>5, <1>9, <1>14, <2>1, <3>2, IndexEffect
    <3>5. n + 1 \in Nat /\ n # NoSlot /\ \A i \in 0 .. n - 1 : report'.keys[i] = report.keys[i]
      BY <1>1, <3>2, <3>3 DEF NoSlot
    <3>6. n + 1 + Cardinality(Held \cap todo') + Room(report') <= KeySlots
      BY <1>1, <1>7, <1>9, <1>14, <3>1, <3>3, <3>5
    <3>7. n <= n + 1 /\ report'.tapped < n + 1 /\ report'.tapped >= n
      BY <3>3
    <3> HIDE DEF Room
    <3>8. Filled(n + 1)'
      BY <1>11, <1>14, <3>4, <3>5, <3>6, <3>7
    <3>9. QED  BY <3>5, <3>8
  <2>2. CASE ~StillTapping(k)
    <3>1. report'.tapped = report.tapped /\ report'.keys = report.keys
      BY <1>5, <1>14, <2>2, ReleaseEffect
    <3>2. report'.index = report.index
      BY <1>5, <1>9, <1>14, <2>2, IndexEffect
    <3>3. n + Cardinality(Held \cap todo') + Room(report') <= KeySlots
      BY <1>7, <1>9, <1>14, <3>1
    <3>4. Filled(n)'
      BY <1>9, <1>11, <1>14, <3>1, <3>2, <3>3
    <3>5. QED  BY <3>4
  <2>3. QED  BY <2>1, <2>2
<1>15. QED  BY <1>5, <1>12, <1>13, <1>14

LEMMA SlotUpdate ==
  ASSUME LoopInv, NEW c \in Configs, NEW s \in Sources,
         NEW pressed \in SUBSET Scanned(c, s), keymap_update_state(c, s, pressed)
  PROVE  SlotInv' /\ ReportComplete'
<1>1. /\ config_id' = c /\ report' = NewReport /\ reports' = <<>> /\ todo = {}
  BY DEF keymap_update_state, LoopInv, TypeInv
<1>2. ReportComplete'
  BY <1>1 DEF ReportComplete
<1>3. NewReport.index = 0 /\ NewReport.tapped = NoSlot
  BY DEF NewReport
<1>4. Held' \ todo' = {}
  <2>1. CASE c \in registered
    BY <1>1, <2>1 DEF keymap_update_state, Held, KeysOf
  <2>2. CASE c \notin registered
    BY <1>1, <2>2 DEF keymap_update_state, Held, KeysOf, LoopInv, ScanInv
  <2>3. QED  BY <2>1, <2>2
<1>5. Held' \in SUBSET Keys
  BY DEF Held, KeysOf
<1>6. Held' \cap todo' = Held'
  BY <1>4
<1>7. Cardinality(Held') < KeySlots => Filled(0)'
  <2>1. Cardinality(Held') \in Nat /\ KeySlots \in Nat \ {0}
    BY <1>5, FiniteKeys, KeymapAssumption
  <2>2. report'.index = 0 /\ report'.tapped = NoSlot
    BY <1>1, <1>3
  <2>3. SUFFICES ASSUME Cardinality(Held') < KeySlots
                 PROVE  0 + Cardinality(Held') + 1 <= KeySlots
    BY <1>4, <1>6, <2>1, <2>2 DEF Filled
  <2>4. QED  BY <2>1, <2>3
<1>8. QED  BY <1>2, <1>7 DEF SlotInv

LEMMA CompleteAtEnd ==
  ASSUME LoopInv, SlotInv, EndUpdate
  PROVE  SlotInv' /\ ReportComplete'
<1>1. /\ busy /\ busy' = FALSE /\ todo = {} /\ reports' = Reports
      /\ UNCHANGED <<config_id, physical>>
      /\ report \in ReportInProgress
  BY DEF EndUpdate, history, LoopInv, TypeInv, TypeOK, CallTypes
<1>2. Held' = Held
  BY <1>1 DEF Held, KeysOf
<1>3. SUFFICES ASSUME Cardinality(Held) < KeySlots, NEW k \in Held, Types(k)
               PROVE  \E code \in Typed(Report') : CanType(k, code)
  BY <1>1, <1>2 DEF SlotInv, ReportComplete, Held, KeysOf, Types, ActionsOf, CanType, Typed
<1>4. PICK n \in Nat : Filled(n)
  BY <1>1, <1>3 DEF SlotInv
<1>5. PICK i \in 0 .. n - 1 : ShownAt(i, k)
  BY <1>1, <1>3, <1>4 DEF Filled
<1>6. n <= KeySlots /\ KeySlots \in Nat
  <2>1. Held \cap todo \in SUBSET Keys
    BY DEF Held, KeysOf
  <2>2. QED  BY <1>4, <2>1, FiniteKeys, KeymapAssumption DEF Filled
<1>7. i \in 0 .. KeySlots - 1
  BY <1>6
<1>8. Report' = Reports[Len(Reports)]
  BY <1>1 DEF Report
<1>9. Report'.keys[i] = report.keys[i] /\ Report' \in ReportType
  <2>1. /\ Reports \in Seq(ReportType) /\ Len(Reports) \in 1 .. 2
        /\ Reports[Len(Reports)].keys[i] = IF i = report.tapped THEN 0 ELSE report.keys[i]
    BY <1>1, <1>7, ReportsType
  <2>2. \A q \in Seq(ReportType) : Len(q) \in 1 .. 2 => q[Len(q)] \in ReportType
    OBVIOUS
  <2>3. QED  BY <1>5, <1>8, <2>1, <2>2 DEF ShownAt
<1>10. report.keys[i] \in Typed(Report')
  BY <1>5, <1>7, <1>9 DEF Typed, ReportType, ShownAt
<1>11. QED  BY <1>5, <1>10 DEF ShownAt

LEMMA CompleteStep ==
  ASSUME LoopInv, OpenInv, SlotInv, ReportComplete, [Next]_vars
  PROVE  SlotInv' /\ ReportComplete'
<1>1. ASSUME NEW c \in Configs, keymap_register_config(c)
      PROVE  SlotInv' /\ ReportComplete'
  <2>1. busy' = FALSE /\ reports' = <<>>
    BY <1>1 DEF keymap_register_config, LoopInv, TypeInv, TypeOK, CallTypes
  <2>2. QED  BY <2>1 DEF SlotInv, ReportComplete
<1>2. ASSUME NEW c \in Configs, NEW s \in Sources,
             NEW pressed \in SUBSET Scanned(c, s), keymap_update_state(c, s, pressed)
      PROVE  SlotInv' /\ ReportComplete'
  BY <1>2, SlotUpdate
<1>3. ASSUME NEW k \in todo, Visit(k)
      PROVE  SlotInv' /\ ReportComplete'
  <2>1. UNCHANGED <<reports, config_id, physical>>
    BY <1>3, VisitFacts
  <2>2. ReportComplete'
    BY <2>1 DEF ReportComplete, Report, Typed, CanType, ActionsOf, KeysOf
  <2>3. QED  BY <1>3, <2>2, SlotVisit
<1>4. CASE EndUpdate
  BY <1>4, CompleteAtEnd
<1>5. CASE \/ keyscan_debounce \/ TimerElapses \/ (\E k \in Keys : KeyAges(k))
           \/ UNCHANGED vars
  <2>1. UNCHANGED <<reports, report, config_id, physical, busy, todo>>
    BY <1>5 DEF keyscan_debounce, TimerElapses, KeyAges, vars, keymap_state, call, history
  <2>2. QED
    BY <2>1 DEF SlotInv, Filled, Held, Types, ShownAt, ReportComplete, Report, Typed, CanType,
                ActionsOf, KeysOf
<1>6. QED  BY <1>1, <1>2, <1>3, <1>4, <1>5 DEF Next

\* While fewer keys are held than the report has slots, none of those that
\* type on each layer is missing from the report the host is left with: no
\* code is overwritten and none cleared with the tap's (keymap.c:163-173, 225-253).
THEOREM CompleteCorrect == Spec => []ReportComplete
<1>1. Init => OpenInv /\ ReportSound /\ SlotInv /\ ReportComplete
  BY DEF Init, OpenInv, ReportSound, SlotInv, ReportComplete
<1>2. LoopInv /\ OpenInv /\ ReportSound /\ SlotInv /\ ReportComplete /\ [Next]_vars
        => OpenInv' /\ ReportSound' /\ SlotInv' /\ ReportComplete'
  BY ReportStep, CompleteStep
<1>3. QED  BY <1>1, <1>2, LoopInvariant, PTL DEF Spec

-----------------------------------------------------------------------------
(* Taps: the key that is tapping, the timer, and the history of the keys.  *)

OnlyTaps(k) == IsTap(Actions[0][k]) /\ \A a \in ActionsOf(k) : IsTap(a)

\* A tap is pending for a key of the configuration that can tap, and a key
\* that nothing has disturbed since its press is pending.
PendingInv ==
  /\ \A c \in Configs :
       is_tapping[c] # NoKey => is_tapping[c] \in KeysOf(c) /\ is_tapping[c] \in Tappable
  /\ \A k \in down : OnlyTaps(k) /\ k \notin disturbed \cup touched =>
       /\ is_tapping[Config[k]] = k
       /\ k \notin late => timer = "running" /\ timed = k /\ ~timeout_expired

\* A visit changes nothing of taps, or it is a press or a release.
LEMMA VisitTap ==
  ASSUME LoopInv, NEW k \in todo, Visit(k)
  PROVE  /\ down' = IF k \in physical THEN down \cup {k} ELSE down \ {k}
         /\ late' = late \cap down'
         /\ \/ /\ UNCHANGED <<is_tapping, timer, timeout_expired, timed>>
               /\ disturbed' = disturbed \cap down' /\ touched' = touched \cap down'
               /\ Actions[0][k] = KC_TRNS \/ down' = down
            \/ /\ (k \in physical) # (k \in down)
               /\ get_action(k) \in ActionsOf(k)
               /\ Arm(get_action(k), k, k \in physical)
               /\ disturbed' = (disturbed \cup (down \cap Tappable \cap KeysOf(config_id))) \ {k}
               /\ touched' = (touched \cup ((down \cap Tappable) \ KeysOf(config_id))) \ {k}
<1> DEFINE a   == get_action(k)
           was == layout_previous_state[k] # Up
           is  == layout_state[k] # Up
<1>1. /\ was <=> k \in down
      /\ is <=> k \in physical
      /\ Config[k] = config_id
      /\ a = KC_TRNS => Actions[0][k] = KC_TRNS
      /\ a # KC_TRNS => a \in ActionsOf(k)
  BY VisitFacts
<1>2. /\ IF a = KC_TRNS THEN UNCHANGED <<is_tapping, timeout, timed>>
         ELSE IF is # was THEN Arm(a, k, is) ELSE UNCHANGED <<is_tapping, timeout, timed>>
      /\ Observe(k, is, is # was /\ a # KC_TRNS)
  BY DEF Visit
<1>3. is = (k \in physical) /\ was = (k \in down)
  BY <1>1 DEF is, was
<1> HIDE DEF a, is, was
<1>4. Observe(k, k \in physical, is # was /\ a # KC_TRNS)
  BY <1>2, <1>3
<1>5. CASE is # was /\ a # KC_TRNS
  <2>1. Arm(a, k, k \in physical)
    BY <1>2, <1>3, <1>5
  <2>2. QED  BY <1>1, <1>3, <1>4, <1>5, <2>1 DEF Observe, a
<1>6. CASE ~(is # was /\ a # KC_TRNS)
  <2>1. UNCHANGED <<is_tapping, timer, timeout_expired, timed>>
    BY <1>2, <1>6 DEF timeout
  <2>2. Actions[0][k] = KC_TRNS \/ is = was
    BY <1>1, <1>6
  <2>3. QED  BY <1>3, <1>4, <1>6, <2>1, <2>2 DEF Observe
<1>7. QED  BY <1>5, <1>6

LEMMA OnlyTapsFacts ==
  ASSUME NEW k \in Keys, OnlyTaps(k)
  PROVE  k \in Tappable /\ Actions[0][k] # KC_TRNS
BY LayerFacts, TransparentIsNoTap DEF OnlyTaps, Tappable

LEMMA PressFacts ==
  ASSUME NEW k \in Keys, NEW a \in ActionsOf(k), IsTap(a)
  PROVE  k \in Tappable
BY DEF ActionsOf, Tappable

LEMMA TapVisit ==
  ASSUME LoopInv, PendingInv, TapArmed, NEW k \in todo, Visit(k)
  PROVE  PendingInv' /\ TapArmed'
<1> USE DEF PendingInv, TapArmed
<1>1. /\ k \in Keys /\ k \in KeysOf(config_id) /\ Config[k] = config_id /\ config_id \in Configs
      /\ is_tapping \in [Configs -> Keys \cup {NoKey}]
      /\ down \subseteq Keys /\ late \subseteq down
      /\ NoKey \notin Keys
  BY VisitFacts, KeyFacts DEF LoopInv, TypeInv, TypeOK, StateTypes, HistoryTypes
<1>2. /\ down' = IF k \in physical THEN down \cup {k} ELSE down \ {k}
      /\ late' = late \cap down'
  BY VisitTap
<1>3. SUFFICES
        /\ \A c \in Configs :
             is_tapping'[c] # NoKey => is_tapping'[c] \in KeysOf(c) /\ is_tapping'[c] \in Tappable
        /\ \A j \in down' : OnlyTaps(j) /\ j \notin disturbed' \cup touched' =>
             /\ is_tapping'[Config[j]] = j
             /\ j \notin late' => timer' = "running" /\ timed' = j /\ ~timeout_expired'
        /\ \A c \in Configs : LET j == is_tapping'[c] IN
             j # NoKey /\ Actions[0][j] # KC_TRNS =>
               /\ j \in down' \ disturbed'
               /\ \/ j \in touched'
                  \/ j \in late' /\ timer' = "elapsed"
                  \/ j \notin late' /\ timer' = "running" /\ timed' = j /\ ~timeout_expired'
  BY DEF KeysOf, Tappable, OnlyTaps, ActionsOf
<1>4. CASE /\ UNCHANGED <<is_tapping, timer, timeout_expired, timed>>
           /\ disturbed' = disturbed \cap down' /\ touched' = touched \cap down'
           /\ Actions[0][k] = KC_TRNS \/ down' = down
  <2>1. \A j \in Keys : Actions[0][j] # KC_TRNS => (j \in down' <=> j \in down)
    BY <1>1, <1>2, <1>4
  <2>2. \A j \in Keys : OnlyTaps(j) => Actions[0][j] # KC_TRNS
    BY OnlyTapsFacts
  <2>3. down' \subseteq Keys
    BY <1>1, <1>2
  <2>4. \A c \in Configs : is_tapping[c] \in Keys \cup {NoKey}
    BY <1>1
  <2>5. QED  BY <1>2, <1>4, <2>1, <2>2, <2>3, <2>4
<1>5. CASE /\ (k \in physical) # (k \in down)
           /\ get_action(k) \in ActionsOf(k)
           /\ Arm(get_action(k), k, k \in physical)
           /\ disturbed' = (disturbed \cup (down \cap Tappable \cap KeysOf(config_id))) \ {k}
           /\ touched' = (touched \cup ((down \cap Tappable) \ KeysOf(config_id))) \ {k}
  <2>1. \A c \in Configs \ {config_id} : is_tapping'[c] = is_tapping[c]
    BY <1>1, <1>5 DEF Arm
  <2>2. \/ /\ k \in physical /\ IsTap(get_action(k)) /\ is_tapping'[config_id] = k
           /\ timer' = "running" /\ timeout_expired' = FALSE /\ timed' = k
        \/ /\ is_tapping'[config_id] = NoKey
           /\ ~(k \in physical /\ IsTap(get_action(k)))
    BY <1>1, <1>5 DEF Arm, StartTimer
  <2>3. \A c \in Configs \ {config_id} : is_tapping[c] # NoKey =>
          is_tapping[c] \notin KeysOf(config_id) /\ is_tapping[c] # k
    BY <1>1 DEF KeysOf
  <2>4. ASSUME NEW c \in Configs
        PROVE  /\ is_tapping'[c] # NoKey => is_tapping'[c] \in KeysOf(c) /\ is_tapping'[c] \in Tappable
               /\ is_tapping'[c] # NoKey /\ Actions[0][is_tapping'[c]] # KC_TRNS =>
                    /\ is_tapping'[c] \in down' \ disturbed'
                    /\ \/ is_tapping'[c] \in touched'
                       \/ is_tapping'[c] \in late' /\ timer' = "elapsed"
                       \/ /\ is_tapping'[c] \notin late' /\ timer' = "running"
                          /\ timed' = is_tapping'[c] /\ ~timeout_expired'
    <3>1. CASE c = config_id
      <4>1. IsTap(get_action(k)) => k \in Tappable
        BY <1>1, <1>5, PressFacts
      <4>2. k \in physical => k \notin late' /\ k \in down'
        BY <1>1, <1>2, <1>5
      <4>3. QED  BY <1>1, <1>5, <2>2, <3>1, <4>1, <4>2
    <3>2. CASE c # config_id
      BY <1>1, <1>2, <1>5, <2>1, <2>3, <3>2
    <3>3. QED  BY <3>1, <3>2
  <2>5. ASSUME NEW j \in down', OnlyTaps(j), j \notin disturbed' \cup touched'
        PROVE  /\ is_tapping'[Config[j]] = j
               /\ j \notin late' => timer' = "running" /\ timed' = j /\ ~timeout_expired'
    <3>1. j \in Keys
      BY <1>1, <1>2
    <3>2. j \in Tappable
      BY <2>5, <3>1, OnlyTapsFacts
    <3>3. j = k
      BY <1>1, <1>2, <1>5, <2>5, <3>2
    <3>4. k \in physical /\ IsTap(get_action(k))
      BY <1>2, <1>5, <2>5, <3>3 DEF OnlyTaps
    <3>5. QED  BY <1>1, <2>2, <3>3, <3>4
  <2>6. QED  BY <2>4, <2>5
<1>6. QED  BY <1>4, <1>5, VisitTap

LEMMA TapStep ==
  ASSUME LoopInv, PendingInv, TapArmed, [Next]_vars
  PROVE  PendingInv' /\ TapArmed'
<1> USE DEF PendingInv, TapArmed, KeysOf, OnlyTaps, ActionsOf, Tappable
<1>1. ASSUME NEW c \in Configs, keymap_register_config(c)
      PROVE  PendingInv' /\ TapArmed'
  <2>1. /\ is_tapping' = [is_tapping EXCEPT ![c] = NoKey]
        /\ down' = down \ KeysOf(c) /\ late' = late \ KeysOf(c)
        /\ disturbed' = disturbed \ KeysOf(c) /\ touched' = touched \ KeysOf(c)
        /\ UNCHANGED <<timer, timeout_expired, timed>>
        /\ is_tapping \in [Configs -> Keys \cup {NoKey}]
        /\ Config \in [Keys -> Configs] /\ down \subseteq Keys
    BY <1>1, KeymapAssumption
       DEF keymap_register_config, timeout, LoopInv, TypeInv, TypeOK, StateTypes, HistoryTypes
  <2>2. QED  BY <2>1
<1>2. ASSUME NEW k \in todo, Visit(k)
      PROVE  PendingInv' /\ TapArmed'
  BY <1>2, TapVisit
<1>3. CASE keyscan_debounce
  BY <1>3 DEF keyscan_debounce, keymap_state, call, history
<1>4. CASE TimerElapses
  BY <1>4 DEF TimerElapses, keymap_state, call
<1>5. ASSUME NEW k \in Keys, KeyAges(k)
      PROVE  PendingInv' /\ TapArmed'
  BY <1>5 DEF KeyAges, keymap_state, call, timeout
<1>6. CASE \/ \E c \in Configs, s \in Sources : \E pressed \in SUBSET Scanned(c, s) :
                keymap_update_state(c, s, pressed)
           \/ EndUpdate \/ UNCHANGED vars
  <2>1. UNCHANGED <<is_tapping, timer, timeout_expired, down, timed, late, disturbed, touched>>
    BY <1>6 DEF keymap_update_state, EndUpdate, vars, keymap_state, timeout, history
  <2>2. QED  BY <2>1
<1>7. QED  BY <1>1, <1>2, <1>3, <1>4, <1>5, <1>6 DEF Next

LEMMA TapInvariant == Spec => [](LoopInv /\ PendingInv /\ TapArmed)
<1>1. Init => PendingInv /\ TapArmed
  BY DEF Init, PendingInv, TapArmed
<1>2. LoopInv /\ PendingInv /\ TapArmed /\ [Next]_vars => PendingInv' /\ TapArmed'
  BY TapStep
<1>3. QED  BY <1>1, <1>2, LoopInvariant, PTL DEF Spec

\* A tap is pending only for a key that is down and undisturbed, and measured
\* by the shared timer unless another configuration touched it
\* (keymap.c:199-210, timer.c:104).
THEOREM ArmedCorrect == Spec => []TapArmed
BY TapInvariant, PTL

\* A step that visits a key is the visit of that key.
LEMMA VisitOnly ==
  ASSUME LoopInv, [Next]_vars, NEW k \in todo \ todo'
  PROVE  Visit(k)
<1>1. \A c \in Configs : ~keymap_register_config(c)
  BY DEF keymap_register_config
<1>2. \A c \in Configs, s \in Sources : \A pressed \in SUBSET Scanned(c, s) :
        ~keymap_update_state(c, s, pressed)
  BY DEF keymap_update_state, LoopInv, TypeInv
<1>3. ~(EndUpdate \/ keyscan_debounce \/ TimerElapses \/ (\E j \in Keys : KeyAges(j))
        \/ UNCHANGED vars)
  BY DEF EndUpdate, keyscan_debounce, TimerElapses, KeyAges, vars, call
<1>4. PICK j \in todo : Visit(j)
  BY <1>1, <1>2, <1>3 DEF Next
<1>5. QED  BY <1>4 DEF Visit

\* The tap code of a key is typed only at its release, within the term and
\* undisturbed, and a change in another configuration is all that can have a
\* late release typed (keymap.c:228-239; timer.c:104, 137-142).
THEOREM TapSoundCorrect == Spec => TapSound
<1>1. ASSUME LoopInv, PendingInv, TapArmed, [Next]_vars,
             NEW k \in todo \ todo', report'.tapped # report.tapped
      PROVE  k \in down \ (down' \cup disturbed) /\ (k \in late => k \in touched)
  <2>1. Visit(k) /\ k \in todo
    BY <1>1, VisitOnly
  <2>2. k \in Keys /\ config_id \in Configs /\ k # NoKey
    BY <1>1, <2>1, VisitFacts, KeyFacts
  <2>3. report \in ReportInProgress /\ get_action(k) \in ActionCodes
    BY <1>1, <2>1, VisitReport
  <2>4. report' # Hold(report, get_action(k)) /\ report' # report
    BY <1>1, <2>3, HoldEffect
  <2>5. /\ get_action(k) # KC_TRNS /\ k \notin physical /\ k \in down
        /\ report' = Release(report, get_action(k), k)
    BY <1>1, <2>1, <2>4, VisitReport
  <2>6. StillTapping(k)
    BY <1>1, <2>3, <2>5, ReleaseEffect
  <2>7. Actions[0][k] # KC_TRNS /\ k \notin down'
    BY <1>1, <2>1, <2>5, VisitFacts
  <2>8. is_tapping[config_id] = k /\ timer # "elapsed"
    BY <2>6 DEF StillTapping, HasExpired
  <2>9. QED  BY <1>1, <2>2, <2>5, <2>7, <2>8 DEF TapArmed
<1>2. LoopInv /\ PendingInv /\ TapArmed /\ [Next]_vars =>
        [\A k \in todo \ todo' : report'.tapped # report.tapped =>
           /\ k \in down \ (down' \cup disturbed)
           /\ k \in late => k \in touched]_vars
  BY <1>1
<1>3. QED  BY <1>2, TapInvariant, PTL DEF Spec, TapSound

\* The release of a key that is nothing but a tap, within the term and with
\* nothing else changed since its press, always types its code
\* (keymap.c:199-206, 228-239).
THEOREM TapCompleteCorrect == Spec => TapComplete
<1>1. ASSUME LoopInv, PendingInv, TapArmed, [Next]_vars, NEW k \in todo \ todo',
             k \in down \ (down' \cup disturbed \cup touched \cup late),
             IsTap(Actions[0][k]), \A a \in ActionsOf(k) : IsTap(a)
      PROVE  report'.tapped # NoSlot /\ report'.keys[report'.tapped] = Code(Actions[0][k])
  <2>1. Visit(k) /\ k \in todo
    BY <1>1, VisitOnly
  <2>2. k \in Keys /\ Config[k] = config_id /\ k \notin physical
    BY <1>1, <2>1, VisitFacts
  <2>3. /\ is_tapping[config_id] = k /\ timer = "running" /\ ~timeout_expired
    BY <1>1, <2>2 DEF PendingInv, OnlyTaps
  <2>4. StillTapping(k)
    BY <2>3 DEF StillTapping, HasExpired
  <2>5. get_action(k) = Actions[0][k] /\ get_action(k) # KC_TRNS
    BY <1>1, <2>1, <2>2, VisitFacts, TransparentIsNoTap
  <2>6. /\ report \in ReportInProgress /\ get_action(k) \in ActionCodes
        /\ report' = Release(report, get_action(k), k)
    BY <1>1, <2>1, <2>2, <2>5, VisitReport
  <2>7. /\ report'.tapped = report.index
        /\ \A i \in 0 .. KeySlots - 1 :
             report'.keys[i] = IF i = report.index THEN Code(get_action(k)) ELSE report.keys[i]
    BY <2>4, <2>6, ReleaseEffect
  <2>8. report.index \in 0 .. KeySlots - 1 /\ report.index # NoSlot
    BY <2>6 DEF ReportInProgress, NoSlot
  <2>9. QED  BY <2>5, <2>7, <2>8
<1>2. LoopInv /\ PendingInv /\ TapArmed /\ [Next]_vars =>
        [\A k \in todo \ todo' :
           /\ k \in down \ (down' \cup disturbed \cup touched \cup late)
           /\ IsTap(Actions[0][k]) /\ \A a \in ActionsOf(k) : IsTap(a)
           => /\ report'.tapped # NoSlot
              /\ report'.keys[report'.tapped] = Code(Actions[0][k])]_vars
  BY <1>1
<1>3. QED  BY <1>2, TapInvariant, PTL DEF Spec, TapComplete

-----------------------------------------------------------------------------
(* Held modifiers.                                                         *)

OnlyHolds(k, b) ==
  Actions[0][k] # KC_TRNS /\ \A a \in ActionsOf(k) : Type(a) = 1 /\ b \in Modifiers(a)

\* The release of the mod tap j masks bit b of key k.
Masks(j, k, b) ==
  /\ j > k /\ layout_previous_state[j] # Up
  /\ Type(Actions[0][j]) = 3 /\ b \in Modifiers(Actions[0][j])

\* The loop goes in the order of the keys, and what it has held it keeps.
HoldInv ==
  busy =>
    /\ \A k \in KeysOf(config_id) \ todo : \A j \in todo : k < j
    /\ \A k \in (KeysOf(config_id) \cap physical) \ todo : \A b \in 0 .. 7 :
         OnlyHolds(k, b) =>
           \/ b \in report.modifiers
           \/ \E j \in (KeysOf(config_id) \ physical) \ todo : Masks(j, k, b)

LEMMA HoldVisit ==
  ASSUME LoopInv, HoldInv, NEW k \in todo, Visit(k)
  PROVE  HoldInv'
<1> DEFINE a == get_action(k)
<1>1. /\ k \in Keys /\ k \in KeysOf(config_id) /\ busy /\ todo' = todo \ {k}
      /\ todo \subseteq KeysOf(config_id) /\ KeysOf(config_id) \subseteq Keys
      /\ UNCHANGED <<config_id, physical, layout_previous_state>>
      /\ k \in down => layout_previous_state[k] # Up
      /\ a = KC_TRNS => Actions[0][k] = KC_TRNS
      /\ a # KC_TRNS => a \in ActionsOf(k)
      /\ k \notin physical => a = Actions[0][k]
  BY VisitFacts, KeyFacts DEF LoopInv, TypeInv, TypeOK, CallTypes
<1>2. \A j \in todo : k <= j
  BY DEF Visit
<1>3. Keys \subseteq Int
  BY KeymapAssumption DEF Keys
<1>4. \A j \in KeysOf(config_id) \ todo' : \A i \in todo' : j < i
  BY <1>1, <1>2, <1>3 DEF HoldInv
<1>5. /\ a \in ActionCodes /\ report \in ReportInProgress
      /\ \/ report' = report /\ (a = KC_TRNS \/ (k \notin physical /\ k \notin down))
         \/ k \in physical /\ report' = Hold(report, a)
         \/ k \notin physical /\ k \in down /\ report' = Release(report, a, k)
  BY VisitReport
<1> HIDE DEF a
<1>6. ASSUME NEW i \in (KeysOf(config_id) \cap physical) \ todo', NEW b \in 0 .. 7,
             OnlyHolds(i, b)
      PROVE  \/ b \in report'.modifiers
             \/ \E j \in (KeysOf(config_id) \ physical) \ todo' : Masks(j, i, b)
  <2>1. CASE i = k
    <3>1. report' = Hold(report, a) /\ b \in Modifiers(a)
      BY <1>1, <1>5, <1>6, <2>1 DEF OnlyHolds
    <3>2. QED  BY <1>5, <3>1, HoldEffect
  <2>2. CASE i # k
    <3>1. i \notin todo /\ i < k
      BY <1>1, <1>6, <2>2 DEF HoldInv
    <3>2. \/ b \in report.modifiers
          \/ \E j \in (KeysOf(config_id) \ physical) \ todo : Masks(j, i, b)
      BY <1>1, <1>6, <3>1 DEF HoldInv
    <3>3. CASE b \in report.modifiers /\ b \notin report'.modifiers
      <4>1. k \notin physical /\ k \in down /\ report' = Release(report, a, k)
        BY <1>5, <3>3, HoldEffect
      <4>2. Type(a) = 3 /\ b \in Modifiers(a)
        BY <1>5, <3>3, <4>1, ReleaseEffect
      <4>3. Masks(k, i, b)
        BY <1>1, <1>3, <1>6, <3>1, <4>1, <4>2 DEF Masks
      <4>4. QED  BY <1>1, <4>1, <4>3
    <3>4. QED  BY <1>1, <3>2, <3>3
  <2>3. QED  BY <2>1, <2>2
<1>7. \A i \in (KeysOf(config_id') \cap physical') \ todo' : \A b \in 0 .. 7 :
        OnlyHolds(i, b) =>
          \/ b \in report'.modifiers
          \/ \E j \in (KeysOf(config_id') \ physical') \ todo' :
               /\ j > i /\ layout_previous_state'[j] # Up
               /\ Type(Actions[0][j]) = 3 /\ b \in Modifiers(Actions[0][j])
  BY <1>1, <1>6 DEF Masks
<1>8. \A i \in KeysOf(config_id') \ todo' : \A j \in todo' : i < j
  BY <1>1, <1>4
<1>9. QED  BY <1>7, <1>8 DEF HoldInv, Masks, OnlyHolds, KeysOf, ActionsOf

LEMMA HoldStep ==
  ASSUME LoopInv, HoldInv, [Next]_vars
  PROVE  HoldInv'
<1> USE DEF Masks, OnlyHolds, KeysOf, ActionsOf
<1>1. CASE (\E c \in Configs : keymap_register_config(c)) \/ EndUpdate
  <2>1. busy' = FALSE
    BY <1>1 DEF keymap_register_config, EndUpdate, LoopInv, TypeInv, TypeOK, CallTypes
  <2>2. QED  BY <2>1 DEF HoldInv
<1>2. ASSUME NEW c \in Configs, NEW s \in Sources,
             NEW pressed \in SUBSET Scanned(c, s), keymap_update_state(c, s, pressed)
      PROVE  HoldInv'
  <2>1. CASE c \in registered
    <3>1. todo' = KeysOf(c) /\ config_id' = c
      BY <1>2, <2>1 DEF keymap_update_state
    <3>2. QED  BY <3>1 DEF HoldInv
  <2>2. CASE c \notin registered
    <3>1. todo' = {} /\ config_id' = c /\ physical' = physical
      BY <1>2, <2>2 DEF keymap_update_state, LoopInv, TypeInv
    <3>2. KeysOf(c) \cap physical = {}
      BY <2>2 DEF LoopInv, ScanInv
    <3>3. QED  BY <3>1, <3>2 DEF HoldInv
  <2>3. QED  BY <2>1, <2>2
<1>3. ASSUME NEW k \in todo, Visit(k)
      PROVE  HoldInv'
  BY <1>3, HoldVisit
<1>4. CASE \/ keyscan_debounce \/ TimerElapses \/ (\E k \in Keys : KeyAges(k))
           \/ UNCHANGED vars
  <2>1. UNCHANGED <<report, config_id, physical, busy, todo, layout_previous_state>>
    BY <1>4 DEF keyscan_debounce, TimerElapses, KeyAges, vars, keymap_state, call, history
  <2>2. QED  BY <2>1 DEF HoldInv
<1>5. QED  BY <1>1, <1>2, <1>3, <1>4 DEF Next

LEMMA ReportsModifiers ==
  ASSUME LoopInv, EndUpdate
  PROVE  Report'.modifiers = report.modifiers
<1> DEFINE first == [modifiers |-> report.modifiers, keys |-> report.keys]
           last  == IF report.tapped = NoSlot THEN first
                    ELSE [first EXCEPT !.keys[report.tapped] = 0]
<1>1. reports'[Len(reports')] = last
  BY DEF EndUpdate, Reports
<1>2. last.modifiers = report.modifiers
  OBVIOUS
<1>3. QED  BY <1>1, <1>2 DEF Report

\* A held modifier is in the report whatever else happens, unless the release
\* of a mod tap of the same bit is visited later (keymap.c:176-180, 224).
THEOREM ModifiersCorrect == Spec => ModifiersKept
<1>1. ASSUME LoopInv, HoldInv, EndUpdate,
             NEW k \in KeysOf(config_id) \cap physical, NEW b \in 0 .. 7, OnlyHolds(k, b)
      PROVE  \/ b \in Report'.modifiers
             \/ \E j \in KeysOf(config_id) \ physical : Masks(j, k, b)
  <2>1. busy /\ todo = {}
    BY <1>1 DEF EndUpdate
  <2>2. QED  BY <1>1, <2>1, ReportsModifiers DEF HoldInv
<1>2. LoopInv /\ HoldInv /\ [Next]_vars =>
        [EndUpdate =>
           \A k \in KeysOf(config_id) \cap physical : \A b \in 0 .. 7 :
             /\ Actions[0][k] # KC_TRNS
             /\ \A a \in ActionsOf(k) : Type(a) = 1 /\ b \in Modifiers(a)
             =>
               \/ b \in Report'.modifiers
               \/ \E j \in KeysOf(config_id) \ physical :
                    /\ j > k /\ layout_previous_state[j] # Up
                    /\ Type(Actions[0][j]) = 3 /\ b \in Modifiers(Actions[0][j])]_vars
  BY <1>1 DEF OnlyHolds, Masks
<1>3. Init => HoldInv
  BY DEF Init, HoldInv
<1>4. LoopInv /\ HoldInv /\ [Next]_vars => HoldInv'
  BY HoldStep
<1>5. QED  BY <1>2, <1>3, <1>4, LoopInvariant, PTL DEF Spec, ModifiersKept
=============================================================================
