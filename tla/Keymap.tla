------------------------------- MODULE Keymap -------------------------------
(***************************************************************************)
(* The keymap (src/keymap.c): scans of the physical switches go in, USB    *)
(* keyboard reports come out.  Several configurations (configs[8]) may be  *)
(* registered; they have states of their own and share timer_id_keymap.    *)
(* keymap_update_state is called from handler mode, so nothing interrupts  *)
(* it; its loop over the keys is a step per key, because time passes.      *)
(*                                                                         *)
(* A key is its place in the row-major order of its configuration's        *)
(* layout, the order in which keymap_update_state visits the keys.  An     *)
(* action is its 16 bit code.                                              *)
(***************************************************************************)
EXTENDS Integers, Sequences, FiniteSets

CONSTANTS
  Configs,     \* the configuration ids in use
  KeyCount,    \* the keys of all configurations: rows_len * cols_len each
  Config,      \* [keys -> the configuration the key is in]
  Sources,     \* the devices and matrices that are scanned
  Source,      \* [keys -> the device and matrix the key is wired to]
  LayersLen,   \* layers_len, the longest; shorter keymaps end in KC_TRNS
  Actions,     \* [layers -> [keys -> actions]]
  KeySlots     \* length of hid_report_keyboard_t.keys: 5 in usb_hid.h

Keys   == 1 .. KeyCount
KeysOf(c) == {k \in Keys : Config[k] = c}
Layers == 0 .. LayersLen - 1
Up     == -1     \* the value of layout_state whose pressed bit is 0
NoKey  == 0      \* the value of is_tapping whose valid bit is 0
NoSlot == -1     \* tapped_key_index while has_tapped is false

-----------------------------------------------------------------------------
(* The 16 bit action codes (keymap.h:36-54, 112-130).                      *)

ActionCodes == 0 .. 256 * 256 - 1     \* uint16_t

KC_TRNS == 0
MOD(bits)         == 1 * 4096 + bits
LT(layer, code)   == 2 * 4096 + (layer % 16) * 256 + (code % 256)
MT(mods, code)    == 3 * 4096 + (mods % 16) * 256 + (code % 256)
M(mods, code)     == 4 * 4096 + (mods % 16) * 256 + (code % 256)

Type(action)  == (action \div 4096) % 16
Field(action) == (action \div 256) % 16     \* a layer, or modifiers
Code(action)  == action % 256               \* a HID usage, or modifiers

Bits(n) == {b \in 0 .. 7 : (n \div (2 ^ b)) % 2 = 1}

\* What an action holds down, as bits of the report's modifiers byte.
Modifiers(action) == IF Type(action) = 1 THEN Bits(Code(action))
                     ELSE IF Type(action) \in {3, 4} THEN Bits(Field(action))
                     ELSE {}

IsTap(action)      == Type(action) \in {2, 3}
IsTyping(action)   == Type(action) \in {0, 4}
IsLayerTap(action) == Type(action) = 2

ASSUME KeymapAssumption ==
  /\ Configs # {} /\ KeyCount \in Nat /\ KeySlots \in Nat \ {0}
  /\ Config \in [Keys -> Configs] /\ Source \in [Keys -> Sources]
  /\ LayersLen \in 1 .. 15
  /\ \A l \in Layers, k \in Keys :
       /\ Actions[l][k] \in ActionCodes
       /\ IsLayerTap(Actions[l][k]) => Field(Actions[l][k]) \in Layers

VARIABLES
  registered,     \* the configurations whose rows_len is set
  active_layers,  \* keymap_state_t.active_layers, as a set
  is_tapping,     \* keymap_state_t.is_tapping: the key, or NoKey
  layout_state,   \* keymap_state_t.layout_state: layer of the press, or Up
  layout_previous_state,    \* read only within a call, and cleared after it
  timer,          \* timer_id_keymap: "running", "elapsed" (COMPARE), "stopped"
  timeout_expired,
  config_id,      \* argument of the current or the last keymap_update_state
  busy,           \* keymap_update_state is running
  todo,           \* the keys its loop has still to visit
  report,         \* the report under construction and its indices
  reports,        \* what the update passed to KEYMAP_ReportHandler
  physical,       \* the keys the last scans show as pressed
  down,           \* the same, as far as the loop has come
  timed,          \* the key for which the timer was last started
  late,           \* tap keys that are down for longer than TAPPING_TERM_MS
  disturbed,      \* ... that saw a change of another key of their configuration
  touched         \* ... that saw a change in another configuration

keymap_state   == <<active_layers, is_tapping, layout_state, layout_previous_state>>
timeout        == <<timer, timeout_expired>>
call           == <<config_id, busy, todo, report, reports>>
history        == <<physical, down, timed, late, disturbed, touched>>
vars == <<registered, keymap_state, timeout, call, history>>

EmptyReport == [modifiers |-> {}, keys |-> [i \in 0 .. KeySlots - 1 |-> 0]]
NewReport   == [modifiers |-> {}, keys |-> EmptyReport.keys, index |-> 0, tapped |-> NoSlot]

Init ==
  /\ registered = {}
  /\ active_layers = [c \in Configs |-> {0}]
  /\ is_tapping = [c \in Configs |-> NoKey]
  /\ layout_state = [k \in Keys |-> Up]
  /\ layout_previous_state = [k \in Keys |-> Up]
  /\ timer = "stopped" /\ timeout_expired = FALSE
  /\ config_id \in Configs /\ busy = FALSE /\ todo = {}
  /\ report = NewReport /\ reports = <<>>
  /\ physical = {} /\ down = {} /\ timed = NoKey
  /\ late = {} /\ disturbed = {} /\ touched = {}

-----------------------------------------------------------------------------
(* get_top_layer and get_action: both go down from a layer to the first    *)
(* active one that has an action for the key; layer 0 always ends the      *)
(* search.  get_top_layer starts at layers_len, one above the last layer;  *)
(* the assumption on Actions keeps that bit of active_layers clear.        *)

Highest(S) == CHOOSE l \in S : \A m \in S : m <= l

Search(start, k) ==
  Highest({l \in 0 .. start :
             l = 0 \/ (l \in active_layers[Config[k]] /\ Actions[l][k] # KC_TRNS)})

get_action(k) ==
  Actions[Search(IF layout_state[k] = Up THEN 0 ELSE layout_state[k], k)][k]

-----------------------------------------------------------------------------
(* Faulty variants of definitions below, one plausible slip each.  No      *)
(* behaviour uses them: each is put in the place of the definition it is   *)
(* named after to see that a property notices.                             *)

ReportsFaulty == <<[modifiers |-> report.modifiers, keys |-> report.keys]>>
AddKeyFaulty(r, code) == [r EXCEPT !.keys[r.index] = code]    \* always slot 0
AddKeyOverrun(r, code) == [r EXCEPT !.keys[r.index] = code, !.index = @ + 1]
LayersAfterFaulty(layers, a, is, was) ==     \* a release keeps the layer
  IF IsLayerTap(a) /\ is THEN layers \cup {Field(a)} ELSE layers
AddModifiersFaulty(r, a) == [r EXCEPT !.modifiers = Modifiers(a)]   \* `=` for `|=`
StillTappingFaulty(k) == timer = "running" /\ ~timeout_expired   \* any key's release
StillTappingExpired(k) == is_tapping[config_id] = k /\ timer = "elapsed"
StartTimerFaulty ==                          \* the flag is not reset
  timer' = "running" /\ UNCHANGED timeout_expired

-----------------------------------------------------------------------------
(* keymap_register_config, for a configuration new or old; the shared      *)
(* timer is left alone.  Keys that are held are seen as new presses.       *)

keymap_register_config(c) ==
  /\ ~busy
  /\ registered' = registered \cup {c}
  /\ active_layers' = [active_layers EXCEPT ![c] = {0}]
  /\ is_tapping' = [is_tapping EXCEPT ![c] = NoKey]
  /\ layout_state' = [k \in Keys |-> IF k \in KeysOf(c) THEN Up ELSE layout_state[k]]
  /\ physical' = physical \ KeysOf(c)
  /\ down' = down \ KeysOf(c)
  /\ late' = late \ KeysOf(c)
  /\ disturbed' = disturbed \ KeysOf(c)
  /\ touched' = touched \ KeysOf(c)
  /\ reports' = <<>>
  /\ UNCHANGED <<layout_previous_state, timeout, config_id, busy, todo, report, timed>>

-----------------------------------------------------------------------------
(* timer_start_timeout, timer_stop_timeout and timer_has_timeout_expired   *)
(* for timer_id_keymap.  timeout_expired is one flag for all timers.       *)

StartTimer == timer' = "running" /\ timeout_expired' = FALSE
StopTimer  == timer' = "stopped" /\ timeout_expired' = TRUE
HasExpired == timeout_expired \/ timer = "elapsed"

-----------------------------------------------------------------------------
(* keymap_update_state up to the loop that computes the actions.           *)

get_top_layer(k) == Search(LayersLen - 1, k)

\* The logical state of the layout after a scan of one matrix.
Logical(c, source, pressed) ==
  [k \in Keys |->
     IF Config[k] # c \/ Source[k] # source THEN layout_state[k]
     ELSE IF k \notin pressed THEN Up
     ELSE IF layout_state[k] = Up THEN get_top_layer(k)
     ELSE layout_state[k]]

\* The keys of configuration c that a scan of this source tells about.
Scanned(c, source) == {k \in KeysOf(c) : Source[k] = source}

\* An unregistered configuration has no rows: nothing is updated or visited.
keymap_update_state(c, source, pressed) ==
  /\ ~busy
  /\ config_id' = c
  /\ busy' = TRUE
  /\ report' = NewReport
  /\ reports' = <<>>
  /\ IF c \in registered
     THEN /\ layout_previous_state' = layout_state
          /\ layout_state' = Logical(c, source, pressed)
          /\ todo' = KeysOf(c)
          /\ physical' = (physical \ Scanned(c, source)) \cup pressed
     ELSE UNCHANGED <<layout_previous_state, layout_state, todo, physical>>
  /\ UNCHANGED <<registered, active_layers, is_tapping, timeout,
                 down, timed, late, disturbed, touched>>

-----------------------------------------------------------------------------
(* One visit of the loop over the keys: what is held, then what a press or *)
(* a release changes.                                                      *)

AddKey(r, code) == [r EXCEPT !.keys[r.index] = code, !.index = (@ + 1) % KeySlots]
AddModifiers(r, a) == [r EXCEPT !.modifiers = @ \cup Modifiers(a)]

Hold(r, a) == IF IsTyping(a) THEN AddKey(AddModifiers(r, a), Code(a))
              ELSE AddModifiers(r, a)

Undo(r, a) == [r EXCEPT !.modifiers = IF Type(a) = 3 THEN @ \ Modifiers(a) ELSE @]

StillTapping(k) == is_tapping[config_id] = k /\ ~HasExpired

Release(r, a, k) ==
  IF StillTapping(k)
  THEN [AddKey(Undo(r, a), Code(a)) EXCEPT !.tapped = r.index]
  ELSE Undo(r, a)

LayersAfter(layers, a, is, was) ==
  IF ~IsLayerTap(a) THEN layers
  ELSE IF is THEN layers \cup {Field(a)}
  ELSE IF was THEN layers \ {Field(a)} ELSE layers

\* A press arms the tap and its timer, or disarms them; a release disarms.
Arm(a, k, is) ==
  IF is /\ IsTap(a)
  THEN /\ is_tapping' = [is_tapping EXCEPT ![config_id] = k]
       /\ StartTimer
       /\ timed' = k
  ELSE /\ is_tapping' = [is_tapping EXCEPT ![config_id] = NoKey]
       /\ StopTimer
       /\ timed' = NoKey

\* The bookkeeping of a visit: a change of k that has an action disturbs the
\* other keys of its configuration that are down and touches the others.
Tappable == {k \in Keys : \E l \in Layers : IsTap(Actions[l][k])}
Observe(k, is, change) ==
  /\ down' = IF is THEN down \cup {k} ELSE down \ {k}
  /\ late' = late \cap down'
  /\ disturbed' = IF change THEN (disturbed \cup (down \cap Tappable \cap KeysOf(Config[k]))) \ {k}
                  ELSE disturbed \cap down'
  /\ touched' = IF change THEN (touched \cup ((down \cap Tappable) \ KeysOf(Config[k]))) \ {k}
                ELSE touched \cap down'

Visit(k) ==
  LET a   == get_action(k)
      was == layout_previous_state[k] # Up
      is  == layout_state[k] # Up
  IN /\ \A j \in todo : k <= j
     /\ todo' = todo \ {k}
     /\ IF a = KC_TRNS
        THEN UNCHANGED <<report, active_layers, is_tapping, timeout, timed>>
        ELSE /\ report' = IF is THEN Hold(report, a)
                          ELSE IF was THEN Release(report, a, k) ELSE report
             /\ active_layers' =
                  [active_layers EXCEPT ![config_id] = LayersAfter(@, a, is, was)]
             /\ IF is # was THEN Arm(a, k, is) ELSE UNCHANGED <<is_tapping, timeout, timed>>
     /\ Observe(k, is, is # was /\ a # KC_TRNS)
     /\ UNCHANGED <<registered, layout_state, layout_previous_state, config_id,
                    busy, reports, physical>>

\* One report, or two when a key was tapped: the second releases its slot.
Reports ==
  LET first == [modifiers |-> report.modifiers, keys |-> report.keys]
  IN IF report.tapped = NoSlot THEN <<first>>
     ELSE <<first, [first EXCEPT !.keys[report.tapped] = 0]>>

EndUpdate ==
  /\ busy /\ todo = {}
  /\ busy' = FALSE
  /\ reports' = Reports
  /\ report' = NewReport
  /\ layout_previous_state' = [k \in Keys |-> Up]
  /\ UNCHANGED <<registered, active_layers, is_tapping, layout_state, timeout,
                 config_id, todo, history>>

-----------------------------------------------------------------------------
(* Around the keymap.                                                      *)

\* keyscan_debounce (keyscan.c:104-115) restarts timer_id_keyscan for every
\* change the local scanner sees, and with it the flag of all timers.
keyscan_debounce ==
  /\ ~busy /\ timeout_expired
  /\ timeout_expired' = FALSE
  /\ UNCHANGED <<registered, keymap_state, timer, call, history>>

\* TAPPING_TERM_MS pass since the timer was started, or since the press of a
\* key that the timer does not measure (external).
TimerElapses ==
  /\ timer = "running"
  /\ timer' = "elapsed"
  /\ late' = late \cup ({timed} \cap down)
  /\ UNCHANGED <<registered, keymap_state, timeout_expired, call,
                 physical, down, timed, disturbed, touched>>

KeyAges(k) ==
  /\ k \in (down \cap Tappable) \ late
  /\ timer = "running" => k # timed
  /\ late' = late \cup {k}
  /\ UNCHANGED <<registered, keymap_state, timeout, call,
                 physical, down, timed, disturbed, touched>>

Next ==
  \/ \E c \in Configs : keymap_register_config(c)
  \/ \E c \in Configs, s \in Sources : \E pressed \in SUBSET Scanned(c, s) :
       keymap_update_state(c, s, pressed)
  \/ \E k \in todo : Visit(k)
  \/ EndUpdate
  \/ keyscan_debounce
  \/ TimerElapses
  \/ \E k \in Keys : KeyAges(k)

Spec == Init /\ [][Next]_vars

-----------------------------------------------------------------------------
(* Properties                                                              *)

ReportType == [modifiers : SUBSET (0 .. 7), keys : [0 .. KeySlots - 1 -> 0 .. 255]]

StateTypes ==
  /\ registered \subseteq Configs
  /\ active_layers \in [Configs -> SUBSET Layers]
  /\ is_tapping \in [Configs -> Keys \cup {NoKey}]
  /\ layout_state \in [Keys -> Layers \cup {Up}]
  /\ layout_previous_state \in [Keys -> Layers \cup {Up}]
  /\ timer \in {"running", "elapsed", "stopped"}
  /\ timeout_expired \in BOOLEAN

ReportInProgress ==
  [modifiers : SUBSET (0 .. 7), keys : [0 .. KeySlots - 1 -> 0 .. 255],
   index : 0 .. KeySlots - 1, tapped : {NoSlot} \cup 0 .. KeySlots - 1]

CallTypes ==
  /\ config_id \in Configs /\ busy \in BOOLEAN
  /\ todo \subseteq KeysOf(config_id)
  /\ report \in ReportInProgress
  /\ reports \in Seq(ReportType) /\ Len(reports) <= 2

HistoryTypes ==
  /\ physical \subseteq Keys /\ down \subseteq Keys
  /\ timed \in Keys \cup {NoKey}
  /\ late \subseteq down \cap Tappable
  /\ disturbed \subseteq down \cap Tappable
  /\ touched \subseteq down \cap Tappable

TypeOK == StateTypes /\ CallTypes /\ HistoryTypes

\* The switches as far as the keymap knows them.
Seen == IF busy THEN down ELSE physical

Report == reports[Len(reports)]       \* what the host goes on seeing
Typed(r) == {r.keys[i] : i \in DOMAIN r.keys} \ {0}
\* The actions a key can have while it is held.
ActionsOf(k) == {Actions[l][k] : l \in Layers} \ {KC_TRNS}

CanType(k, code) == \E a \in ActionsOf(k) : IsTyping(a) /\ Code(a) = code
CanHold(k, bit)  == \E a \in ActionsOf(k) : bit \in Modifiers(a)

\* A layer tap above layer 0 of a key that is not the same tap on layer 0:
\* get_action never finds it at the release, which looks on layer 0.
Sticky(c, l) ==
  \E k \in KeysOf(c) : \E a \in ActionsOf(k) :
    /\ IsLayerTap(a) /\ Field(a) = l
    /\ ~(IsLayerTap(Actions[0][k]) /\ Field(Actions[0][k]) = l)

\* A layer stays active only while a key that activates it is held: no
\* sequence of presses, releases and registrations leaves a layer stuck
\* ("On release - Deactivate layer", keymap.c:95-98), layers with a sticky
\* tap excepted.
LayersHeld ==
  \A c \in Configs : \A l \in active_layers[c] \ {0} :
    \/ Sticky(c, l)
    \/ \E k \in KeysOf(c) \cap Seen :
         IsLayerTap(Actions[0][k]) /\ Field(Actions[0][k]) = l

\* The report the host is left with shows nothing that no held key can mean:
\* no stuck key, no stuck modifier, an empty report once all keys are up, a
\* tap always followed by its release (keymap.c:225-239, 247-253).
ReportSound ==
  reports # <<>> =>
    /\ \A code \in Typed(Report) : \E k \in KeysOf(config_id) \cap physical : CanType(k, code)
    /\ \A b \in Report.modifiers : \E k \in KeysOf(config_id) \cap physical : CanHold(k, b)

\* ... and, while fewer keys are held than the report has slots, it shows
\* every held key that types on each layer, layer 0 included.  With all slots
\* taken a tap may overwrite a held key (keymap.c:172-173, 235-238).
ReportComplete ==
  reports # <<>> /\ Cardinality(KeysOf(config_id) \cap physical) < KeySlots =>
    \A k \in KeysOf(config_id) \cap physical :
      Actions[0][k] # KC_TRNS /\ (\A a \in ActionsOf(k) : IsTyping(a) /\ Code(a) # 0) =>
        \E code \in Typed(Report) : CanType(k, code)

\* A held modifier is in the report whatever else happens; only the release
\* of a mod tap with the same bit, visited later, masks it (keymap.c:224).
ModifiersKept ==
  [][EndUpdate =>
       \A k \in KeysOf(config_id) \cap physical : \A b \in 0 .. 7 :
         /\ Actions[0][k] # KC_TRNS
         /\ \A a \in ActionsOf(k) : Type(a) = 1 /\ b \in Modifiers(a)
         =>
           \/ b \in Report'.modifiers
           \/ \E j \in KeysOf(config_id) \ physical :
                /\ j > k /\ layout_previous_state[j] # Up
                /\ Type(Actions[0][j]) = 3 /\ b \in Modifiers(Actions[0][j])]_vars

\* A tap is pending only for a key that is down and that no other key of its
\* configuration has disturbed, and unless another configuration touched it
\* the shared timer measures that key's press (keymap.c:199-210, timer.c:104).
\* A key without an action on layer 0 is left out: its release is ignored.
TapArmed ==
  \A c \in Configs : LET k == is_tapping[c] IN
    k # NoKey /\ Actions[0][k] # KC_TRNS =>
      /\ k \in down \ disturbed
      /\ \/ k \in touched
         \/ k \in late /\ timer = "elapsed"
         \/ k \notin late /\ timer = "running" /\ timed = k /\ ~timeout_expired

\* The tap code of a key is only typed when no other key of its configuration
\* changed since its press, and within the tapping term: only a change in
\* another configuration can stop the timer and have a late release typed
\* (keymap.c:99-100, 228-239; timer.c:104, 137-142).
TapSound ==
  [][\A k \in todo \ todo' : report'.tapped # report.tapped =>
       /\ k \in down \ (down' \cup disturbed)
       /\ k \in late => k \in touched]_vars

\* ... and the release of a key that is nothing but a tap, within the term and
\* with nothing else changed since its press, always types its code.
TapComplete ==
  [][\A k \in todo \ todo' :
       /\ k \in down \ (down' \cup disturbed \cup touched \cup late)
       /\ IsTap(Actions[0][k]) /\ \A a \in ActionsOf(k) : IsTap(a)
       => /\ report'.tapped # NoSlot
          /\ report'.keys[report'.tapped] = Code(Actions[0][k])]_vars

\* "otherwise keep the layer/keypress information from the previous state"
\* (keymap.c:137-138): what a held key means does not change while it is held.
HeldActionKept ==
  [][\A k \in physical \cap physical' : get_action(k)' = get_action(k)]_vars
=============================================================================
