---------------------------- MODULE WiredKeyboard ----------------------------
(***************************************************************************)
(* The wired keyboard (src/examples/keymap_hid.c): the key scanner calls   *)
(* the keymap, which sends its reports through the USB driver, all in the  *)
(* GPIOTE handler; the host polls the endpoint.                            *)
(*                                                                         *)
(* The scanner is Keyscan, the keymap an instance of Keymap and the driver *)
(* one of ReportPort, which Usbd implements: the reports are sent from     *)
(* handler mode, so no interrupt runs meanwhile.                           *)
(***************************************************************************)
EXTENDS Keyscan

CONSTANTS
  KeyCount,   \* rows_len * cols_len of the only configuration
  Source,     \* [keys -> the matrix the key is wired to]
  Bit,        \* [keys -> the key's place in that matrix]
  LayersLen,
  Actions     \* [layers -> [keys -> actions]]

VARIABLES
  registered, active_layers, is_tapping, layout_state, layout_previous_state,
  timer, timeout_expired, config_id, busy, todo, report, reports,
  physical, down, timed, late, disturbed, touched,      \* Keymap
  ready, sender,                                        \* ReportPort
  unsent,     \* the reports of the last update that are still to be sent
  endpoint,   \* the report the host will read from endpoint 1, if there is one
  host,       \* the report the host last read
  stale       \* since the last report that was copied to the endpoint one was
              \* refused, or the host forgot what it had read

keymapVars == <<registered, active_layers, is_tapping, layout_state,
                layout_previous_state, timer, timeout_expired, config_id, busy,
                todo, report, reports, physical, down, timed, late, disturbed, touched>>
portVars   == <<ready, sender>>
usbVars    == <<unsent, endpoint, host, stale>>
wiredVars  == <<vars, keymapVars, portVars, usbVars>>

\* Keymap, from the module that also has its theorems.
Map  == INSTANCE KeymapProofs WITH Configs <- {0}, Config <- [k \in 1 .. KeyCount |-> 0],
                                   Sources <- Matrices, KeySlots <- 5
Port == INSTANCE ReportPort WITH Preempted <- FALSE

ASSUME LayoutAssumption ==
  /\ KeyCount \in Nat
  /\ Source \in [1 .. KeyCount -> Matrices]
  /\ \A k \in 1 .. KeyCount : Bit[k] \in DOMAIN Direct[Source[k]]

ASSUME ActionsAssumption ==
  /\ LayersLen \in 1 .. 15
  /\ \A l \in 0 .. LayersLen - 1, k \in 1 .. KeyCount :
       /\ Actions[l][k] \in Map!ActionCodes
       /\ Map!IsLayerTap(Actions[l][k]) => Map!Field(Actions[l][k]) \in 0 .. LayersLen - 1

WiredInit ==
  /\ Init /\ Map!Init /\ Port!Init
  /\ unsent = <<>> /\ endpoint = <<>> /\ host = Map!EmptyReport /\ stale = FALSE

-----------------------------------------------------------------------------
(* The GPIOTE handler: KEYSCAN_EventHandler runs to its end, with all      *)
(* reports sent, before the scan goes on.                                  *)

Calling == busy \/ unsent # <<>>
HandlerIdle == isr.at = "idle" /\ ~Calling

\* The last step of a scan that found a change.
Changed == isr.at = "read" /\ isr.i > direct_len[isr.m] /\ MatrixChanged(isr.m)

ScanStep ==
  /\ ~Calling /\ ~Changed
  /\ GPIOTE_IRQHandler
  /\ UNCHANGED <<keymapVars, portVars, usbVars>>

keyscan_debounce ==
  /\ ~Calling /\ Changed
  /\ Map!keyscan_debounce
  /\ UNCHANGED <<vars, portVars, usbVars>>

KeysPressed(m) == {k \in 1 .. KeyCount : Source[k] = m /\ Bit[k] \in matrix[m]}

KEYSCAN_EventHandler ==
  /\ ~Calling /\ Changed
  /\ ~timeout_expired                        \* after keyscan_debounce
  /\ EndScan
  /\ Map!keymap_update_state(0, isr.m, KeysPressed(isr.m))
  /\ UNCHANGED <<portVars, usbVars>>

VisitKeys ==
  /\ \E k \in todo : Map!Visit(k)
  /\ UNCHANGED <<vars, portVars, usbVars>>

\* KEYMAP_ReportHandler is called once, or twice with 10 ms between.
KEYMAP_ReportHandler ==
  /\ Map!EndUpdate
  /\ unsent' = reports'
  /\ UNCHANGED <<vars, portVars, endpoint, host, stale>>

Refuse ==
  /\ unsent # <<>> /\ ~ready
  /\ unsent' = Tail(unsent)
  /\ stale' = TRUE
  /\ UNCHANGED <<vars, keymapVars, portVars, endpoint, host>>

Transfer ==
  /\ unsent # <<>>
  /\ Port!Begin \/ Port!Start \/ Port!Fail
  /\ UNCHANGED <<vars, keymapVars, usbVars>>

\* A report the host has not read yet is overwritten (external).
ReportCopied ==
  /\ Port!Copy
  /\ endpoint' = <<Head(unsent)>>
  /\ stale' = FALSE
  /\ UNCHANGED <<vars, keymapVars, unsent, host>>

ReportSent ==
  /\ Port!Return
  /\ unsent' = Tail(unsent)
  /\ UNCHANGED <<vars, keymapVars, endpoint, host, stale>>

Handler == \/ ScanStep \/ keyscan_debounce \/ KEYSCAN_EventHandler \/ VisitKeys
           \/ KEYMAP_ReportHandler \/ Refuse \/ Transfer \/ ReportCopied \/ ReportSent

-----------------------------------------------------------------------------
(* The main thread.                                                        *)

Boot ==
  /\ HandlerIdle /\ init_keyscan_direct
  /\ UNCHANGED <<keymapVars, portVars, usbVars>>

keymap_register_config ==
  /\ HandlerIdle /\ Thread("done") /\ registered = {}
  /\ Map!keymap_register_config(0)
  /\ UNCHANGED <<vars, portVars, usbVars>>

example_keymap_hid == Boot \/ keymap_register_config

-----------------------------------------------------------------------------
(* Around the keyboard (external).                                         *)

SwitchMoves ==
  /\ \E pin \in Pins : Switch(pin)
  /\ UNCHANGED <<keymapVars, portVars, usbVars>>

\* TAPPING_TERM_MS pass; nothing else here depends on time.
TimerElapses ==
  /\ Map!TimerElapses
  /\ UNCHANGED <<vars, portVars, usbVars>>

DeviceComesUp ==
  /\ HandlerIdle /\ Port!GoUp
  /\ UNCHANGED <<vars, keymapVars, usbVars>>

\* A host that loses the device, or resets it, forgets its keys.
HostForgets ==
  /\ host' = Map!EmptyReport /\ endpoint' = <<>>
  /\ stale' = TRUE
  /\ UNCHANGED <<vars, keymapVars, unsent>>

DeviceGoesDown == HandlerIdle /\ Port!GoDown /\ HostForgets
HostResets     == ready /\ HostForgets /\ UNCHANGED portVars

HostPolls ==
  /\ endpoint # <<>>
  /\ host' = Head(endpoint) /\ endpoint' = <<>>
  /\ UNCHANGED <<vars, keymapVars, portVars, unsent, stale>>

WiredNext ==
  \/ Handler
  \/ example_keymap_hid
  \/ SwitchMoves \/ TimerElapses
  \/ DeviceComesUp \/ DeviceGoesDown \/ HostResets \/ HostPolls

WiredSpec == WiredInit /\ [][WiredNext]_wiredVars

\* As in Keyscan; in addition the host polls.
WiredFairSpec ==
  WiredSpec /\ WF_wiredVars(Handler) /\ WF_wiredVars(example_keymap_hid)
            /\ WF_wiredVars(HostPolls)

-----------------------------------------------------------------------------
(* Properties                                                              *)

Shows(k) == \E code \in Map!Typed(host) : Map!CanType(k, code)
PinOf(k) == Direct[Source[k]][Bit[k]]

\* No stuck key: once the handler is done and its last report was read, the
\* host shows only codes of keys whose switches were reported as closed, and
\* so it does after any loss of the device (keymap_hid.c:73-81).
HostSound ==
  HandlerIdle /\ endpoint = <<>> =>
    \A code \in Map!Typed(host) : \E k \in 1 .. KeyCount :
      PinOf(k) \in Reported /\ Map!CanType(k, code)

KeysReported == {k \in 1 .. KeyCount : Bit[k] \in delivered[Source[k]]}

\* Held keys of which each action types something, the one on layer 0 included.
Certain(k) == /\ Actions[0][k] # Map!KC_TRNS
              /\ \A a \in Map!ActionsOf(k) : Map!IsTyping(a) /\ Map!Code(a) # 0

\* No switch moved at a bad moment, the keymap was told of all scans and no
\* report was lost.
Undisturbed == hasty = {} /\ physical = KeysReported /\ ~stale

\* With nothing left to be done, the host shows the keys whose switches are
\* closed, and no others.
HostAgrees ==
  Undisturbed /\ HandlerIdle /\ ~event /\ endpoint = <<>> =>
    /\ \A code \in Map!Typed(host) : \E k \in 1 .. KeyCount :
         PinOf(k) \in pressed /\ Map!CanType(k, code)
    /\ Cardinality(KeysReported) < 5 =>
         \A k \in 1 .. KeyCount : PinOf(k) \in pressed /\ Certain(k) => Shows(k)

\* A key that types on all layers: the host follows its switch, unless a
\* switch moved at a bad moment or before the keymap was registered, the host
\* lost the last report, or the transfer hangs.
Plain(k) == \A a \in Map!ActionsOf(k) : Map!IsTyping(a)
HostFollows ==
  \A k \in 1 .. KeyCount : Plain(k) =>
    ((PinOf(k) \in pressed) # Shows(k)) ~>
      \/ (PinOf(k) \in pressed) = Shows(k)
      \/ hasty # {} \/ physical # KeysReported \/ stale \/ sender = "stuck"
=============================================================================
