# cob_firmware: models and proofs

TLA+ modules for the firmware of this repository, the TLC configurations that
model-check them and the theorems about them that TLAPS proves.  The firmware
runs on an nRF52840: a keyboard scans switches and either is a USB keyboard
itself or sends the switches by radio to a dongle that is one.  It has no
operating system.  What runs concurrently is a main loop, interrupt handlers
that preempt it, peripherals that work on their own, and what is outside: a
cable, a host, a radio channel, fingers.

Every definition was translated from the C source; `PROJECT.json` maps each to
its lines.  There, paths start with `src/`, the checkout; here and in the
modules they are relative to the repository (`src/drivers/usbd.c`).  What is
not in the repository (peripherals, host, medium, switches) is modelled from how
the code uses it and is marked external.

## 1. Inventory

### Components

| Component | State it keeps | Operations | Module |
|---|---|---|---|
| USB device driver, `drivers/usbd.c` | `usbd_state` (three readiness flags, `transfer_in_progress`, `configuration`), the data stage under way, the peripheral's registers | `POWER_CLOCK_IRQHandler`, `USBD_IRQHandler`, `usbd_pullup`, `usbd_epin0_transfer`, `usbd_epin_start` | `Usbd`; what it promises to senders: `ReportPort` |
| HID senders, `protocol/usb_hid.c` | the two report structures | `hid_send_report`, `hid_send_kb_report`, the report descriptor | `Dongle`, `WiredKeyboard`, `UsbDescriptors` |
| Descriptors, `protocol/usb_descriptors.c` | constant descriptors, one static buffer for all strings | the callbacks, `USBD_Reset_Handler` | `UsbDescriptors`, `UsbEnumeration`, `Usbd` (reset) |
| Keymap, `keymap.c` | per configuration: active layers, the key being tapped, the layer of each pressed key | `keymap_register_config`, `keymap_update_state` and its helpers | `Keymap` |
| Key scanner, `keyscan.c` | configurations, current and previous matrices | `init_keyscan_direct`, `GPIOTE_PortEventHandler` | `Keyscan` |
| GPIOTE driver, `drivers/gpiote.c` | the port event and its interrupt enable | enable, disable, `GPIOTE_IRQHandler` | `Keyscan` |
| ARQ protocol, `protocol/radio_arq.c` | `radio_arq_busy`, the locals of a call | `radio_arq_send`, `radio_arq_receive` | `RadioArq`, `RadioLink` |
| Radio driver, `drivers/radio.c` | `radio_busy`, packet buffers, END event | `radio_send`, `radio_receive_timeout` | `RadioArq` |
| Timers, `drivers/timer.c` | a compare event per timer, `timeout_expired` for all of them | timeouts, sleeps | `RadioArq`, `Keymap` |
| Wired keyboard, `examples/keymap_hid.c` | none of its own | boot, and the handlers the components call | `WiredKeyboard` |
| Radio keyboard and dongle, `examples/radio_arq_hid.c` | none of its own | main loop, and the handlers the components call | `RadioArq` (radio), `Dongle` (USB) |
| LEDs, probe, GPIO, clock, RTC, core, power, start-up code, other examples | registers only | single register writes | not modelled |

### Interaction

- *Wired keyboard* (`examples/keymap_hid.c`).  A switch makes the port's DETECT
  signal rise; the GPIOTE handler scans all matrices and calls
  `keymap_update_state` for each that changed, which calls `hid_send_kb_report`
  once or twice, which polls for the end of the transfer.  All of it runs inside
  the GPIOTE handler, so `Usbd` calls this the context `"isr"`.
- *Radio keyboard and dongle* (`examples/radio_arq_hid.c`).  The GPIOTE handler
  of either board calls `radio_arq_send`, which transmits and polls for the
  answer with timeouts.  The dongle's main loop calls `radio_arq_receive` and
  then `hid_send_report`: reports are sent from the main loop, the context
  `"thread"`, which both USB interrupts preempt.
- No interrupt priority is ever set, so handlers do not preempt each other; of
  several pending ones the lowest number goes first (POWER_CLOCK 0, GPIOTE 6,
  USBD 39).
- Shared state: `usbd_state` (three contexts), `radio_arq_busy` and the radio
  (main loop and handler), `timeout_expired` (all timers), `configs` and the pin
  configuration (boot and handler).

### What is hard, and what would make it correct

| Component | Hard | Correct when |
|---|---|---|
| USB driver | lock tested and set in steps by contexts that preempt each other; handlers that poll for events only another context or the host causes; cable events handled in the code's order | one transfer at a time, the lock held meanwhile; pull-up only when all is ready; every standard request answered; descriptors whole or cut as asked; a report that is let through is sent once; a plugged cable brings the device up |
| Descriptors | lengths written as literals, a total patched into the middle of a packed structure, one buffer for every string | a host that reads what a descriptor announces has read all of it and nothing else, and the report it declares is the report that is sent |
| HID senders | two reports share one endpoint; whether to send is decided from what an earlier call stored; reports are dropped while the device is not ready | the host shows no key that the last report does not contain |
| Keymap | overlapping holds, taps and layers; one timer and one flag for all configurations; time passes in the middle of an update; slots wrap | no layer, key or modifier outlives the keys that hold it; held keys are in the report; a tap is typed exactly when the rule says so |
| Key scanner | level interrupts used as edges; pins read and re-armed one after the other while switches move; boot while the handler already runs | what was read is delivered, once; a change nobody read is still sensed; lasting changes are reported |
| Wired keyboard | all of the above in one handler, from a boot the handler may preempt | no stuck key at the host; the host follows the switches |
| ARQ | messages, answers and timeouts race; no sequence numbers; flag tested and set without masking interrupts; handler and main loop sleep on one timer | an answer in time means delivery; duplicates only after a missed answer; one user of the radio and of the sleep timer at a time; senders return, the dongle listens again once its report is sent |
| Dongle | the main loop polls for a report's end while interrupts take its events | the host's keys are those last received; the main loop gets back to the radio |

`PROJECT.json` lists the hazards line by line with the properties that cover
each.

## 2. Modules

Each module has its faulty variants in a marked section or beside the
definition: definitions no behaviour uses, each a plausible slip that one
property is known to notice.

    ReportPort <---- Usbd <------ UsbEnumeration ----> UsbDescriptors
        ^              ^
        |              +--------- Dongle
        +-- WiredKeyboard --> Keyscan, Keymap
    RadioLink  <---- RadioArq

`Usbd` and `RadioArq` are shown to implement `ReportPort` and `RadioLink`, which
stand for them in the compositions.

### Usbd and ReportPort

One action per step between two accesses to shared state, the handlers as label
automata over `pc["isr"]`, the report's sender over `pc[ReportContext]`.

| Model | Code |
|---|---|
| `PowerIrq`, `UsbDetected`, `AwaitReady`, `UsbPwrRdy`, `UsbRemoved`, `DisableUsbd`, `DropPullup` | `POWER_CLOCK_IRQHandler`, usbd.c:45-101, in order; the two `while` loops are steps whose guard is the loop's exit |
| `UsbdIrq`, `UsbEvent`, `UsbReset`, `Setup...`, `EndEpin1` | `USBD_IRQHandler`, usbd.c:103-195 |
| `SetupDescriptor`, `StartEpin0`, `AwaitDataDone`, `DataStageDone` | `usbd_get_descriptor_handler`, `usbd_epin0_transfer`, `usbd_epin_start(0, ...)` |
| `SendReport`, `AwaitLock`, `SetLock`, `StartEpin1`, `AwaitEndEpin` | `hid_send_*` and `usbd_epin_start(1, ...)`; that the lock is tested and set in two steps is in the code |
| `Plug` ... `ReportCopied` | cable, host, EasyDMA (external) |

`Usbd` knows a data stage by its length.  `Response` keeps the code's unshifted
comparison that makes the class branch dead: `SET_REPORT` is neither answered
nor stalled.  Two parameters restrict the surroundings: `PatientHost` (the host
does not give up a control transfer), `QuietCable` (the cable moves only while
the driver is idle).

`ReportPort` is the abstract specification of the driver for its senders, with
two variables: whether the device is ready and where the call is.  `PortSender`
computes the second from the driver's state.  A call that is let through returns
only after its report was copied to the endpoint, once; the ways in which it
never returns are actions of their own (`Fail`, `SwitchOff`, `Steal`).  `Steal`,
the interrupt that clears `ENDEPIN[1]` before the polling sender sees it, and
`SwitchOff` exist only where interrupts preempt the sender.

### UsbDescriptors and UsbEnumeration

`UsbDescriptors` has the bytes of every descriptor as the code lays them out,
`USBD_DESC_CombineDescriptors` with its patched total, `USBD_DESC_GetString` with
its static buffer and its limit of 32 characters, and the host's reading of the
bytes.  Characters are abstract: each stands for itself.  `TablesAssumption`
says of the two constant tables what the host's reading of them gives: the
configuration descriptor falls apart into its four parts, with the report
descriptor's length in the HID descriptor, and the report declared is as long as
the one sent.  It has no parameter, and TLC evaluates it.  `UsbEnumeration` adds
to `Usbd` the buffer and the bytes the host collects; a packet is read from the
buffer as it is when the packet goes.

### Dongle

`Dongle` is `Usbd` with reports sent from the main loop, driven by
`hid_send_report`: from the four switches it fills the keyboard's report, decides
from what it stored before whether to send that or the mouse's, and sends one.
What the radio hands over is any of `Messages`, as `RadioLink` allows.  The host
polls the endpoint; a report it has not read is overwritten by the next, and
`missed` remembers that this befell a keyboard report.

### Keymap

`keymap_update_state` runs in handler mode.  Its loop over the keys is a step per
key, because the tapping timer may elapse between two keys: `keymap_update_state`
is the code before the loop, `Visit` its body with `Hold`, `Release` and `Arm` its
branches, `EndUpdate` the reports.  Keys are numbers, in the order of the loop;
actions are the 16 bit codes and are taken apart as the macros do.  Several
configurations have states of their own and share `timer_id_keymap` and
`timeout_expired`, which `keyscan_debounce` resets as well.  A scan tells of one of
the `Sources` (a device and matrix) and leaves the other keys as they were.

History variables: `physical` and `down` (what the scans have shown, and how far
the loop has come), `timed` (whose press started the timer), `late` (keys down
for longer than the tapping term), `disturbed` and `touched` (keys that saw a
change of another key of their own, or of another, configuration).  The tapping
properties are stated with them and not with the code's own variables.

### Keyscan

Boot steps of the main thread, scan steps of the handler and movements of the
switches interleave; the value of a pin is read (`ReadPin`) and its sense set
(`SetCnf`) in two steps, as keyscan.c:145-162 does.  `Edge` is the port's DETECT:
only its rising edge raises the event.  `hasty` is a history variable: whether
switches moved (or were held) before boot was done, or while an event was being
handled.  The debounce never suppresses a change, because
`debounceTimeoutStarted` is never set; a bounce is a movement of the switch.

### WiredKeyboard

The composition of `examples/keymap_hid.c`: `Keyscan` by EXTENDS, `Keymap` and
`ReportPort` as instances.  A scan that found a change hands it to the keymap, the
keymap's reports are queued in `unsent` and go out one by one through the port,
and only then does the scan go on; the main thread runs while the handler is
idle.  `Refuse` is a report dropped while the device is not ready.  Cable, host
and switches move at any time.  `HostAgrees` spans the three components: when
nothing is left to be done, and nothing went wrong on the way, the host shows
the keys whose switches are closed and no others.  A transfer occupies the handler, which the
driver's own interrupts cannot preempt: that is why the port is instantiated
with `Preempted <- FALSE`.

### RadioArq and RadioLink

`RadioArq` is `radio_arq.c` over `radio.c` and the radio's timer, on two boards,
as `examples/radio_arq_hid.c` runs it.  `isr[n]` is where the handler of node
`n` is in `radio_arq_send`, `main` where the dongle's main loop is in
`radio_arq_receive` (`Enter` to `HandOver`) or in what it does with the report
(`UseReport`); a handler preempts the main loop at every label, between the test
and the setting of `radio_arq_busy` (radio_arq.c:80-81) also, and runs to its end.  `Air` is the medium: the packet, a CRC error or nothing arrives.
`Expire` is the compare event of a timer, at any time after it is started; that
covers both timeouts (3 ms for a transmission, which then cuts the packet, and
1500 us for an answer) and makes no assumption about speeds.  The CRC error
value, the cleared packet and the copy of zeros to the caller (radio_arq.c:91)
are kept; the receiver never looks at a packet's type, and neither does the
model.  `copies`, `unheard` and `stale` are history variables of the keyboard's
current call.

`RadioLink` is the abstract specification: a call has the link carry its message
at most three times while it lasts; the dongle's caller is handed what was
carried, in order and unchanged, or zeros.  `InCall` and `InHand` in `RadioArq`
are the refinement mapping.

## 3. Runs

| Run | Question | Result |
|---|---|---|
| `usbd_isr` | reports from handler mode, any host, any cable: one transfer at a time? | `TypeOK`, `TransferOwned`, `SingleTransfer`, `DmaHoldsLock`, `PullupNeedsAll`, `ConfiguredHasEndpoint` and the refinement `PortSpec` hold (388 700 states) |
| `dongle` | reports from the main loop, which both interrupts preempt: what does the host show, and does the loop get back to the radio? | `DongleSound`, `PortSpec`, `LoopReturns` hold (100 803 states) |
| `usbd_control` | patient host, quiet cable, every kind of request, byte by byte | `CableTracked`, `DataStageExact`, `DescriptorsTrue`, `ReportFinishes`, `StandardAnswered`, `PluggedComesUp` hold (113 079 states) |
| `usbd_dma` | does the lock keep transfers apart when the main loop sends? | no: `SingleTransfer` fails |
| `usbd_removal` | does the removal handler's wait end? | no: `RemovalCompletes` fails |
| `keymap` | every action type, two configurations, three sources, fewer slots than keys | all eight properties hold (444 016 states) |
| `keymap_held` | the layout of `keymap_hid`: does a held key keep its meaning? | no: `HeldActionKept` fails |
| `wired_keyboard` | switches, cable and host that move between any two steps, from boot | five invariants, `NoDuplicate`, `CalmEdgesDetected` and `HostFollows` hold (232 870 states) |
| `keyscan_edge` | is every lasting change reported after boot? | no: `EdgesDetected` fails |
| `radio_arq` | the protocol over a medium that loses and corrupts | five invariants, the refinement and two liveness properties hold (416 687 states) |
| `radio_timeout` | is an infinite wait infinite? | no: `InfiniteNeverExpires` fails |
| `radio_ack` | does an ACK mean delivery? | no: `AckIsDelivery` fails |

### Where the code and what is said of it disagree

1. `usbd_dma`: endpoint 0 takes the lock without waiting for it and clears it at
   the end (usbd.c:260-281), so a control transfer that interrupts a report
   from the main loop runs a second EasyDMA transfer.  docs/usbd.md:180-182
   says the flag prevents that.  In handler mode it cannot happen, and that is
   proved.
2. `usbd_removal`: usbd.c:88 waits in the handler for a flag that only the code
   it interrupted clears.
3. `keymap_held`: the layer of a held key is looked up again among the layers
   active now (keymap.c:71-84); releasing a layer tap changes what the key means,
   against the comment at keymap.c:137-138.
4. `keyscan_edge`: a switch that moves after its pin was read, while another pin
   holds DETECT high, makes no edge.  It is reported with the next event, if one
   comes.  `CalmEdgesDetected` and `MissedIsSensed` say what does hold.
5. `radio_timeout`: `timer_start_timeout(id, 0)` returns before it clears the
   compare event (timer.c:113-115) of a timeout that `radio_send` left running.
   The infinite receive then ends at once, with a NACK nobody asked for and a
   report of zeros.
6. `radio_ack`: packets have no sequence number, so the ACK of a message the
   sender gave up is taken for that of its next one, which may be lost.
   `AckMeansReceived` states the exact exception.

Also seen, not made a run: with reports from the main loop `ReportFinishes`
fails too, because the handler clears `ENDEPIN[1]` (usbd.c:191-194) before the
polling loop sees it; `ReportPort` has this as `Steal`, and `LoopReturns` as its
exception.  With a cable that moves at any time `CableTracked` fails, because the
handler treats detection before removal, whatever came first.  A host that
abandons a data stage keeps the USB interrupt waiting for ever (usbd.c:325-333),
so that `StandardAnswered` assumes a patient one.  A mouse report
that overwrites an unread keyboard report leaves a released key at the host
(`missed` in `DongleSound`), a layer tap above layer 0 never releases its layer
(`Sticky` in `LayersHeld`), and a key without an action on layer 0 leaves its tap
pending when it is released (excepted in `TapArmed`).

### Bounds, and why they are enough

- `Usbd`: nothing is bounded but the set of requests.  `FewRequests` has one
  that occupies the EasyDMA for two packets, and one each that ends with a status
  stage, with a stall and with no answer;
  `AllRequests` has a short, a truncated, a two-packet, a truncated two-packet
  and an empty data stage, a string and then a shorter one from the same buffer,
  missing descriptors and each other branch.
- `UsbEnumeration`: the string buffer has the 66 bytes the loop can write instead
  of 128 (`USBD_DESC_GetString` writes no others).  The lengths of the strings are
  the repository's.
- `Dongle`: messages are the release of all switches, a mouse button and a key,
  so that a keyboard report, its release and a mouse report follow each other in
  any order; two requests; the cable is quiet, the host is not patient.  The
  theorems have none of these bounds.
- `Keymap`: six keys in two configurations with one timer, two layers, two report
  slots instead of five so that the slot index wraps.  A layer tap, a modifier and
  a mod tap of the same bit, a key that types on both layers and one that types on
  the upper layer only, and a mod tap in the other configuration: each is needed
  for some property to be in danger.  No bound on the length of a run.
  `LayersLen <= 15`, because the search starts one layer above the last
  (keymap.c:48).
- `WiredKeyboard`: two of the example's switches, one per matrix, a layer tap and
  a key that types on both layers; two further matrices are unused.  No bound on
  movements.  `keyscan_edge` has three pins, two of them in one matrix, and an
  unused id between the matrices.  A configuration never has more pins than its
  matrix has bits (`Len(Direct) <= ColsLen * 8`), and no pin is in two places, as
  in all examples.
- Liveness excuses the movements the code promises nothing about, through `hasty`:
  those before boot is done (`gpiote_enable_port_events` clears an event raised
  while pins were configured) and those while an event is handled.  `HostFollows`
  also excuses a keymap that does not know what the scanner reported (changes
  before it was registered), a last report that was lost with the device
  (`stale`), and a transfer that hangs.
- `RadioArq`: two calls by the keyboard, so that a late ACK can meet the next
  call, with two messages; one call by the dongle, so that its handler preempts
  its main loop at every label.  Three attempts per call is the code's number.
  The release of all switches, which sends zeros, is not among the messages: the
  code never looks at the payload, and the zeros of a failed receive stay apart
  from what was sent.
  The runs do not check for deadlock, since a dongle nobody sends to listens for
  ever.

### Fairness

- `Usbd`, `UsbEnumeration`, `Dongle`: a handler that can step does (weak fairness:
  nothing preempts it); a pending interrupt is taken although others compete for
  the processor and interrupted code resumes (strong fairness, since those are
  enabled and disabled again); the regulator settles, the peripheral becomes
  ready, the EasyDMA ends and a host that asked reads what it is offered.  Nothing
  makes the host ask, the cable move or a report be sent.  A host that never stops
  asking can keep the processor in the handlers; `LoopReturns` therefore assumes
  that the main loop gets to run again and again.
- `Keyscan`, `WiredKeyboard`: the handler and the boot thread go on, and the host
  polls.  Nothing makes a switch or the cable move.
- `RadioArq`: handlers go on, because nothing preempts them, and a timer that
  counts expires.  Nothing makes a transmission end, a packet arrive or a key
  event happen.  `LoopListens` assumes that interrupts leave the main loop time
  while it is in `radio_arq_receive`, which an interrupt of the USB driver that
  waits for an abandoned data stage (usbd.c:325-333) would not.  Of `UseReport`
  nothing is assumed: `hid_send_report` may never return (`Fail`, `SwitchOff` and
  `Steal` of `ReportPort`, and the wait of usbd.c:88 over it), and `LoopListens`
  excepts a dongle that stays in it for ever.
- `Keymap` has no liveness property of its own: its handler is part of
  `WiredKeyboard`, where `HostFollows` needs it to end.

## 4. Proofs

`UsbdProofs`, `UsbEnumerationProofs`, `DongleProofs`, `KeymapProofs`,
`KeyscanProofs`, `WiredKeyboardProofs` and `RadioArqProofs` hold the theorems;
each obligation is proved by SMT, Zenon or, for the temporal steps, LS4.  Every
invariant and every safety action property that a passing run checks is the
subject of a theorem.  Liveness is out of reach; for most of the liveness
properties a theorem states the safety half, that what is waited for can still
come or that nothing was forgotten.

**Usbd**, from `UsbdAssumption` (lengths and request fields are numbers):

- `TypeCorrect`: `Spec => []TypeOK`, which includes that a data stage never sends
  more than it should.  `PullupCorrect`, `EndpointCorrect`: `PullupNeedsAll` and
  `ConfiguredHasEndpoint`, for both contexts.
- `TransferCorrect`, `SingleTransferCorrect`, `LockCorrect`: with
  `ReportContext = "isr"`, `TransferOwned`, `SingleTransfer` and `DmaHoldsLock`
  are invariants.  `SingleTransfer` alone is not inductive: a step that starts a
  DMA says nothing about the other one.  `TransferOwned` is the strengthening:
  every running DMA has its owner at one place in the code, and handler code is
  at one place only.  The theorem is false for `"thread"`, which is the finding of
  `usbd_dma`.
- `PortCorrect`: `Spec => PortSpec`, the refinement of `ReportPort`, for both
  contexts.  `PortInv` says that a report's transfer and its completion event
  belong to a sender that waits, and never both at once.
- `CableCorrect` assumes `QuietCable`, without which `CableTracked` is false: a
  cable that is moved while its interrupts are pending can leave the driver with
  the older news.  `CableInv` adds what the pending events say of VBUS.
- `DataStageCorrect` assumes `PatientHost`, without which a host that gives up one
  transfer reads the rest of it as the next.  `StageInv` says where the bytes of
  a stage are: received, in the packet that is ready, or still to be sent.
- `WaitsCorrect` (`ReportContext = "isr"`, quiet cable, patient host): no handler
  waits for what cannot come.  `WaitInv` follows the lock, the events and the
  peripheral's enable through all handlers; it is the safety half of
  `ReportFinishes`, `StandardAnswered` and `PluggedComesUp`.

**UsbEnumeration**, from `DescriptorsAssumption` (each string has a length),
`EnumerationAssumption` (`Usbd` is given the lengths of these descriptors) and
`TablesAssumption`:

- `EnumerationIsUsbd`: the composition runs `Usbd`, so the theorems above hold in
  it.
- `StageBytesCorrect`: the bytes the host has read of a data stage are a prefix of
  the descriptor it asked for, although all strings share one buffer that the next
  request overwrites.  `EnumInv` says that the buffer holds the string of the
  stage under way for as long as a packet of it is to come.
- `DescriptorsCorrect`: with that, `DescriptorsTrue`.  The bytes of the constant
  tables are taken from `TablesAssumption`: the readings are folds, which the
  provers cannot evaluate and TLC can.
- Both assume `ShortStrings`, fewer than 32 characters: for a longer string
  `USBD_DESC_GetString` gives up with the previous string's length in the buffer.
  The repository's strings are shorter.

**Dongle**, from `DongleAssumption`, for every set of messages, host and cable:
`DriverRuns` shows that the composition runs `Usbd`, so that `DonglePortCorrect`
follows from `PortCorrect`; `DongleSoundCorrect` needs `ViewInv`: what the host
will have read is in the stored keys, unless it was missed or the report that says
so is still in a call.

**Keymap**, from `KeymapAssumption`, for every layout and any number of keys,
layers, slots and configurations.  The loop is a step per key, so no induction over
data is needed: its invariants say what holds when the loop has come to `todo`.

- `LoopInv` (`TypeInv` and `ScanInv`: the logical state is that of the switches)
  gives `TypeCorrect` and `LayersCorrect`.
- `OpenInv` (the report under construction shows only what is held, the slot of a
  tap apart) gives `ReportCorrect`: the report that is left is sound.
- `PendingInv` gives `ArmedCorrect`, and with it the action properties
  `TapSoundCorrect` and `TapCompleteCorrect`.
- `HoldInv` (what the loop has held it keeps, unless a mod tap masks it) gives
  `ModifiersCorrect`.
- `SlotInv` counts: the next slot is the number of codes added, and while fewer
  keys are held than there are slots, room is left for those of them the loop has
  still to visit and for a tap, so that no code is overwritten.  It gives
  `CompleteCorrect`.

**Keyscan**, from `KeyscanAssumption` (a configuration fits its matrix) and
`WiringAssumption` (every switch is wired to one place of one configuration, as
in all examples), for every wiring and every movement of the switches:

- `KeyscanInv` is the inductive invariant: `Handed` (what is read and not handed
  over is what is being scanned), `QuietBoot` (a boot with no switch pressed
  raises no event), `Registered` and `Armed` (how far boot has come, and that the
  pins it has configured sense the opposite of what was read).  `SenseOpposite`
  alone speaks of the time after boot and so is not inductive.
- `TypeCorrect`, `DeliveryCorrect`, `SenseCorrect`, `MissedCorrect`.
  `DeliveryCorrect` rests on `RowFacts`: the rounded-up `rows_len` reaches the row
  of every switch.  `DuplicateCorrect` is the action property `NoDuplicate`.
- `CalmCorrect`, the safety half of `CalmEdgesDetected`: if no switch moved during
  boot or while another was being handled, every switch is reported as it is
  whenever the handler is done and no event is pending.  `CalmInv` says that a
  switch that differs from what was read of it has its pin still ahead of the
  scan, or an event pending.

**WiredKeyboard**, from the assumptions of its parts, `LayoutAssumption` (every
key has a place in a matrix) and `ActionsAssumption`:

- `ScannerRuns`, `KeymapRuns` and `PortRuns`: every step of the keyboard is a step
  of each component or leaves it alone.  What is proved of the components
  therefore holds in it: `WiredTypeCorrect`, `WiredDeliveryCorrect`,
  `WiredSenseCorrect`, `WiredMissedCorrect`, `WiredDuplicateCorrect`, and with
  `WiredKeymapCorrect` the keymap's invariants, which the next theorems use.
- `HostSoundCorrect`: no stuck key at the host.  `HostInv` relates the four parts:
  the keymap knows of no key the scanner did not report (`Known`), the queue ends
  with the update's last report (`Queued`), a call about to return has shown its
  report (`Shown`), and when all is done the host's view is sound (`Settled`); a
  device that is down has been forgotten (`Forgotten`).
- `HostAgreesCorrect`: `HostAgrees`, from `CalmCorrect` (the switches are reported
  as they are), `CompleteCorrect` (the report shows what is held) and `Fresh` (what
  the host has not lost is the update's last report).  It is the safety half of
  `HostFollows`, for any number of keys.

**RadioArq**, from `RadioAssumption` (messages are non-zero numbers), for every
set of messages and any number of key events:

- `RadioInv` is the inductive invariant: `Located` (what the code's place says of
  the radio), `Reserved` (what it says of `radio_arq_busy`), `Sending` (the
  dongle hears messages only), `Counted` (attempts left bound the copies made),
  `Answering` (an ACK heard or still to come has its cause), `Waiting` (a copy
  whose ACK was not missed is still being answered).  The last four relate
  handler, main loop, radio and history, which is why none of the properties
  below is inductive by itself.
- `TypeCorrect`, `UncontendedCorrect`, `SleepsCorrect`, `AckCorrect`,
  `DuplicateCorrect`: the five invariants of `radio_arq`.  `RadioUncontended`
  shows that the drivers' return code 2 is unreachable here, so that no action
  models it.
  The main loop tests `radio_arq_busy` in one step and sets it in another; that
  it is still clear there follows from `Reserved`, because a handler that came
  between has cleared it again.
- `LinkCorrect`: `Spec => LinkSpec`, the refinement of `RadioLink`: `LinkInit`
  maps initial states, `LinkStep` maps every step to one of the link or to a
  stutter.  `Call`, `Air` of the keyboard, the return of the handler and
  `HandOver` are the steps that are not stutters.
- `WaitsCorrect` and `AdvancesCorrect`, the safety half of `SendReturns`: every wait
  with a timeout has it counting until the wait is over, and `StepsLeft` is a
  measure of at most eleven that only the handler's own steps change, and lower.

**Only model-checked**: liveness under fairness, in all modules
(`ReportFinishes`, `StandardAnswered`, `PluggedComesUp`, `LoopReturns`,
`CalmEdgesDetected`, `HostFollows`, `SendReturns`, `LoopListens`), because the
provers have neither fairness nor ENABLED; and `TablesAssumption`, a closed formula
over the constant tables.

## 5. Not modelled

- The fields of the mouse's report: `mouse.x` accumulates for as long as reports
  arrive with one of two switches held (usb_hid.c:199-205), and the report descriptor
  declares other sizes than the structure has.  What a host makes of that is not
  in the repository.
- The steps within `keymap_register_config`: it is one action.  A scan between
  two of its assignments would read a layout at address 0.
- The radio of the dongle and its USB side in one state space: `RadioArq` and
  `Dongle` meet in `RadioLink`, which says what the one hands to the other.
- `init_keyscan_matrix`, a stub without effect.
- Configuration of radio, clock and timers, LEDs, probe pulses, start-up code,
  and the demonstration examples: register writes nothing reads back.
- `drivers/nrf52840_bitfields.h`: the vendor's register constants, 22 878 of the
  26 810 lines of the implementation.  The map can only cover a small part of the
  whole for that reason.

## 6. Plan

Done, in this order because the most is at stake where contexts preempt each
other: `Usbd`, `Keyscan`, `RadioLink` and `RadioArq` with their proofs; then
`Keymap` key by key with several configurations and its proofs; `ReportPort` and
that the driver implements it; `Dongle`, `UsbDescriptors` and `UsbEnumeration`,
`WiredKeyboard`, with the proofs of the two compositions.

Left:

1. The mouse report's data, and registration in steps.
2. `RadioArq` and `Dongle` in one module, with a sender that keeps the dongle
   from the radio.
3. Proofs: what the main loop of the dongle waits for, as `WaitsCorrect` has it
   for handlers; a measure for the scan and for the keymap's loop, as
   `StepsLeft` is one for the radio; that a driver with `Steal` and `SwitchOff`
   left out is one whose sender always returns.
