# TLA+ verification of the TY71M keyboard firmware

The firmware under `src/firmware_c` runs a 71 key USB keyboard on a NUC123
microcontroller. It has no operating system: after start-up (`main.c`)
everything happens in interrupt handlers. This directory holds TLA+ models of
those handlers, TLC configurations that check them on small instances and
TLAPS proofs that hold for every instance.

Paths below are relative to `src/firmware_c/inc` unless they say otherwise.

## 1. The system

| Component | State | Operations | Talks to |
|---|---|---|---|
| Matrix scan and report, `keymatrix.h` | `keys[8][9]` (state and colors of each cell), `report_hid_out` | `getPressedKeys` (TMR0), `reportPressedKeys` (TMR1) | timers, backlight (same array), USB (the report) |
| Timers, `timer.h` | `previous_report_out`, fade counter | `TMR0_IRQHandler` every 1 ms, `TMR1_IRQHandler` every 10 ms once configured | matrix, backlight, `USB_initiate_send` |
| Backlight, `backlight.h` | brightness and running sum of each LED, `currentcolnum`, shift register chain | `setRGB` (one column per call) | matrix (a pressed key shines green) |
| USB device, `usb.h`, `usb_ephandler.h` | `deviceState`, `changeAddressTo`, `EP_CONFIG_ARRAY`, protocol and idle rate, controller registers | `USBD_IRQHandler` (setup, endpoint events, bus events), `USB_initiate_send`, `USB_process_rx_tx` | host through the USB controller; TMR1 through endpoint 2 |
| Debug UART, `uart.h` | `UART0_tx_pointer`, `UART0_tx_total_to_send`, `UART0_tx_bytes_left`, `UART0_IER` | `UART0_send_async`, `UART0_IRQHandler` | called by USBD and TMR1 handlers |
| Interrupt priorities, `nvic.h` | - | USBD 0, UART0 1, TMR1 2, TMR0 3 (lower preempts higher) | all |
| Descriptors, register map, start-up, EEPROM/I2C, vendored CMSIS and drivers | constants or unused | - | - |

What is hard in this code: handlers preempt each other between any two
statements and share `keys`, `report_hid_out` and the endpoint structure
without a lock; the controller and the host act while the highest handler
runs; the host repeats, abandons and resets; reports, columns and device
addresses have limits with off-by-one conditions. `PROJECT.json` lists the
hazards one by one at their lines, with the properties that watch them.

What makes each component correct:

* report: what is in the report is what is pressed; nothing is lost below the
  limit, and which keys are lost above it is well defined;
* pipeline: a key change that lasts reaches the host, whole; the pipeline is a
  mailbox for one report;
* USB: host and device agree about address, configuration, the answer to each
  request and data toggles, no transfer hangs, and the device comes back from
  suspend, reset and detach;
* backlight: no light is lost or misplaced, every column gets its turn;
* UART: a message nothing overlaps is written with all its bytes, a
  transmission does not wait with its interrupt off, and comes to an end.

## 2. Modules

| Module | Models | Checked by | Proofs |
|---|---|---|---|
| `KeyLayout` | layout table and key codes | with `MCKeyReport` | - |
| `KeyReport` | `reportPressedKeys`, one iteration of its loops per step | `MCKeyReport` | `KeyReport_proofs` |
| `HidPipeline` | TMR0 (with column 8), TMR1, USBD and the host around the report and endpoint 2 | `MCHidPipeline` | `HidPipeline_proofs` |
| `ReportLink` | abstract: the mailbox `HidPipeline` implements | as a property of `hid_pipeline` | `HidPipeline_proofs` |
| `UsbControl` | `USBD_IRQHandler`: control transfers, endpoint events, bus and cable | `MCUsbControl` | `UsbControl_proofs`, `UsbReply_proofs`, `UsbTransfer_proofs` |
| `ControlTransfer` | abstract: the control pipe `UsbControl` implements | as a property of `usb_control` | `ControlTransfer_proofs` |
| `Backlight` | `setRGB`, one shifted bit per step | `MCBacklight` | `Backlight_proofs` |
| `Uart0` | `UART0_send_async` and `UART0_IRQHandler`, one memory access per step, and column 8 | `MCUart0` | `Uart0_proofs` |

### KeyReport

`pc = "clear"` while `reportPressedKeys` clears the eight bytes (`ClearByte`, with
`cleared` as the loop counter), `"scan"` while it is in its main loop;
`VisitReleased`, `VisitModifier` and `VisitNormal` are the three things an
iteration does, `Advance` the counter arithmetic at its end, `LoopGuard` the loop
condition, `Enter` and `BeginScan` the starts of the two loops. The eight branches of the modifier chain are
one: byte 0 is kept as the set of its modifiers. TMR0 is preempted by TMR1, so
cells change one by one between two calls (`SampleCell`) and never during one.
The layout is the real table (`KeyLayout`).

GET_REPORT runs in USBD_IRQHandler and sends `report_hid_out` as it is, also in
the middle of these loops. What it then sends is what is there: in the main loop
the keys scanned so far, each in its place, and nothing else (`ScanPrefix`), before
it a part of the last report. No property says that it is complete, for it is
not.

### HidPipeline

One action per step that another handler or the controller can observe:
`SampleCell`, `RefreshColumn`, `LoadSum` and `StoreSum` (TMR0); `BuildReport`, then
`USB_initiate_send` and `USB_process_rx_tx` statement by statement, `CheckBusy`,
`StoreLength`, `EnterProcess`, `CopySlot` (one byte of the loop), `ArmPacket`,
`ClearBytes` (TMR1); `EndpointEvent`, `SetConfiguration`, `BusReset` (USBD);
`HostPolls`. Preemption is in the guards: TMR1 steps need no pending event,
TMR0 steps also need TMR1 to be idle; `SetConfiguration` and `BusReset` come at
any time, because the host decides when.

The cells of column 8 lie behind `keys`, and the sums of its row 0 are slots of
`report_hid_out` (memory.map:191-192). `LoadSum` reads a sum and the brightness
before it, `StoreSum` writes it back, three of them in the order of setRGB's loops
(`row`); what preempts TMR0 between the two may have built and sent a report, so
that an old byte comes back.

`BuildReport` keeps the old report, builds the new one and compares them in one
step, because nothing that preempts TMR1 there writes any of it; the loop inside
is `KeyReport`'s subject. Timer 1 runs from the first SET_CONFIGURATION on
(`timer1`) and is not stopped by a reset; `configured` is the host's view.
Four variables are histories: `built` is what TMR1 built last, `raced` becomes
true when an event or a reset falls between two statements of a send, which is
what `MessageIntact` shows to go wrong, `cancelled` when SET_CONFIGURATION or a
reset withdraws a report that is not sent again while the same keys stay down,
and `overlooked` when TMR1 builds a new report and finds what column 8 has left in
`report_hid_out` equal to it. `HostUpToDate` and `KeysReachHost` are claims about
the other behaviours; `NewDataPushed` is the second without the last exception,
and `hid_overrun` shows that it needs it.

An endpoint is marked free as soon as its packet is armed (usb.h:313), so TMR1
never finds it busy: a report the host has not polled is overwritten, at the
earliest while the host is polling it.

`ReportLink` says what this amounts to: a mailbox for one report. `Build`
changes the report, `Begin`, `Tear`, `Post` and `End` put it into the box, `Take`
is the host's poll, `Disturb` and `Withdraw` are the two ways it fails. The
refinement (`Link` in `HidPipeline`) maps `current` to `built`, `mail` to what the
host would get from the endpoint now (`Mail`: none, torn while TMR1 copies over
it, else the buffer), `seen` to `hview`, `posting` to the part of the send after
the busy test, and the two failures to the histories. `End` carries the promise:
a posting ends without a report in the box only if the host already has it.

### UsbControl

`USBD_IRQHandler` has the highest priority, so no software sees it half done,
but the controller does. Its accesses to variables happen in the entering
action (`ReadRequest`, `SetAddress`, ..., one for each group of requests) and
its register accesses form the program `prog`, executed one per step, with host
tokens in between. `EnterEvents` and `Event` are the loop over the endpoints,
which rereads INTSTS; `HandleResume`, `HandleSuspend`, `HandleReset` and
`HandleCable` are the BUS and FLDET branches, reached when no USB event is
pending. The BUS flag says only that something happened; what it was is read
from ATTR when the handler runs, and ATTR shows the latest of the events: two
that come before the handler are handled as one. A reset clears every flag, also
that of a cable event. Timer 1 keeps filling the keyboard endpoint while the bus
is suspended; no code signals a remote wakeup.

`buf` of an endpoint that is not armed is set to `Zlp` (`Disarm`): the controller
sends nothing from it, and its old content cannot be told apart.

The host (`Host...`, `BusIdle`, `PullCable`, `PlugCable`) is external: it sends
SETUP, repeats it, polls, sends the status stage, abandons a transfer, resets,
suspends and resumes the bus; the cable is pulled and plugged. Its first act is
a reset (`hAddr = NoHost` until then). It keeps its own record (`hAddr`, `hCfg`,
`hToggle`, `hProtocol`) of what was acknowledged, against which the device is
compared.

A request is `[kind, arg]`: the kind names the branch of the handler, the
argument the value the branch tests. A packet is the kind of the request it
answers and the byte that depends on state.

`ControlTransfer` says what this amounts to: one request at a time, which the
device carries out (`Perform`), answers (`Deliver`, `Finish`) or refuses (`Refuse`),
and which the host may give up. `Refuses` is the table of what is refused, from
the request, the address and the configuration alone. `Ignores` lists what is
neither answered nor refused. CLEAR_FEATURE(DEVICE_REMOTE_WAKEUP) is left open
once the device has an address (`Unsettled`): by the comments at usb.h:418-420
it is carried out and confirmed, by the condition at usb.h:418, which asks for two
states at once, it is refused. The specification takes no side, so mending the
condition would not violate it. The refinement (`Transfer` in
`UsbControl`) maps the abstract address and configuration to what the host has
seen acknowledged, so it says that the handler, which decides from `deviceState`,
never takes a request for what it is not, although it may see the request twice
and in a state that the first time has changed.

### Backlight

`PowerOff`, `ShiftLed` (27 times in the code), `ShiftSelect` (8 times), `PowerOn`.
In the refresh of column 8, which does not exist, the shifted bits are
arbitrary (`ShiftForeign`). `owed` is a history variable: brightness asked for
minus light given. `lit` and `shown` record what was shifted for each LED and
the column shifted last.

### Uart0

Three actors send, and share three variables and the interrupt enable bit: `usb` and
`tmr`, the handlers that call `UART0_send_async`, and `irq`, `UART0_IRQHandler`.
`usb` preempts `irq`, which preempts `tmr`, between any two accesses (`Runs`). Each
access to memory is a step: `Call` (the length), `StoreLeft`, `StorePointer`,
`TestLoop`, `Fetch`, `Decrement` and `WriteByte` (the loop both have), `Enable`;
`EnterIrq`, `CheckSource`, `CheckLeft`, `MaskIrq`. The reads of one expression are
one step: that of uart.h:65 reads counter, pointer and length within a few
instructions. `Drain` is the UART. A message is the address of its first byte
and its length, and what is written to the UART is recorded as the addresses
read; a read where nothing can be read is a HardFault (`ReadFault`), whose handler
is an endless loop (`Halt`).

TMR0 takes part without meaning to: the rows 4 and 5 of column 8 are the bytes of
the three variables (memory.map:197-201). `LoadSum` and `StoreSum` are the three
sums of setRGB that change them: byte 0 of the length, to which byte 3 of the
counter is added, byte 2 of the counter with its byte 1, and byte 1 of the pointer
with its byte 0. The first two stay as they are while counters are small; the
pointer does not, and what is left of a message comes from somewhere else
(`moved`); nor does a counter that has wrapped. The
read-modify-writes of UART0_IER are one step (`Enable`, `MaskIrq`): each sets a
fixed bit of a register of which no other bit changes, so what matters is the
order of the writes. `raced`, `masked` and `moved` are histories: a transmission
that overlaps another, a call between the handler's test of the counter and its
write to UART0_IER, and column 8 changing a variable while bytes are left.
Without the first, `Delivered` says that the number of bytes is right, and without
the last that they are the message; `NotStalled` exempts the second, and the first
together with the last; `ComesToRest` is about transmissions that were not
overlapped, for after a wrap the reads run on to the end of the flash.
`StillDataToSend` shows how the wrap comes about.
The branch for received bytes is left out: main.c:60 connects only the transmit
pin.

## 3. Runs

| Run | States | Shows |
|---|---|---|
| `key_report` | 747 464 | every set of 9 keys, changing between two calls: the report is right at every iteration (`ScanPrefix`), complete below six keys, the first six of the scan otherwise; no duplicates; the call returns |
| `key_report_modifiers` (violation) | | with six normal keys a modifier scanned later is dropped, against the repository's README.md:6 |
| `usb_control` | 1 516 709 | an enumerating host with a request for every branch, repetition, abandonment and reset at any moment: address, state, replies and toggles agree on both sides, and the control pipe is that of `ControlTransfer` |
| `usb_session` | 464 212 | suspend, resume, reset and the cable at any moment, with class, refused and unanswered requests: the device listens again, its state is still right, transfers end |
| `usb_address` (violation) | | a SET_ADDRESS given up before its status stage takes effect in the next transfer, against usb.h:322 |
| `usb_protocol` (violation) | | GET_PROTOCOL does not read back SET_PROTOCOL, against usb_ephandler.h:6 |
| `hid_pipeline` | 833 904 | the host is up to date at rest unless one of the three histories says why not; keys held reach it; the pipeline is the mailbox of `ReportLink` |
| `hid_intact` (violation) | | the event of an earlier packet in the copy loop of the next one: usb.h:312 writes -1 to MAXPLD and the host gets no report, against usb.h:354 |
| `hid_overrun` (violation) | | a sum of column 8, stored behind a report that was sent, hides the release of a key, which stays pressed at the host, against timer.h:72 |
| `backlight` | 425 496 | no light lost, only finished frames lit, every column refreshed |
| `uart` | 1 030 130 | messages nothing overlaps are written with all their bytes, and right unless column 8 came in between; none waits with its interrupt off; the transmission ends |
| `uart_underflow` (violation) | | a loop preempted behind its test reads a counter that has become 0 and lets it wrap, against uart.h:37 |

The violated properties are findings: `PROJECT.json` quotes the line of the
repository each contradicts.

### Bounds

* `key_report`: the real 8 by 9 layout and six slots. Nine pressable cells:
  seven normal keys (one more than fits) with the first and the last cell of
  the matrix and a last column among them, a modifier scanned early and one
  scanned after six of the keys. That the table has no code twice is evaluated
  over all 72 cells (`DistinctCodes` of `KeyLayout`).
* `usb_*`: one address besides 0. `MCRequests` has one representative of each
  branch of a standard request, `MCSessionRequests` one of each shape of transfer
  and the class requests; between them every action and every branch happens.
  The bus sleeps and the cable is pulled in `usb_session` only (`BusSleeps`).
  Repetitions, abandonments, resets and cable events are not bounded.
* `hid_pipeline`: two keys and three slots, of which column 8 takes the sums of
  slots 3 and 1, so that a code is moved as well as restored. `MaxPasses` is 1
  there: TMR1 comes every 10 ms and the column every 9. The violated runs allow 2
  and have the six slots of the firmware; `hid_overrun` needs one key only, and
  `hid_intact` no reset, so that its trace is the event of an earlier packet.
* `backlight`: two columns of one cell, brightness modulo 3 in place of 256.
  The sum is the only arithmetic and the proof covers every modulus.
* `uart`: messages of one and two bytes, as those in the code, a FIFO of one byte,
  so that the interrupt has to do the rest, as after several messages in a row in
  the program, and bytes of three values, so that a word has 81 and an address of
  two bytes is enough. Twelve addresses can be read. `uart_underflow` has a FIFO
  of two: in one of one byte the test finds it full.

### Fairness

* `KeyReport`: the loop goes on. Its handler is preempted only by USB and UART
  handlers, and both return.
* `HidPipeline`: both timers are periodic and TMR1 is shorter than the period
  of TMR0 (1 ms), so TMR0 gets its turn between two of them (strong fairness,
  since TMR1 disables it now and then); the host polls. Neither
  SET_CONFIGURATION nor reset is fair: `KeysReachHost` assumes that they stop.
  `RefreshingSpec` (`hid_overrun`) adds that column 8, one of nine in turn, is
  refreshed again and again: what it shows is not a TMR0 that stands still.
* `UsbControl`: the pending handler runs (weak fairness); the host's tokens get
  through again and again (strong fairness), so not every SETUP
  acknowledgement is lost. A host need not resume or plug in: `TransferEnds`
  holds because it suspends and unplugs only between transfers or ends them.
* `Backlight`: TMR0 is periodic and its handler runs to its end.
* `Uart0`: a handler is kept from running only by those that preempt it, and
  they return (weak fairness of each, where being preempted disables it); the
  UART shifts bytes out. Calls are not fair: `ComesToRest` assumes that they stop.

Deadlock is checked in every run.

## 4. Proofs

All theorems hold for every value of the constants that satisfies the named
assumptions of the modules (`MatrixAssumption`, `LayoutAssumption`,
`ScanAssumption`, `PassAssumption`, `FullAssumption`, `UartAssumption`,
`AddressAssumption`, `RequestAssumption`).

* `KeyReport_proofs`. `TypeCorrect` is inductive as it stands: the slot index
  is bounded by the loop guard, so no byte outside the report is written.
  `ReportIsScanPrefix` needs that the bytes the first loop has passed are zero
  (`ClearedBytes`), and the rank of the visited keys: visiting a cell adds
  exactly the cell to the visited set, the rank of the new key is the number
  of normal keys visited (finite cardinalities), and ranks of earlier keys
  stay. `BelowRolloverComplete` follows at the loop's exit: with a slot to spare
  the guard can only fail because every row was visited. `FullReportKeepsFirst`
  and `DuplicateFree` assume that the layout has no code twice
  (`LayoutInjective`). Of the firmware's table that is the assumption
  `DistinctCodes` of `KeyLayout`, which TLC evaluates over every cell.
* `HidPipeline_proofs`. `TypeCorrect` and `ImplementsLink` hold wherever the
  linker puts the report: every step of the pipeline is a step of `ReportLink`
  or leaves its variables alone. The invariant that carries the refinement says,
  for each value of `t1`, how far a send that nothing has fallen into has come
  (`SendProgress`: pointer and length set, the slots already copied, the packet
  armed or taken by the host). `HostKeepsUp` (`HostUpToDate`) follows from the same
  invariant wherever the linker puts the report: `HostProgress` says that an idle
  TMR1 with nothing in flight has its last report at the host, and the only step
  that could break it, a build that is not sent, sets `overlooked`. `TypeCorrect`
  needs that a refresh under way has been counted (`PassBegun`).
* `Backlight_proofs`. `LightIsKept` says that `owed` stays between 0 and
  `Full - 1`. Its invariant strengthens this to `owed = temp`: the sum that is
  kept is exactly the light owed. The lemma `WrapIsOverflow` states that the
  comparison in `backlight.h:47` detects the overflow of the 8 bit sum.
  `FrameIsWhole` (`LitFrame`) needs that the light is off while bits are shifted
  (`Dark`) and where each bit shifted so far stands in the chain (`Shifted`), by
  the arithmetic of rows and colors (`LedOfBit`, `BitOfLed`): after the last step
  every bit has reached its place.
* `UsbControl_proofs`, for any set of requests and addresses.
  - `TypeCorrect`: types, and a bound on the register accesses of a handler; the
    programs are sequences of a fixed set of accesses.
  - `BackOnTheBus` (`ListensToHost`): with no bus event waiting the transceiver
    follows the latest, with no cable event waiting the controller is on while
    the cable is in, and a host has an address only then (`PowerInv`).
  - `AddressesAgree` (`AddressAgreement`), under `SetupBlocks` and without
    `AbandonsAddress`. The claim is about one moment, its reason is the whole
    transfer, so the invariant `AddrInv` follows SET_ADDRESS from SETUP to event:
    `Remembered` says when an address may be in `changeAddressTo`, `Undisturbed`
    that no other transfer completes meanwhile, `Accepted` that the status
    stage of an accepted request will be sent as DATA1 and not stalled and that of
    a refused one stalled, `ProgShape` which accesses a running handler has left,
    and `DefaultAddress` covers SET_ADDRESS(0) in the default state, which the
    firmware does not answer.
* `UsbReply_proofs`: what each branch of the SETUP handler leaves for the
  controller to be done, as a fact about the set of its register accesses
  (`Right`): the reply is of the right kind, armed with the toggle set and the
  status stage prepared, or the pipe is stalled. No theorem of its own.
* `UsbTransfer_proofs`, under `SetupBlocks` and without `AbandonsAddress`:
  `StatesAgree` (`StateAgreement`), `PipeIsReady` (`PipeReady`), `AnswersAreRight`
  (`RightAnswer`), `KeyboardStaysInSync` (`KeyboardInSync`), `ReportsAreFresh`
  (`NoStaleReport`). They speak of a device at rest; a handler half way through its
  register accesses satisfies none of them. The invariant `TransferInv` therefore
  speaks of what the device will do once the handler has run: it `WillStall` if a
  stall is still in the program, or the bit is set and the program does not
  clear it, and so on. A register access then changes nothing the invariant
  looks at (`WillKept`), only an entry of the handler, an event or a token does.
  Its conjuncts: when the host is in contact (`Contact`), how `deviceState` relates
  to what was acknowledged and to the request at hand (`SameState`), when a request
  is stalled (`Verdict`), that a handled one is answered (`Answered`), by a packet of
  its own (`Fitting`), that USB_configured_setup_ep does not take back the toggle of
  the status stage (`Order`), what the host has taken (`Taken`), and the keyboard
  endpoint through configuration and clearing of a halt (`KbdToggle`, `KbdReport`).
  `TransfersKept` is the induction. TLC has checked `TransferInv` on the instances
  of `usb_control` and `usb_session` and on one with two addresses and other
  requests.
* `ControlTransfer_proofs`: `ImplementsTransfer` (`IsControlTransfer`), under the same
  assumptions. Each branch stalls exactly what it refuses (`ReadsJudged`,
  `WritesJudged`), seen from `deviceState`; by `SameState` that is what the host
  expects (`ViewsAgree`), although during a repeated SET_ADDRESS or
  SET_CONFIGURATION the two differ; and the stall is there exactly while that
  request is at hand (`Judged`). Then each step of the host is one of
  `ControlTransfer`, and those of the device are none. A clearing of remote wakeup
  that the code refuses is one that `ControlTransfer` may refuse (`MayRefuse`).
* `Uart0_proofs`. `TypeCorrect`: counter and FIFO stay in range whoever preempts
  whom. `DeliversMessages` (`Delivered`): a step of an actor in its critical part
  is safe because no other one has run there unless `raced` says so
  (`NotPreempted`); `Progress` then says, for each access an actor is at, what the
  three variables hold and which bytes have been written. Column 8 keeps the
  counter: its bytes 1 to 3 are 0 while it counts a message down, by the
  arithmetic of `Digit` (`SmallDigits`, `StoreZero`), so only the bytes' origin can
  change, and `moved` says so. Messages shorter than `Byte` anywhere in the
  flash, any FIFO, any width of a byte. `KeepsSending` (`NotStalled`): while bytes
  are left and the interrupt is off, a sender that has not returned will switch it
  on, and the handler switches it off with nothing left unless a call came after
  it had looked (`StallInv`).

Only model-checked: liveness (`CallReturns`, `TransferEnds`, `KeysReachHost`,
`ColumnsRefreshed`, `ComesToRest`), which is out of the proof system's reach. Every
invariant and refinement that the passing runs check is proved, the USB ones
(all but types and `ListensToHost`) under assumptions on the constants that
section 5 explains.

## 5. Assumptions and limits

* The controller is external. `SetupBlocks`: while the SETUP flag is set it
  NAKs the control pipe. The firmware relies on it and doubts it (the TODO at
  usb.h:390); with `SetupBlocks = FALSE` a token between the SETUP and the
  handler picks up what an earlier transfer left armed, and the agreement
  properties of `usb_control` do not hold. Vendor drivers stop the control
  endpoints in software instead.
* `AbandonsAddress = FALSE` in the passing USB runs: a host does not give up
  SET_ADDRESS half way. `usb_address` shows what happens when it does.
* A host lets the device come to rest before SET_ADDRESS, and does not poll the
  keyboard while it reconfigures it or clears its halt.
* ATTR shows the latest bus event only, and the host suspends the bus and the
  cable is out only as `BusIdle` and `PullCable` say: a host does not suspend the
  bus in the middle of a control transfer.
* `ReportBehindKeys = TRUE` is what `src/firmware_c/memory.map:191-192` says of
  the build in the repository; `Uart0` takes 197-201 of the same map. The other
  rows of column 8 are variables that are never read, or written before they are.
  Likewise `USB_HID_IDLE_RATE` lies behind
  `USB_HID_PROTOCOL`, which `SetProtocol` uses.
* The data toggle of an OUT endpoint has no effect in this controller.
* The read through a NULL pointer returns the vector table (`VectorTable`).
* The build does not optimise, so each access to a global is one to memory
  (`Uart0`, the copy loop of `HidPipeline`).
* `HidPipeline` starts in the state after the first bus reset, which comes before
  any packet.

What the properties exempt, and so do not watch:

* a report withdrawn by reset or reconfiguration that is not sent again
  (`cancelled`), a send into which an event or a reset falls (`raced`), a report
  that column 8 makes look sent (`overlooked`): the first two are also what
  `Disturb` and `Withdraw` of `ReportLink` allow;
* a partial report that GET_REPORT fetches while TMR1 builds it;
* the requests that the handler neither answers nor refuses (`Unanswered`), after
  which the host waits: `TransferEnds` leaves them out;
* UART: a call between uart.h:40 and uart.h:41 (`masked`), whose message waits for
  the next one; what a wrapped counter reads; from where the bytes come that were
  left when column 8 was refreshed (`moved`).

Not modelled:

* transfers longer than one packet (usb.h:300-307 and 328-346), which no reply of
  the firmware is long enough for; endpoints 4 and 5, which no descriptor offers;
  requests for descriptors that do not exist, whose answer depends on what the
  linker put behind the tables;
* the receive branch of the UART handler and the functions nobody calls
  (`UART0_send_and_wait`, `print32HEX`, `print8shortHEX`);
* `EEEPROM.h`, `i2c.h`, `EEEPROM.c`: the call is commented out in main.c:88 and the
  code does not compile as it is;
* clock and pin configuration: straight register writes;
* time, other than through the fairness and `MaxPasses`;
* all the rest of the repository, which is vendored: CMSIS, Nuvoton drivers,
  compiler, libraries, IDE. The firmware itself is about 1600 lines, so the share
  of the repository these modules cover is small and stays so.

## 6. Plan

Done: all modules above, their runs and theorems. Left, in order of importance:

1. A composition of the report loop with `UsbControl`, in place of the argument
   about GET_REPORT in section 2.
2. The values in the replies of GET_STATUS(ENDPOINT) and GET_IDLE, as
   `ControlTransfer` has them for GET_CONFIGURATION.
3. What becomes of the theorems without `SetupBlocks`: which of the guarantees of
   the control pipe do not need it.
