# Verification of the OpenSmartMonitor firmware

TLA+ modules for the parts of this firmware (C, `src/src` and `src/include`;
paths below are relative to `src/src`, e.g. `core/ring.c`) whose correctness
depends on order, loss, failure or limits, the TLC configurations that check
them on small instances, and proofs of their main theorems for TLAPS.

`PROJECT.json` lists the same things for tools: components, runs, mutants, the
lines each definition models, hazards, findings and theorems.

## 1. The system

The firmware is a single main loop (`core/main.c`) on an STM32 (also an ESP32,
and a Linux simulator for tests).  A turn of the loop drains what the UART
interrupts have put in rings, lets the sensors and the modem look at their
lines, and calls `osm_measurements_loop_iteration`.  Concurrency comes from
interrupts (UART, DMA, ADC, GPIO, timers), from FreeRTOS tasks on the ESP32 and
a thread on Linux; and from the main loop calling itself
(`osm_main_loop_iterate_for`) while a command or a driver waits.

| component | state it keeps | interacts with | what is hard | what makes it correct |
|---|---|---|---|---|
| ring buffer, `core/ring.c` | `buf`, `r_pos`, `w_pos` | UARTs, CAN | loads and stores interleave; full and empty; wrap | a bounded FIFO whatever the interleaving; a full ring without a line end drains |
| UART rings, log, `core/uart_rings.c`, `log.c`, `ports/stm/uarts.c` | a ring a direction, DMA buffer, `log_buffer`, RS485 driver and its delays | everything that prints or talks | an interrupt that logs, the drain inside a command, the driver switched while a byte is shifted out | bytes leave once, in order and whole |
| Modbus master, `core/modbus.c` | `_message_queue`, the half read frame, timers, retransmit count, expected write | RS485, measurements, `mb_reg_set` | timeouts racing answers, half duplex, the nested main loop | an answer goes to its register; one request on the bus; a write reported done is done; the queue drains |
| Modbus devices and their measurements, `core/modbus_mem.c`, `modbus_measurements.c`, `measurements_mem.c`, `persist_*.c` | a pool of blocks in three kinds of list, the measurement table, both in flash | Modbus master, persistence | deleting what is queued; names that clash; power lost between two pages | lists stay sound; what there is, is measured; answers land in live registers; `save` saves |
| measurements, `core/measurements.c` | per measurement samples and sums; interval count, pending send, fragments | sensors, protocol, comms | fragments and acknowledgements, comms that go away, a schedule kept in two counters and a wrapping clock | every sample is taken and reported; acknowledgements reach what was sent; each interval counts once |
| pulse counter, `ports/stm/pulsecount.c` | `count`, `send_count` | measurements, pins | pulses counted while a report is on its way | no pulse is lost or delivered twice |
| pins, `core/io.c`, `io_watch.c`, `w1.c`, `pulsecount.c` | use and pull of each pin, EXTI and timer | measurements, commands | drivers that share an interrupt and switch it under each other | an interrupt has a handler; registers agree with the settings |
| analogue converter, `core/adcs.c`, `sensors/cc.c`, `ftma.c`, `bat.c` | the lock, the sequence, the active clamps | measurements, commands, sleep | three users, each in its own time, and nested commands | a reading is the channel's own; the lock has an owner; clamps are active as enabled |
| other sensors, `sensors/*.c` | a state machine each | measurements | late answers, samples cut off, an error in one step | a reading is of its own sample; what is powered is used |
| firmware update, `core/update.c`, `ports/stm/bootloader` | position, page buffer, flag, staged image | commands, modem, flash | power loss anywhere, repeated or lost chunks | what boots was accepted, and an accepted image gets to boot |
| modems, `comms/*.c` | a state machine each, timers | UART, measurements, commands | answers without names, late ones, sleeps inside handlers | one true answer a message; payloads do not mix; ready is real; it comes back |
| values and protocols, `core/modbus.c`, `protocols/*.c`, `cs_protocol.js` | the message buffer | measurements, comms, server | widths, signs and byte orders in four places | the server reads what was measured |
| commands, platform, models, CAN, ESP32, Linux, host tools | little or none | | see section 6 | |

## 2. The modules

A behaviour of an MC module that has several parts is of one part: those parts
share no state in the code, so that their product would say nothing more.

| module | models | composed and checked in | proved in |
|---|---|---|---|
| `ByteFifo` | the promise of a ring: a bounded FIFO of bytes | `Ring` implements it | |
| `Ring` | `ring.c`, each load and store of shared memory a step | run Ring; `MCUarts` | `UartsProofs` |
| `Uarts` | rings out, DMA, UART and RS485 driver, log | `MCUarts` | `UartsProofs` |
| `Modbus` | `modbus.c` with `_modbus_set_reg_cb` | `MCModbus` (three buses) | `ModbusProofs` |
| `Tables` | the pool of blocks, its lists, the commands on them (operators) | `TablesSystem` | `TablesProofs` |
| `TablesSystem` | commands, reads, answers, saves and restarts over `Tables` | `MCTables` | `TablesProofs` |
| `Measurements` | reporting, with the pulse counter | `MCMeasurements`, `MCReports` | `TablesProofs` |
| `Sampling` | the schedule of begin and collect | `MCSampling` | `SamplingProofs` |
| `Numbers` | integers of a width, truncation, bytes | `RegValues`, `Payload` | |
| `RegValues` | a value into and out of a Modbus frame | `Values` | |
| `Payload` | hexblob, jsonblob and the server's decoder | `Values` | |
| `Values` | a value's way from a register to the server | `MCReports` | |
| `Handlers` | what a handler is: code that may sleep in the main loop | the two modem systems | |
| `AtBase`, `AtWifi`, `AtPoe` | `at_base.c`, `at_wifi.c`, `at_poe.c` | `AtModem` | |
| `AtModem` | the driver against a modem, a broker and commands | `MCModems` | `ModemsProofs`, `ModemsIdleProofs` |
| `Lw`, `Rak3172`, `Rak4270` | `lw.c` and the two drivers | `LoraModem` | |
| `LoraModem` | the driver against a modem, a server and commands | `MCModems` | `ModemsProofs` |
| `Update` | staging, flag, boot loader, flash | `MCUpdate` | `ModemsProofs` |
| `Adcs`, `AdcSystem` | the converter, and clamps, 4-20 mA and battery on it | `MCSensing` | `SensingProofs` |
| `Sensors`, `SensorSystem` | six drivers, each against its chip | `MCSensing` | `SensingProofs` |
| `Pins`, `PinsSystem` | drivers of the pins, and commands, interrupts, resets, restarts | `MCPins` | `PinsProofs` |

What the modules of operators (`Tables`, `Pins`, `Adcs`, `Sensors`, `AtBase`,
`Lw`, ...) share is their form: a driver is a record, a function of the code is
an operator from record to record, and the `...System` module says who calls
what and when.

### Ring and ByteFifo

The variables are those of `osm_ring_buf_t` plus the locals of one addition
(`add_pc`, `add_c`, `add_w`) and of one reading operation (`pc`, `r`, `len`,
`c`, `got`).  A step is a load or store of something the other side sees, in the
order of the C code; `volatile` accesses are taken as sequentially consistent,
which holds for one core and for the x86 of the simulator.  `IsrAdd` says which
build it is: on the STM32 the addition is an interrupt, so the reader waits for
it to end; on the ESP32 and Linux it is a task and interleaves load by load.
`Contents`, the pending bytes from `r_pos`, is the refinement mapping; while
`clear` is between its two stores the queue is empty already.  `OverRead` (more
is read than is pending, as `osm_can_drain_array` does) is FALSE in the runs.

### Uarts

`kind` is the UART a behaviour is about: debug, RS485 or a modem's.  `main` is
the calls main is in, innermost last, so that an interrupt's log line inside
main's log call, and a drain inside a command, are behaviours.  `hw` is the
DMA, the data register and the shift register.  A blocking line is sent round
the ring; a full ring drops bytes and still reports the whole length, as the
code does.  `rs` is the RS485 driver with its start and stop delays.  The DMA
moves a byte in less time than a character takes, and a stop delay is longer
than the character in the shift register; neither is in the code, both are in
its constants.

`SentWhole` and `InOrder` name what breaks them: `rs485_transmit_stopping` is
still set for a frame queued in another's stop delay (`core/modbus.c:1030`), so
that the driver goes off with the last byte in the shift register; an interrupt
that logs (`core/uart_rings.c:88`) shares `log_buffer` with main.

### Modbus

The queue, the flags and counters have the names of the C statics.  Time is
what the code compares it with: `sent_old` (the response timeout has passed
since the request), `timing` (the frame timer), `gap` (the bus has been quiet
long enough).  A call of `osm_modbus_uart_ring_in_process` is one step of `Rx`,
one disjunct per branch.  Frames come in two parts, header and body, because
the code reads them so.  The slaves (`wire`, `tail`, `slave`) are the
environment: they answer in order, or not, or corruptly.  `mb_reg_set` is
`Write`, `WriteDone` and `WriteTimesOut` with the whole of `Rx` between them,
since it drains the UARTs while it waits.

### Tables and TablesSystem

Blocks of the pool are numbers; a device or register points to the next of its
list, as the code's offsets do.  A command is one step, for it does not sleep;
`Sample`, `SendHead`, the answer and the timeout come between commands, with
the pointers the queue has kept.  A save compares, erases both pages and writes
them one after the other; power may be lost in between.  The data page counts
as written whole.  What the model shows of the code and its properties name:
unit ids need not be unique; a new register takes over the name of a built-in
measurement; with the table full a register is not measured; deleting a queued
device leaves a pointer whose block may have become anything
(`core/modbus.c:870`); a register saved as WAITING recovers at the next sample.

### Measurements

`age` is the time since `_last_sent_ms` in the two thresholds the loop compares
it with.  A fragment ends at any measurement from the second on (`Ends`),
because the sizes and the data rate decide it.  `osm_protocol_send` hands a
message to comms (`flight`), which answers with `SentAck` or `SentNack`, goes
down, or says nothing.  `SendMessage` is called from the loop and, inside
`SentAck`, for the next fragment.  The pulse counter is part of the module
since its guarantee is about the pair.

### Sampling

Time is an integer; an interval is `T` and a measurement's definition says its
intervals, samples and collection time.  A turn of the loop samples every
measurement in order and works out the wait until the next.  The main loop may
be held up by `MaxLate`, once a fault; `Huge` stands for the 49 days of a
32-bit time that has passed.  A measurement is begun when
`num_samples_init` samples of the interval have been and its time has come, and
collected after its collection time.

Hard facts the properties name: `_measurements_send` starts the counters again
but not `is_collecting`, so that a send between begin and collection locks the
measurement for ever; a samplecount of 128 wraps a counter of seven bits; a
wait computed from a time that has passed is 49 days, and only another
measurement's shorter wait saves the loop (`SamplingGoesOn`), which has no such
help when a sensor without a collection time fails to begin or a send that was
put off is acknowledged later than an interval's first sample.

### Values

A byte has `Base` values, so that limits are small and every one is met.  A
register of each type is written with a value or read from a device, sampled,
put into a message of either protocol beside another measurement, and decoded
as `cs_protocol.js` does, with JavaScript's 32-bit operators.  `ServerSees`
names the values that arrive as something else: -128, an unsigned value past
2^31, 64-bit values, floats between -1 and 0 in JSON, texts past 8 characters,
and the single value behind an averaged header.

### AT modems

A handler that sleeps is a step of its own with the rest as its continuation
(`Handlers`); lines and commands come in between.  Answers carry no name.  The
modem is the one the simulator plays: it answers, late or not at all, fails a
command, or loses the broker.  Timers fire when the link is quiet, or at any
moment as the fault `late`.  `ComesBack` names the three PoE states without a
timeout (`Stuck`).  `ReadyIsReal` holds of lines lost and of commands failed,
not of both: a retry is sent before the question's OK is in, and takes it for
its own.  What a handler does that slept its 10 ms is no part of
`AnswerComesFirst`: no time passes in the model, so that a whole connection and
a message on it would fit into them.

### LoRaWAN modems

As above, with a server that sends a firmware in chunks, each of them twice,
and a network that loses some.  What the model shows: the RAK3172 driver drops
downlinks as short as `FW@`, so that an update by it is never completed
(`comms/rak3172.c:665`); a negative acknowledgement or a timeout while SEND_OK
is awaited is not passed on; on the RAK4270 `reload_config` sets the state to
OFF before the reset, so that the chip is reset only after a timeout; and the
acknowledgement of the "alive" message is passed on as one of a report.  Nor
does an acknowledgement say of which message it is: `AckIsDeserved` holds while
the driver has given up too early up to seven times, and with the eighth it is a
whole setup ahead of the modem and takes the last message's for this one's.
Its timeouts are 10 s and more, so that one early one is what the run has.

Of the RAK4270's time there is what its turns compare.  `last_message_time` is set
by every line written or heard (`comms/rak4270.c:256`, `:921`) and by nothing else,
so `silent` says that it is over 30 s ago; `resets` and `slow` are `reset_count` and
the quarter of an hour it leads to.  Powering the modem sets no time: a driver that
is `silent` when it powers the modem is overdue on its next turn (`Due`,
`Overdue`), which may come before the modem has booted (`ChipBoots`), and what it
then does is switch it off again.  Only a line heard ends that.  So it is after any
answer that was lost, and after a change of the settings 30 s after the last line
(`Pauses`).  `ComesBack` names that state (`UsableOrOverdue`), because the loop turns
every 50 ms and a modem takes longer to boot; without the exception the run finds
the modem powered off and on for ever.

### Update

Flash is three variables: `staged` (from `NEW_FW_ADDR`), `app` (from `FW_ADDR`)
and `flag`, the `pending_fw` of the configuration page.  A page that is being
written is a job (`writing`): erased first, then a word per step.  The same for
the configuration page (`saving`).  `PowerLoss` may come between any two steps
and leaves only flash.  While a job is under way nothing else happens, since
the code waits for flash; a chunk (`input`) is added byte by byte as both
`_fw_add` and the LoRaWAN handlers do.  `mode` says where the processor is: in
the boot loader (`boot`, `copy`, `start`), in the firmware (`run`) or in
`error_state`.

An image is accepted when what is staged is that image, i.e. the 16-bit CRC is
taken to tell images apart; that two images have the same CRC is outside the
model.  A word stands for the 8 bytes flash programs at once, and `Zero` and
`Erased` for the two values the page buffer is filled with.  `ready` (the last
image accepted) and `ran` (the last that ran) are history.

### Adcs and AdcSystem

`adc` is the lock (`key`, `inUse`), the sequence the converter goes round and
the samples it has put into memory; channels are names.  `open` is the readings
the sampling has begun, `nest` the commands and readings that wait in the main
loop, innermost last.  The converter runs on while `_adcs_in_use` is set and
the number of samples is not (fault `race`): what it then has is of the
sequence before.  Other faults: a command during a sample, calibration, a
blocking read, an interval set, the sleep of the processor, a conversion given
up, a sample cut off.

### Sensors and SensorSystem

One driver a behaviour, from `begin` to `collect`, with what its chip or its
UART delivers between, and the passes of the sampling over one or two of its
measurements.  A reading is "fresh" (of this sample) or old.  The exceptions in
the properties are what the drivers do: a failed transfer leaves HTU21D busy or
its old value valid; `hpm_use_ref` grows when both measurements are in use;
VEML7700 fails until an earlier reading is collected; an RS232 answer may be
that of an earlier prompt.

### Pins and PinsSystem

A pin has its use, its mode and the registers of its EXTI line and the debounce
timer.  A command is the list of steps its drivers take; interrupts come
between any two.  A fault names the command an edge falls into (or `restart`).
An edge while the line is masked is not kept.

A start is such a list too: the settings are loaded (`Load`), then each pin is set
up, then each watched one.  It goes on from the registers it finds, and there are
two kinds.  `Restart` (power, the watchdog, `scb_reset_system`) has reset them.
`ResetCommand` and `Wipe`, the commands `reset` and `wipe`, only jump to the
firmware's first instruction (`ports/stm/stm.c:224-234`): the memory is new,
EXTI, NVIC and timers are as they were, and interrupts are on; until
`osm_ios_init` has set `ios_state` the handlers look at the words at address 0
(`NoTable`).  `osm_ios_init` disables nothing, so a pin that listened and whose use
was not saved goes on listening (`faults.stale`, `LeftBehind`): no handler clears
its next edge, the interrupt is taken again and again, and main does not run until
the watchdog restarts the processor.  docs/commands.md says of `reset` that it
"just reboots the device".

`Handled` names what it cannot be true of: edges inside `en_w1` and `io`, which
take a pin's use away before its interrupt is disabled, edges inside a reset,
and the pins of `faults.stale`.  `SetUp` names the same pins, an edge inside a
reset, and the commands inside which an edge leaves a counter deaf: `pulse_dbnc`,
and with two counters `en_pulse` and the start, for the interrupt of one counter
looks at all of them.  Of all other pins it says that after a reset, too, the
registers are what the settings say, although nothing was cleared.

## 3. The runs

| run | module | properties | what it shows |
|---|---|---|---|
| `Ring` | `Ring` | `RingHolds`, `ImplementsFifo` | Every reading operation against an adding interrupt that runs to its end anywhere inside it (the STM32): positions, locals and bytes stay what they should be, and every step is one of a bounded FIFO. |
| `Uarts` | `MCUarts` | `InOrder`, `SentWhole`, `ComesOut` | The way out: a debug, an RS485 or a modem UART with a ring of four bytes, three lines, frames or strings, interrupts anywhere, and one of: an interrupt that logs, a blocking line, a dump, a frame in another's stop delay, mb_setup in a frame.  The way in: lines read from a ring to which a task or thread (ESP32, Linux) adds load by load. |
| `Modbus` | `MCModbus` | `AnswerIsOwn`, `OneOnTheBus`, `WriteIsDone`, `BusRests` | One of three buses: reads of two registers of one slave and one of another, with the queue filled beyond its end and answers lost or garbled; reads interleaved with the nested main loop of mb_reg_set, with frames cut; and one register, whose answers may also be later than the timeout, after which the bus comes to rest. |
| `Tables` | `MCTables` | `BlocksSound`, `AllMeasured`, `AnswersLand`, `WaitingEnds` | Four blocks and two measurement slots, three commands of any kind against the reads of the bus, with saves cut between the pages. |
| `Tables_save` (violation) | `MCTables` | `SaveSaves` | A register is deleted and added again with another address: save finds no difference and the flash keeps the old one. |
| `Measurements` | `MCMeasurements` | `NoPulseLost`, `AckIsExact`, `CountsOnce`, `AllArrives` | Four measurements on different intervals in any fragmentation: with comms that refuse, lose or fail messages no pulse is lost and every acknowledgement is of what was sent; with comms that deliver, every pulse arrives, once, and every reading is reported. |
| `Sampling` | `MCSampling` | `NotLocked`, `SamplesAreReported`, `SamplingGoesOn` | Pairs of measurements of one or two intervals, one to four samples, among them three that do not divide the interval, and various collection times, over any number of intervals, with one thing that goes wrong: each sample is begun, given its time, collected and reported. |
| `Reports` | `MCReports` | `WriteIsReported`, `ServerSees`, `SendEnds` | A register or reading of every type, at the limits of the types, written, sampled up to twice, put into a message of either protocol beside another and decoded by the server; and sends of four measurements that end, or are given up, however late, refusing or silent comms are, with instant reports and get_meas between them. |
| `Modems` | `MCModems` | `PayloadsStayApart`, `ReadyIsReal`, `ChunksInOrder`, `AnswersAreTrue`, `ComesBack` | A device with one of the four modems, configured or not.  WiFi, PoE: any two of an answer that is late, a line lost, a command failed, the broker gone, a command from the broker or the console.  LoRaWAN: a firmware of two chunks, each sent twice, comes down meanwhile, and any one of those, a burst of lost downlinks, a radio that fails, a full ring; the RAK4270's overdue timer fires while its modem boots. |
| `Update` | `MCUpdate` | `ReadyIsStaged`, `Recoverable`, `StartsKnown`, `NewIsRun` | Power is lost, and pages fail to be written, anywhere in a download, a commit or the boot loader's copy: what is flagged is complete, what starts is an image that was accepted, and a flagged image gets to run. |
| `Sensing` | `MCSensing` | `OwnReadings`, `Owned`, `SettingsAgree`, `SamplesEnd` | Three clamps (two of them measured), a 4-20 mA input and the battery on one converter, with up to two of: commands inside one another, intervals set, timeouts, sleeps, samples cut off, interrupts at the wrong time; or one of six other drivers, with one or both of its measurements and up to two of: a transfer that fails, a chip that is slow, packets spoilt, a sample cut off by the sending, get_meas at any time. |
| `Pins` | `MCPins` | `Handled`, `SetUp`, `GoesOn` | One pin given every command and a second counting or watched, with saves, reset, wipe, edges at rest, and one restart of the hardware or one edge inside a command, a start or a reset. |

Why the bounds are enough.

- *Ring*: four slots hold three bytes, so positions wrap inside one operation, a
  `readline` buffer is smaller or as large as the ring, and full and empty are
  both reached; two bytes tell a terminator from anything else.
- *Uarts*: a ring of four bytes, a DMA buffer of two and three writes fill the
  ring while the DMA has its first half and main is in the next message.
- *Modbus*: the code compares a register with the queue's head and its unit; two
  of one unit and one of another give every outcome, one and two words every
  outcome of the length check, three slots a head, a middle and a tail, two
  transmissions one that is retried and one that is the last.  Requests past
  `MaxWire` and parts past `MaxRing` are lost, as in a full UART.
- *Tables*: four blocks are a device and three registers, or two of each; two
  slots one built-in measurement and one of a register; three commands add,
  delete and add again.
- *Measurements*: four slots give fragments of one to four, with an off-interval
  slot inside; the cycle of six is a common multiple of the intervals; the
  pulses are as many as can be in three places (counted, in flight, delivered)
  and one more.
- *Sampling*: two measurements are one whose wait is computed and one whose wait
  saves or hides it; an interval of 16 holds four samples and their collection.
- *Reports*: with bytes of four values every type has its limits inside the
  values enumerated; two samples are an average; a message has room for one averaged measurement
  but not for every pair, so that some are refused.
- *Modems*: two faults for the AT modems, since one more retry is what confuses
  unnamed answers; one for LoRaWAN, where one fault may lose any number of downlinks that follow
  one another.  Two chunks, each sent twice, are the least that have an order: the
  second may come without the first, or the first again after the second.
- *Update*: two pages of two words hold an image that ends inside a page and one
  that fills the area; a page has a first, a middle and a last step to lose
  power between; a message carries one or two words, so it can cross a page,
  and `MaxChunks` of two repeats and skips one.
- *Sensing*: two clamps that are measured and one that is not, so that active,
  enabled and all differ; two commands, one inside the other.
- *Pins*: the pin a command is about and one it must leave alone, which counts or
  is watched.  One edge is counted at a time; `io` makes outputs only, for a pull
  or a direction is set by the same step.

Fairness.  The main loop never blocks, so every handler it calls is taken again
while it is enabled (weak fairness of the reader, of reception, of the loop and
of each measurement's turn); an addition once begun ends, the DMA and the UART
go on, time passes.  The environment's fairness is named where it is used: a
slave has answered or not by the timeout unless it is late, a modem answers or
gives up and connects again.  `Tables` assumes strong fairness of sampling,
which commands may put off but not for ever.  In `Update` the processor goes on
with the boot loader and with the page it writes; that a download goes on is
not assumed.

## 4. What may go wrong in a run

A run's `Faults` is what it allows.  Some pairs of fault and property do not
hold of the code; the runs leave these pairs out, and the theorems have them as
hypotheses (`Calm`):

- Modbus `gapread` breaks `AnswerIsOwn`: `osm_modbus_start_read` in the gap
  before the queue's head is sent transmits the new register at once although
  older ones are queued (`core/modbus.c:557`).  `late` with `overfill` too:
  "Restarting slots" (`:533-538`) keeps the half-read frame and its timer.
- Modbus `garble`: the bad-CRC path (`core/modbus.c:770-775`) counts nothing
  and leaves the head to be sent again.  `Echo` with writes breaks
  `WriteIsDone`: `osm_modbus_set_reg` sets no `_echo_bytes`, and the echo of a
  one-word write is its acknowledgement.
- Measurements `instant` breaks `AckIsExact`: the acknowledgement of an instant
  report calls `acked_cb` of whatever is due (`core/measurements.c:312`).
  `peek` breaks `NoPulseLost`: `get_meas` sets `send_count`
  (`ports/stm/pulsecount.c:446`).  `noread` after a refused report breaks it: a
  measurement without a reading is acknowledged with the message.  `slow`
  breaks `CountsOnce`: an interval is counted before it is known that the send
  starts (`core/measurements.c:1029`).
- Update `again` breaks `StartsKnown`: `osm_fw_ota_complete` takes position -1
  for one inside the first page (`core/update.c:107`).  `tear` does: `pending_fw`
  straddles two flash words (`persist_config_header.h:25`), and the boot loader
  copies past the area when only one of them is programmed.
- Ring `OverRead` breaks `RingHolds`: `core/ring.c:68` loads before `:69`
  compares.  `clear` against a task that adds is left out: its two stores are
  not atomic.

The other exceptions are inside the properties, with the reason beside them.  One disagreement with a comment is a run of its own: `Tables_save`
shows that the comparison before `save` compares the RAM with itself past the
first offset (`core/modbus_mem.c:599`).

## 5. The proofs

Each theorem holds for all values of the constants that its module's named
assumptions allow; none is hidden elsewhere.  All have the same form: an
invariant (`IInv`, `Inv`, `Base`, ...) that `Init` implies and every action of `Next`
preserves, a step an action, and the property from it.  The invariants were
runs of TLC before they were proved.

**UartsProofs**, the rings (all `BufSize`, `Byte`, `Eol`, `LineLen`, `Ops`;
`SafeUse`: no over-read, and `clear` only where additions are atomic).
`RingTypeCorrect`; `RingSafe`: `RingHolds`; `RingIsFifo`: `Fifo!FifoSpec`, each
step a put, take, look, skip, clear or stutter.  The type is not inductive
alone: the length bounds need that what has been copied is the oldest bytes,
and that in turn that the slot an addition writes is outside what the reader
copies.  The lemmas on `At`, `Dist` and `Inc` are modular arithmetic done once.

**UartsProofs**, the way out (all rings, buffers, kinds, messages, numbers of faults).
`UartsSendWhole` under every fault, `UartsKeepOrder` for those `InOrder` allows.
`Inv1` relates the DMA, the two registers of the UART and the driver's delays
(`HwInv`, `DriverInv`, `Driven`), and says which bytes of `main`'s calls are
still whole; `OrderInv` that what was sent with what is in the ring is what was
accepted.

**ModbusProofs** (all registers, units, lengths, slots, transmissions).
`ModbusTypes` for every fault; `OneRequestOnTheBus`, `ReadingIsOfItsRegister`
and `SuccessIsReal` as long as answers are in before the timeout, lost, cut or
corrupted; `EachIsTriedSoOften` without corrupted ones.  The invariant says what
the bus may carry in each phase of the reception (`Phases`), what its timers
then are (`Times`), and whose answer the part received is (`Meant`, `Written`).

**TablesProofs**, the tables (any number of blocks and slots, names, commands, faults).
`TablesBlocksSound`, `TablesAnswersLand`, `TablesAllMeasured`.  Three invariants,
each on the ones before.  `Base` has the types, and that the blocks, in RAM and
in the flash, are a pool (`Pool`): there are sequences, each injective and linked
by its blocks' `next`, that are the free list, the devices and the registers of
each device, and they share no block and leave none out.  That a walk along
`next` returns just that sequence is an induction on the number of blocks it has
still to go (`Induction`, made of the well-founded minimum over a set of
numbers, as in SensingProofs); each operation of `modbus_mem.c` is then a change
of one or two of the sequences.  `Landing` says that what is queued are
registers, that the request on the bus is that of the queue's first, and that a
READY register holds the answer to its own request, in RAM and in the flash,
until something is deleted while it is queued.  `Agreed` says of both
pages which names are taken and by what (`Covers`, `Stays`, `UnitsDiffer`,
`NamesDiffer`), each until the fault that breaks it was had: the page in the
flash may come back at any restart.

**TablesProofs**, the reports (all numbers of slots, intervals, pulses).
`MeasurementsTypeCorrect` for every fault; it needs that a message is in flight
exactly when comms is busy.  `AcksAreExact`, `PulsesKept`, `PendingIsWithComms`
and `IntervalsCountOnce` under `Calm`.  The invariant says how the chunk
positions, the interval count and the message in flight stand to each other
(`CountsInv`), and that what is in flight is what `send_count` takes off
(`KeptInv`).

**SamplingProofs** (all `T`, numbers of measurements, counters, and tables with
intervals of one or two).  `SamplingIsNotLocked` and `SamplingIsReported`, with
sensors that fail or are busy and connections that are lost.  The invariant
keeps the two counters in step with the time (`InStep`, `InTime`): the lemma
about one measurement is that the wait worked out by a pass never goes past
the measurement's next begin or collection, from which the six outcomes of a
pass follow.

**ModemsProofs**, the modems (any numbers of lines, commands, sleeping handlers
and faults, and all kinds of them).  `ModemsTakeChunksInOrder`: of the LoRaWAN
drivers' state the chunks taken in and the next one are an invariant of their
own (`Taking`), which each handler leaves alone or adds one chunk to.
`ModemsPayloadsStayApart`: what the modem has still to read, with what it has
taken but not answered (`Waiting`), never has a payload behind the announcement
of another (`Fit`), and a driver that waits to send its payload has nothing
behind its own (`Queue`).  A retry may repeat an announcement, so the driver has
to remember the right one (`Knows`).  Each handler is shown to keep both for any
queue in front of what it sends (`Keeps`).  `ModemsAnswerFirst`: the half of
`AnswersAreTrue` that is about WiFi and PoE, from those and from `AllTold`: no
handler leaves an acknowledgement untold, and only the WiFi driver scans.
`ModemsConnectedHasJoined`: what `ReadyIsReal` says of LoRaWAN beside the types,
for both drivers and any number of lost lines, failed joins and messages and full
rings.  At most one question to the modem is open, to join or to send: it is the
last of the commands, or on the air, or its answer is the one line that closes it
(`Single`).  The state of the driver tells which it is, a modem that is to say
that it has joined has, and behind a driver in any other state nothing is open
(`Fine`); each handler leads from a line heard to such a state again (`Leads`).

**ModemsProofs**, the flash (any page size, number of pages, images and chunks).
`UpdateTypes` for every fault; `UpdateIsReady`, `UpdateRecovers` and
`UpdateStartsKnown` under `Calm`.  The invariant says the same of `pending` in
RAM as of the flag, since any later commit writes it; that a configuration page
is written with no flag or with that one; and that the staged image is written
only while nothing is flagged, the one that runs only while something is.  It
holds no fact about positions and pages: a page that went to the wrong place is
found by the CRC or by the boot loader's comparison.

**PinsProofs** (any pins, table, commands, saves, resets and faults).
`PinsHandled`, `PinsSetUp`.  The invariant has, for each list of steps a command or
a start may have left, what the registers of its pin are there and that the other
pins are at rest, or, at a start, as the reset found them (`Stages`); that a pin
without a handler has no interrupt waiting (`Still`); and it bounds counts with
edges that are pending (`Bounded`).  All but the bounds end with an edge inside a
reset, as the properties do.

**ModemsIdleProofs** (the same numbers).  `ModemsIdleIsSubscribed`: what
`ReadyIsReal` says of WiFi and PoE beside the types, with as many lost lines as you
like, or as many failed commands, but not both.  The device goes from boot to
subscription in stretches (`Stretch`), each of which says what the driver, its
sleeping handlers, the modem and the two lines between them may be at the same
time; every handler is shown to lead from its stretch to that stretch or the next.

**SensingProofs** (any clamps, inputs, chips with one or two measurements,
numbers of faults, and all kinds of them).  `SensingReadsOwn`, `SensingOwned`,
`SensingSettingsAgree`.  A behaviour has one part, so `SensingInv` is an
invariant of each.  The converter's (`AdcInv`) is a list of parts, each under
its own set of faults: a conversion that has ended holds one sample of each of
its channels (`PureP`), a command that waits for clamps has them for itself
(`AloneP`), the clamps that are measured are active and will be after any
command (`MeasuredP`), what is claimed has a sample or a call that releases it
(`HeldP`), and the active clamps are those (`ActiveP`).  That `Ordered` keeps
each clamp once needs an induction, made of the library's well-founded minimum
over a set of numbers.  The chips' (`ChipInv`) has a case for each driver: what
it has begun stands in its flags, its time and its line as the samples and the
command do in `sample` and `cmd`.  Humidity and temperature need more than the
others: that the two are begun and collected together (`Even`) and in which
order they are requested from the chip (`HtuRight`).

Model-checked only:

- every liveness property (`ComesOut`, `BusRests`, `WaitingEnds`, `AllArrives`,
  `SamplingGoesOn`, `SendEnds`, `ComesBack`, `NewIsRun`, `SamplesEnd`,
  `GoesOn`): fairness and ENABLED are out of the prover's reach;
- `WriteIsReported`, `ServerSees`: the encodings are recursive over bytes and
  members, and what they hold is a finite table of limits, enumerated;
- of `ReadyIsReal`, the types of the modems' states;
- the LoRaWAN half of `AnswersAreTrue`, which holds only up to some number of
  early timeouts (section 2, LoRaWAN modems).

## 6. Not modelled

Formatting, wording and logging; the register-level drivers; the byte orders
and the CRC itself in a frame (it is intact or not); the sound meter of
`ports/stm/sai.c`, which is signal processing; the host tools; the tables of the
boards; the ESP32 port with `esp_comms.c` and `protocol/comms.c`, which no model
of a board uses; CAN, whose messages nothing uses yet; the Linux simulator but
for its thread that adds to a ring.  Conversions of sensors to units.  In
`measurements.c`: renaming, the power mode, a protocol that fails to begin a
message (`core/measurements.c:93`).  In `uart_rings.c`: a UART whose ring is one byte
long (`core/uart_rings.c:102`), which no board has.  `PROJECT.json` has the reason
beside each component.
