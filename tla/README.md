# Formal models of the outdoor platform (STM32F407 sensor hub + MP157 runtime)

The system is two programs joined by a serial line:

- the **sensor hub**, a bare-metal C program on an STM32F407 (`src/f407/sensor-hub/firmware`): one
  superloop that reads three sensors on one I2C bus and publishes binary frames, and interrupt handlers
  for two UARTs and one GPIO line;
- **outdoor-core-service**, a single-threaded C++ process on the MP157 Linux board
  (`src/mp157/outdoor-core-service`): a cooperative scheduler that polls services (GNSS, MCU serial,
  board IMU, dashboard, status socket), computes a compass heading, records history and publishes a
  status file.

This directory holds TLA+ modules of the parts of it where order, interleaving and failure decide, TLC
configurations that check them on small instances, and TLAPS proofs of their safety properties for every
value of the constants. In the paths below `FW` is `src/f407/sensor-hub/firmware` and `MP` is `src/mp157/outdoor-core-service/src`.

## 1. Inventory

| Component | State it keeps | Operations | Talks to | Hard behaviour | What makes it correct |
|---|---|---|---|---|---|
| UART TX channel (`FW/bsp/uart_tx_queue_c.c`, `FW/bsp/stm32/board_uart_stm32.c`), one for UART4, one for USART1 | byte ring, head, tail, `active_length`, drop count; HAL transfer state | enqueue frame, kick, completion callback | app loop → ring → HAL → line | lock-free sharing with the interrupt; lost wake-up; wrap; full ring | accepted bytes leave in order, once each; frames whole or not at all; nothing stranded |
| UART4 RX (same file, HAL interrupt code) | 64-byte ring, drop count, HAL receive state | receive and error callbacks, `board_uart_receive_byte` | line → HAL → ring → app loop | overrun during the interrupt, two callbacks in one interrupt, full ring | order, every loss counted, receiver always armed again |
| App loop (`FW/app/sensor_hub_app.c`) | timers, status bits, failure count, filter source, sequence number | init, poll (heartbeat, FIFO read, event timeout, re-initialisation, Mock fallback, magnetometer, barometer, commands) | all drivers, both UARTs | wrapping 32-bit timers, blocking re-initialisation, five writers of the status bits | coherent status, no silence, bounded recovery |
| IMU timeline (`icm42688_fifo_parser_c.c`, `imu_timestamp_normalizer_c.c`) | last published timestamp | stamp a batch backwards, shift it behind the last one | app loop | overlap of batches, source change, wrap | continuous timestamps, distances kept, agreement with the clock |
| ICM42688 / MMC5603 / BMP390 providers | address, initialised flag, counters | init, read | board I2C | side effects of FIFO reads, late measurements | FIFO realigned after every failure |
| Board I2C (`board_i2c_stm32.c`) | failure flag, counters, last failure | read, non-replayable read, write, each with a bus recovery | HAL | replay after recovery | nothing with a side effect replayed; the flag is about the last transaction |
| Wire protocol (hub side) | decoder buffer, sequence | feed byte, build frames | RX ring, TX channels | resynchronisation | a valid frame behind garbage is found, a CRC vouches for every byte of it |
| MCU serial service (MP157) | port, decoder buffer, command progress, deadline | start, poll, stop | UART4, `McuStatus` | partial writes, deadline, late ack | bounded capture, ack belongs to the ping |
| Compass (`MP/main.cpp`, `MP/navigation`) | none of its own; reads `McuStatus` | `updateCompassStatus`, `estimate` | MCU serial service | samples newer than the status bits that vouch for them | a heading comes from real samples |
| Runtime manager and `main()` | service lists, counters, state, error | start, run, stop, loop callback | every service, history, status file | failure in the middle of start or of a round, signals | everything started is stopped; the last status is true |
| Status file publisher | target and temporary file | publish | readers by name | crash between calls, full disk | readers find a whole text |
| Unix status service / client | up to a fixed number of client connections, socket path | start, poll, stop / query | runtime manager, other processes | slow clients, two processes and one path | silent clients are closed, an active socket is not taken over |
| Logger, history recorder | open files, sizes, last recorded keys | write, rotate / record, flush | file system | failure half-way | no record lost silently |
| GNSS services, NMEA | line buffer, counters | poll, parse | UART5 or file | over-long lines | resynchronisation at a line end |
| Local agent, dashboard, launcher | request and display state | process / render | status client, backend | untrusted backend | no action outside the whitelist |
| Configuration, mocks, replay, tools, scripts | – | batch | – | – | – |

`PROJECT.json` lists every component with its status, and under `hazards` each point of the code that is
hard to test, with its line and the property that covers it or the reason why none does yet.

## 2. Modules

| Module | Models | State ↔ code | Actions ↔ code |
|---|---|---|---|
| `UartTxChannel` | one transmit channel | `storage/head/tail` = `uart_tx_queue_c_t`; `activeLength`, `droppedFrames`; `gState/txPtr/txCount` = the HAL handle; `pc/length/copied/peeked` = the main loop inside `enqueue_tx_frame` and `kick_tx_channel` | one action per statement of the main loop (`CheckFree` … `KickTransmit`), `TransmitByte` and `TransmitComplete` for the interrupt |
| `FrameFifo` | what a channel promises: a bounded FIFO of whole frames | – | abstract; `UartTxChannel` maps onto it (`Fifo`) |
| `UartRxRing` | UART4 reception | `dr/rxne/ore/fe` = data register and flags (`fe`: framing or noise error); `rxState/rxIrq` = HAL; `buffer/rxHead/rxTail/dropCount` = `g_uart4_rx_*` | `LineByte` (hardware), `IsrEnter/IsrReceive/ErrorCallback`, `CheckEmpty/ReadSlot/AdvanceTail` |
| `SensorHubApp` | the superloop | `hub` = the statics of `sensor_hub_app.c` and the drivers' `initialized`; a timer is kept as its age modulo `TickModulus`; `sensor` = the bus and the ICM42688 | `Poll` composes one operator per stage in the order of `sensor_hub_app_poll`; `BusChanges` is the world |
| `CompassGate` | hub + line + MP157 compass gate (extends `SensorHubApp`) | `link` = frames on the way, `mcu` = the fields of `McuStatus` the gate reads | `HubPoll`, which may lose frames at the queue, `ApplyFrame`, `LoseFrame`, `BusFault` |
| `ImuTimeline` | IMU timestamps | `last/initialized` = the normalizer | `FifoBatch`, `MockSample` |
| `RuntimeManager` | scheduler and process life | the private fields of `RuntimeManager`, `shutdownRequested`, whether the history is open, the last published state | `start`, `run`, `stop` and `main()` one call at a time; any of them may fail |
| `Icm42688Fifo` | the read path of the IMU, from the FIFO of the sensor to the published batch | `sensor` = bus, signal and FIFO (external); `event` = the two event counters of the GPIO driver; `loop` = place in `sensor_hub_app_poll`, its timers, the provider; `i2c` = attempt and `g_i2c_transaction_failure_active` | `Step` = one transaction or decision of poll and provider, each with its bus recovery; `Tick` = the sensor takes a sample between any two of them; `WorldChanges` = the bus and the signal |
| `FrameDecoders` | both stream decoders as functions of what they are fed | – | `Fed` = `mcu_command_decoder_feed_byte` on one byte, `HubBuffer` over a stream, `Decoded` = `McuFrameStreamDecoder::feed` on a chunk |
| `CommandLink` | ping and acknowledgement over the line (extends `FrameDecoders`) | `svc` = `McuSerialService`; `hubBuf` = the decoder of the hub; `down`, `up` = the line and the queue of the hub | `Start`, `PollWith`, `Dies`; `HubReceives`; loss and change on the line, the passing of time |
| `StatusSocket` | the socket path and the life of the process that serves it | who is bound to the path and listens; the process | `start()` with its probe, `stop()`, crash, one system call each |
| `UnixStatusService` | status service with `query()` (instantiates `StatusSocket`) | `backlog`, `conn` = both ends of each connection, `poll` = place in `poll()` | accepting, receiving, sending and closing one client; `query()` call by call; other clients that do as they like |
| `Storage` | a storage that fails until its faults end | `faulty` | `FaultsEnd` |
| `StatusFile` | replacing the status file | the temporary file and the file readers open | one operator per file-system call |
| `LogFile` | `Logger::write` with the rotation | active file, backups, size, stream state, failure counters | one action per file operation |
| `RuntimeFiles` | status file and log of one process on one storage (extends both) | `says` = whether a text tells of lost lines; `warn` = the warning about a failed publication | `PublishCall`, `LogCall`, `KillAndRestart`, `StorageRecovers` |
| `HistoryFile` | `HistoryRecorder` with its callers in `main()` | last keys, buffered rows, stream state; what of a file matters: its first and last item | `StartRecorder`, `Record` and `LoopCallback`, `Flush`, `StopRecorder`, `Killed` |
| `MC*` | instances for TLC | – | – |
| `UartTxChannelProofs`, `RuntimeManagerProofs`, `Icm42688FifoProofs`, `ImuTimelineProofs`, `UnixStatusServiceProofs` | inductive invariants and theorems of the module they are named after | – | – |
| `CommandPathProofs` | the same for the way of a command: `UartRxRing`, `FrameDecoders` and `CommandLink` | – | – |
| `SensorHubProofs` | the same for `SensorHubApp` and `CompassGate` | – | – |
| `StorageProofs` | the same for `LogFile` as `RuntimeFiles` composes it, and for `HistoryFile` | – | – |

An operator whose comment starts with `Fault:` is a variant of the definition behind it with a plausible
bug; no specification uses it. `PROJECT.json` (`mutants`) says which property finds it.

### What the models abstract, and why it is sound for the properties

- **A byte is its position** in the accepted stream or on the line, so loss, repetition, reordering and
  overwriting are all visible.
- **The UART interrupt is atomic towards the main loop** (it preempts, never the other way round; both
  UART interrupts have priority 5, so neither preempts the other). The receive interrupt is split all the
  same where it reads the hardware, because the line does not stop. The transmit interrupt reads no state
  another actor can change while it runs.
- **Two indices read one after the other act as one read**, because each reader owns one of them.
- **Whether reading DR clears an overrun raised after the read of SR** is left open (both are explored).
- **Framing and noise errors** are one flag: both come with a byte, which is received, and lead into the
  error callback without `ORE`. Parity is off.
- **One poll of the hub is one action**: its only concurrency is with interrupts, which reach it through
  the event counter and the UARTs, and those are inputs here. The three overflow bits are copies of
  counters and are left out. `process_uart_commands` shares only the sequence number and the TX channel
  with the other stages and is modelled in `CommandLink`.
- **The failure counter stops at its threshold**: the code compares it with that only.
- **A batch of real samples is one frame** in `CompassGate`: nothing distinguishes them there.
- **The environment of the hub** (`Events`, `FifoResults`, `Faults`, `InitResults`, `AuxResults`,
  `ConfiguredAfterInit`) answers per condition of the bus: a flaky one any result, a dead one failures. On a
  good one INT1 pulses within `PulseTime`, sooner or later, and a poll that comes too early consumes the pulse;
  the FIFO overflows where more than `BatchTime` has passed since it was emptied, which a long pass of the loop
  is enough for; and the parser may refuse any batch for a value at the end of its range (`INT16_MIN`). A sensor
  that lost power lost its configuration and sends no events. *Healthy* means a good bus, passes of at most
  `PromptStep` and no refused batch: `RecoveryBound` and `HealthyStaysReady` are about that, because three refusals or
  overflows in a row do give up a sensor on a good bus.
- **The link loses frames** in `CompassGate`: any frame of a poll at the hub's full queue, any frame on the line
  for its CRC.
- **A service, the loop callback and the history are one call each** that succeeds, completes or fails.
  The flush in `HistoryRecorder::stop()` may fail in `Exit`, where nothing asks.
  A service whose `start()` throws is not modelled: nothing in the code catches it.
- In `RuntimeManager` a publication is an event; what it does to the file, and that it may fail, is
  `RuntimeFiles`.
- **FIFO records are not numbered** in `Icm42688Fifo`: they leave from the old end only. What can go wrong
  is that one is lost or that reading starts inside one, and both are kept. The register writes of an
  initialisation are one step that fails before or behind the reset of the device. The parser may refuse any burst of
  whole records, and outside a good world any pulse of INT1 may be missed.
- **A byte on the serial line keeps its place in the frame it was sent in.** A CRC holds exactly for the
  bytes of one whole frame; a CRC that holds by chance (1 in 65 536) is left out. The value of a byte is what
  the decoders compare with: start bytes, a size, a size too large.
- **Acknowledgements travel whole**: `DecodersResynchronize` checks the decoder of the MP157 by itself.
- **A request to the status socket is counted in pieces, an answer in chunks.** The clock of the deadlines ticks
  at any time, in the middle of a pass as well; `recv()` and `send()` may fail with the client present. `ClientDelay` and
  `PassDelay` only mark who took longer (`stalled`), they hold nobody up. A probe of the path closes behind its `connect()`.
- **One process at a time has the socket path** in `UnixStatusService`. `stop()` closes its listener before
  it removes the path by name; what that means for a second process is under *Known limits*.
- **Log lines have one length and are known by their age**, history rows by the key the recorder tells them
  apart by: two samples with one key are one sample to it.
- **A stream that buffers** may have written any part of its buffer when the process dies, the last row
  perhaps cut off.

## 3. Runs

| Run | Configuration | Checks | Shows |
|---|---|---|---|
| `uart_tx` | ring of 4, frames of 1–3, 9 bytes, 2 drops | `WireIsAcceptedPrefix`, `ActiveMatchesHal`, `NoStrandedBytes`, `ImplementsFrameFifo` | the lock-free channel is safe wherever the interrupt lands, implements the FIFO of whole frames, and delivers |
| `uart_rx` | ring of 3, 6 bytes | `ReceivedInOrder`, `NeverDeaf`, `LossIsCounted`, `Drained` | every error path re-arms; every loss is counted but for two bytes an overrun and one a framing or noise error |
| `sensor_hub` | diagnostic image, threshold 3, tick modulo 10, steps of 1–3 of which 1 is prompt, pulses of INT1 within 2, batches of 3 ticks | `FramesMatchStatus`, `Int1BitIsFresh`, `ImuNeverSilent`, `RecoveryBound`, `HealthyStaysReady` | source selection over every bus history and phase of the tick |
| `compass_gate` | production image with three sensors, shortest periods, heartbeat 2, tick modulo 3, a link emptied between polls, frames lost at either end, MP157 | `StatusCoherent`, `MockHeadingEnds` | the bits of all three sensors stay coherent; a heading from Mock data ends with the next heartbeat that arrives |
| `imu_timeline` | tick modulo 24, period 2, up to 3 packets, gaps up to 8 | `Continuous`, `SpacingKeptAwayFromWrap` | timestamps never run back and never leave a hole |
| `imu_timeline_uptime` | same | `TimestampIsUptime` **violated** | the finding of section 4 |
| `runtime_manager` | 3 services | `EndsClean`, `StatusIsTrue`, `StopHonoured` | clean end after any failure or signal; the status tells of every failure up to the stop of the last service |
| `imu_fifo` | watermark 3, batch 8, device 9, prompt passes of up to 3 samples, failing transactions, missed pulses, refused bursts | `LossNeedsDisturbance`, `MisalignedOnlyByLostFlush`, `GapsAreCounted`, `SamplesReturn` | a prompt loop on a good bus loses only what the parser refuses; a hole is counted, or Mock samples stand in it, before the next batch; samples come back with bus and signal |
| `command_link` | payload up to 4, 5 bytes and 2 acknowledgements under way, 3 bytes of noise, 1 fault | `DecodersResynchronize`, `PingNeverLost`, `AckProvesPing`, `CaptureEnds`, `PingAnswered` | no rubbish hides a frame for longer than its own length; a ping written in pieces stays whole; an acknowledgement on a fresh line is for this ping, and one only; the capture ends; a ping on a clean line is answered |
| `status_service` | a query, a careless client and probes on 2 slots, answers of 3 chunks through a socket of 1, timeout 2, client delay 0, pass delay 1 | `AnswersAreWhole`, `SlotsAreFreed`, `PoliteAnswered`, `RestartNotRefused` | nobody keeps a slot; a query in time is answered whole unless a call fails; a leftover path refuses no restart |
| `runtime_files` | 2 texts, log of 2 lines with 2 backups | `NewestLinesKept`, `SizeLimited`, `PublishedIsCurrent`, `Recovers`, `LossIsReported` | whatever fails, only the oldest lines go, the log keeps its size, no leftover is published, a whole text does not hide a loss, a loss is in the end reported, and publication recovers |
| `history_file` | 2 streams, 3 keys, buffers of 3 | `RowsOnceInOrder`, `HeaderFirst` | of a recorder that goes on each sample is one row, in order, and no error was passed over; the header is first |

No run checks a type invariant. `TypeOK` is a theorem of `UartTxChannel`, `UartRxRing`, `CommandLink` (where
it is called `LinkTypeOK`), `RuntimeManager`, `Icm42688Fifo`, `ImuTimeline` and `UnixStatusService`; in the
others it documents the types. An `INVARIANT TypeOK` added to any configuration holds, and so does
`INVARIANT RingHoldsStream` added to `UartTx.cfg`. `StatusCoherent` is checked in `compass_gate` with all three sensors.

### Bounds and why they are enough

- *Transmit ring of 4*: frames of 1, 2 and 3 bytes start at every offset, exactly fill the ring, wrap in
  the copy and wrap in the transfer (two transfers for one frame); 9 bytes go round more than twice, which
  reaches every relative position of head, tail and transfer. The theorems of section 5 remove the bound,
  here and for every safety property below.
- *Receive ring of 3, 6 bytes*: full, dropped-into, wrapped twice; overruns and spoilt bytes in
  every phase of an interrupt.
- *Hub ticks*: only the order of the periods matters to the code (fallback < FIFO < event timeout <
  re-initialisation), and it is kept. `TickModulus` is above every period, as 2^32 is, and small, so that a
  timer that is not restarted for a while wraps and looks fresh: in the code that takes 49.7 days, in the
  model a few polls. Steps of up to 3 ticks and a re-initialisation of 0 or 1 make a timer overshoot; a step of 1
  is prompt (`PromptStep`), the others are passes after which the FIFO may have overflowed (`BatchTime` 3).
  `RecoveryTime` 14 was found by lowering it until the run fails, and is exactly the bound `RecoveryCorrect`
  proves: event timeout, re-initialisation period, FIFO period, the prompt passes of the loop that overshoot the
  first two, one blocking initialisation, and the time to the next pulse where the last one before the FIFO period was
  consumed. `HubAssumption` demands that a period, a pass and an initialisation fit the tick (10 ms to 1 s against
  49.7 days), that Mock samples are due at least as often as the event timeout (10 ms against 250 ms), and that a
  batch holds what comes between two reads of a prompt loop: FIFO period, one pulse and one pass (30 ms, 40 ms for a
  watermark of 4 records, and the pass, against the 160 ms of 16 records).
- *`compass_gate`* uses the shortest periods and a threshold of 1: `sensor_hub` covers the counting, this
  run the other two sensors and the link. The heartbeat is rarer than
  the fallback, as in the code, which is what matters there. The link takes the frames of a poll
  when it is empty, in any number that is lost at the queue or on the line; `MockHeadingCorrect` holds for any backlog.
- *Timeline*: gaps up to more than one batch, every phase of a 24-value tick, all three packet kinds.
- *Three services* have a first, a middle and a last one, so a failure with services before and behind it.
- *IMU FIFO*: the order of the code's numbers is kept (minimum period < watermark < batch < device, event
  timeout above all). `FifoAssumption` demands `Watermark - 1 + 2 * MaxLag <= BatchCapacity`: at most
  `Watermark - 1` records wait without an event, one pass of the loop may miss the event, and the next one
  reads. With 3 and 16 in the code a pass may take six samples, 60 ms; `LossNeedsDisturbance` holds below
  that and a mutant with a smaller batch breaks it. The timeout of 250 ms, 25 samples, is longer than a batch
  of 16 and than two watermarks of 4; without that a regular stream could time out. A FIFO
  of 9 overflows within one recovery.
- *Serial link*: a payload limit of 4 makes the largest frame longer than two pings, so that a corrupted
  size swallows more than one; the line holds a whole ping. `DecodersResynchronize` feeds every rubbish up to
  a bound before every frame, in every division into chunks. One fault is lost or changed byte or a death in
  the middle of a ping; the noise at the start is free of that bound. A
  process that dies with four of the five bytes of its ping written lets the first byte of the next ping complete
  a frame in the hub, which the CRC must refuse (`AckProvesPing`). The theorems hold for any payload limit, noise, capacity and number of faults.
- *Two slots and three clients*: full with a client waiting. One accept per poll makes the limit bite, three
  chunks through a socket of one make an answer partial twice. The timeout of 2 is the least above a client delay of 0 and a
  pass delay of 1, the bound the proof needs: with 1 `AnswersAreWhole` fails. In the code five seconds stand against
  the passes of a loop that sleeps for 5 ms.
- *Status text and log*: two texts tell the new one from the old one. Two lines a file and two backups have
  a first, a middle and a last file in the shift; three lines are what a file grows to when a rotation is given
  up. The same run with three backups also passes (in about two minutes).
- *History*: two streams fail at different times; three keys in a circle tell the next row from the same one
  and from a skipped one; a buffer of three holds the header and two rows.

`CHECK_DEADLOCK FALSE` appears in `RuntimeManager.cfg` only: that process ends for good, the others are started again or never stop.

### Fairness

- `UartTxChannel!FairSpec`: weak fairness of the main loop (`main()` polls for ever) and of the interrupt
  (the line drains at its baud rate, and the NVIC delivers what is enabled).
- `UartRxRing!Spec`: the same two; the line itself owes nothing.
- `RuntimeManager!Spec`: weak fairness of the thread: the calls are non-blocking and return. No fairness is
  assumed of signals, nor of a service completing.
- `Icm42688Fifo!Spec`: weak fairness of the loop and of the sensor's clock, and strong fairness of the
  re-initialisation, whose period elapses again and again while it is due only between other work. Nothing is
  assumed of the bus: `SamplesReturn` says what follows when it stays good.
- `CommandLink!LinkSpec`: weak fairness of the poll of the service (with no heartbeat coming), of the hub's
  reading and of time. None for the hub's own frames, the line's bytes or the start of a process.
- `UnixStatusService!Spec`: weak fairness of the service, of the clock and of each polite client, which runs
  `query()` to its end. None of them is assumed to be quick. The other clients owe nothing.
- `RuntimeFiles!FilesSpec`: strong fairness of the publication, which the loop callback runs once a second
  however much is logged in between, weak fairness of the logger while one of its calls is unfinished. None for
  the end of the faults: `Recovers` and `LossIsReported` say what follows if they end.
- `SensorHubApp` needs none: what must eventually happen there is stated with a bound in true time
  (`ImuNeverSilent`, `RecoveryBound`), which is stronger.

## 4. Findings

**The IMU timeline leaves the clock** (`imu_timeline_uptime`). The normalizer anchors each batch to the last
published sample and never to the tick. Samples lost in failed reads, Mock samples sent later than every
10 ms, and a sensor that does not run at exactly 100 Hz (ADR-0016 measured 101.43 Hz) move it away for good,
and beyond 250 ms the compass rejects fresh samples as too far apart.

### Known limits

What the code does at its edges, seen while modelling. Where a property holds with an exception, the
exception is one of these and is stated in the property.

*Sensor hub*

- The compass gate judges a sample by the status bits of the last heartbeat, so a Mock sample published right
  behind one yields headings until the next (ADR-0022 rules Mock headings out). A heartbeat that is lost, at a full
  queue or for its CRC, prolongs them to the one behind it: `main.cpp:795-805` has no timeout for heartbeats.
  `MockHeadingEnds` is the guarantee that holds.
- A framing or noise error makes `HAL_UART_ErrorCallback` read DR again: a good byte that came meanwhile is thrown
  away and counted nowhere. `LossIsCounted` bounds it by one byte for each spoilt one.
- One value at the end of its range (`INT16_MIN`) makes the parser refuse the whole batch, on a bus without any
  fault; three in a row give the sensor up. `LossNeedsDisturbance`, `RecoveryBound` and `HealthyStaysReady` except it.
- Where a pulse of INT1 is missed and nothing else goes wrong, the samples the re-initialisation flushes are
  counted by no diagnostics counter; only the Mock samples in the gap tell of it (`GapsAreCounted`).
- The parser cuts stamps off at zero: samples of a batch read within its own length of boot or of a wrap of
  the tick get equal stamps (`SpacingKeptAwayFromWrap`).
- The result of a flush is ignored. After a failed one the sensor may stream from the middle of a record, and
  a header that then looks like an end mark reads as "empty", which does not flush again. The 250 ms event
  timeout and the re-initialisation heal it (`MisalignedOnlyByLostFlush`, `SamplesReturn`); ADR-0016 promises
  the realignment at once.
- The command decoder has no timeout. The half ping of a process that died swallows the start of the next
  one, and a corrupted size swallows up to a payload and its CRC (`DecodersResynchronize` has the bound,
  `PingAnswered` the exception).

*Serial service of the MP157*

- The nonce of an acknowledgement is never compared with that of the ping (`mcu_serial_service.cpp:146`;
  `docs/mcu_protocol.md:185` calls it the request's): an answer to the ping of an earlier process counts.
  `AckProvesPing` is what holds without that: the answer is right if none was under way at the start.
- The capture deadline is not tested while the command cannot be written (`mcu_serial_service.cpp:132`).
  `CaptureEnds` holds because the line drains.

*Status file and log*

- The old status file is removed before the new one is renamed, so there is a moment without it, and for
  longer after a crash at that point. `README.md:53` calls the replacement atomic; `rename` alone would be.
- The stream is tested before its buffer is written out, so a full disk can publish a cut-off text.
  `Recovers` bounds both, and `PublishedIsCurrent` rules out that an older text comes back.
- After a failed write the error bit of the log stream is not cleared and its size does not grow, so nothing
  is logged to the file until a restart; a failed reopen stops file logging while `fileOutputEnabled` says
  otherwise. `PublishedIsCurrent` and `LossIsReported` are what holds: the status file tells.
- A rename that fails again and again shifts the backups out one by one while the active file grows:
  `NewestLinesKept` still holds, `SizeLimited` excepts it.

*Status socket*

- Two processes that start at once may both find the path stale, and the later one removes the socket of the
  earlier (`unix_status_service.cpp:108`; ADR-0025:62 wants an active socket left alone). `stop()` closes the
  listener before it unlinks by name: a successor that binds in between loses its path.
- `query()` takes the end of the connection for the end of the answer: a process that dies half-way is
  reported as success with a shorter answer, and so is an answer that a failed `send()` ends
  (`unix_status_service.cpp:333-336`) or the deadline cuts because `query()` or the loop stalled for five seconds
  (line 358). `AnswersAreWhole` and `PoliteAnswered` state the exceptions.

*History*

- ADR-0018:67 lets a failed write or flush make the runtime fail. `HistoryRecorder::stop()` discards the result of its flush
  (`history_recorder.cpp:274`), and `main()` calls it behind `runtime.stop()`: up to a second of rows is lost and the last status
  says *Stopped*. `RuntimeManager!FlushFailureFails` states the promise; TLC refutes it where it is added to
  `RuntimeManager.cfg`. `StatusIsTrue` is what holds, every failure before that shows, and `RowsOnceInOrder` is about a
  recorder that is running.
- A header that a kill cut off is never repaired, and a torn last line merges with the first row of the next
  session (`HeaderFirst` and `RowsOnceInOrder` allow for both).

## 5. Proofs

Every safety property of the passing runs is a theorem for all values of the constants. What a proof assumes is the named `ASSUME` of its module, which TLC evaluates in every run; `RecoveryCorrect`
has one hypothesis more. Each proof has the same shape: an invariant `IInv`, checked by TLC before it was
proved; lemmas about the operators; `InitIInv`; one step per action and one per conjunct it can disturb; and
the theorems read off it. The properties are seldom inductive. What had to be added, and why it holds, is the
argument:

**`UartTxChannelProofs`** (any `Capacity >= 2`, any frame lengths below it): `TypeOK`,
`WireIsAcceptedPrefix`, `RingHoldsStream`, `ActiveMatchesHal`, `NoStrandedBytes`.

- `FrameFits`: the free space the enqueue tested can only grow until it publishes, since the interrupt
  moves the tail and nobody else the head;
- `KickIsAlone`: from the test of `active_length` to the call of the HAL the transmitter is idle, so the
  slot and the length the kick peeked stay true although it holds no lock;
- `TransferInRing`: a running transfer is the first contiguous part of the pending bytes, the HAL pointer
  is its first unsent byte, and the line has carried exactly what was released plus what it has sent;
- `Awake`: bytes wait in an idle channel only while the main loop is in a kick, the strengthening of
  `NoStrandedBytes` to every statement.

`RefinesFrameFifo` is the step simulation of `FrameFifo`: the contents of the abstract queue, which are
the accepted bytes the line has not carried (`Unsent`), grow at the publication by one offered frame, shrink
at `TransmitByte` by one byte, and stay as they are in every other statement. It is the safety half of `ImplementsFrameFifo`.

**`CommandPathProofs`** follows a command from the line to the decoders.

For `UartRxRing` (any ring): `ReceivedInOrder`, `NeverDeaf`, `LossIsCounted`. `IsrKnows` says that what
the interrupt read from SR is still so or has been counted, although the line goes on; `ReaderOwnsTail`
that the slot being read is out of the interrupt's reach; `LineOrder` puts the bytes handed over, those in the
ring and the one in DR in one increasing order; `Accounted` is the balance of arrived, received, pending,
dropped, overrun and flushed; `FlushesPaid` gives each flush an overrun or a spoilt byte of its own.

For the decoders and `CommandLink` (any payload limit, noise, capacity, faults): `DecodersResynchronize`,
`PingNeverLost`, `AckProvesPing`.

- *Induction.* Both decoders are recursive functions, and the induction theorems of the library cannot be
  used here. `NatIsLeast` proves instead that a set of naturals with 0 and every successor is `Nat`: of the
  numbers up to one it misses, take those below the first gap; n ↦ n + 1 would map them one to one onto
  themselves without 0, and a finite set has no bijection with itself less an element. From it follow that the recursions of
  `HubBuffer` and `Decoded` define functions at all (`HubBufferIs`, `DecodedIs`) and each induction below.
- *The decoder of the MP157* drops only what it will never need again: of any cut of the stream the part kept and
  the rest decode to the same frames as the whole (`ChunksDoNotMatter`). A stream that ends with a ping no earlier
  header reaches into gives that ping as its last frame (`EndsWithPing`); a due ping is such an end (`DuePingEnds`), as
  noise reaches `Swallowed` bytes at most. `Enough` pings stand behind the noise, so that whatever the payload limit at
  least one of them is due.
- *The decoder of the hub* holds nothing, one byte or a start whose size is acceptable (`Shape`), so it never
  holds a whole frame and its buffer never overruns. Behind the noise it is either in step with the pings or about to
  drop what it holds within `Swallowed` bytes, and then it gets into step with the next ping that starts.
- *The link.* `OwnBytes` says which bytes of the ping of this process are on the line and which went to the hub; on a clean line
  those are all it holds (`PingInHub`), hence `PingNeverLost`. For `AckProvesPing`, a CRC that holds needs
  five bytes with the places 1 to 5, and of those the last comes from this process only when it has written all.

**`RuntimeManagerProofs`** (any number of services): `EndsClean`, `StatusIsTrue`. `CallsNest` describes the
whole list of calls: the starts 1 … n, then stops from n downwards, which is what makes the list end
in reverse order wherever a start or a poll failed; `ErrorIsKept` follows `lastError` from the failure to the last
publication. The flush in `Exit` comes behind `FinishStop` and is no part of it (*Known limits*, *History*).

**`SensorHubProofs`** (all periods, tick widths, thresholds, loop and initialisation times): `StatusCoherent`
(for the hub alone and behind the link), `FramesMatchStatus`, `Int1BitIsFresh`, `ImuNeverSilent`,
`RecoveryBound`, `HealthyStaysReady`, `MockHeadingEnds`. Each stage of the poll has a lemma about what it keeps
and changes, `PollFacts` composes them, and the invariant relates the wrapping ages to true time:

- `ReadyTimes`: while the source is real, event and fallback timer run together, below the timeout, and no
  shorter than the host has waited;
- `Supplied`, for `HealthyStaysReady`: the FIFO of a sensor healthy for longer than these timers was emptied when they
  restarted, and early polls may have consumed pulses of INT1, but the first one behind the FIFO period reads, before the
  timeout and without an overflow;
- `FallbackTimes`, `Int1Times`: the same for the Mock source and for bit 7;
- `Recovering`, for `RecoveryBound`: a timer that each poll tests is never past its period unless an
  initialisation blocked for longer; below the threshold the bus is healthy no longer than the event timer
  runs, or the next read, late by no more than the pulse that is missing, is bound to succeed (`Serving`); at the threshold no longer than `GivenUpBy` and the age of
  the re-initialisation timer. `RecoveryCorrect` needs `RecoveryTime >= RecoveryDelay`, the sum named under
  *Bounds*, which the run meets with equality;
- `GateInv`, for `MockHeadingEnds`: as long as the last heartbeat that is on its way or applied says ready, and so none
  that said otherwise has arrived, the fall-back or the last such heartbeat that was lost is no older than the heartbeat timer,
  which stays within a period and one initialisation.

**`Icm42688FifoProofs`** (all sizes and periods within `FifoAssumption`): `LossNeedsDisturbance`,
`MisalignedOnlyByLostFlush`, `GapsAreCounted`. `Regular` says that as long as nothing went wrong and no pulse
was missed an event is waiting or the watermark is not reached; `Undisturbed` bounds the records in the FIFO by what was
left below the watermark and what the passes of the loop before and during the read let in; `ReadTimes` and
`BurstLeaves` tie the age of the read timer to the records. `Holes` says that a hole nobody
told of yet is the overflow the next read will find: the event timeout, which flushes too, does not expire without a counter or
Mock samples to show for it.

**`ImuTimelineProofs`** (any tick, period, batch): `Continuous`, `SpacingKeptAwayFromWrap`. `StampsAre`
bounds the distances of the stamps of one read, cut off or not; `NormalizedIs` shows that adding one shift modulo the
tick keeps distances below half the circle (`SignedIs`), which is `2 * SamplePeriod * (MaxBatch + 1)`.

**`UnixStatusServiceProofs`** (any clients and limits): `AnswersAreWhole`, `RestartNotRefused`. `Whole` counts
what a polite client has read, what waits in its socket and what is still to be sent; `InTime` shows that its
deadline does not strike while it keeps to `ClientDelay` and the service to `PassDelay`: the age of the deadline is no more than the
client is behind, or, once nothing is waited for, the client delay and the ticks since the last pass; `PathFree` that a start
gets to `bind()` only where nothing is at the path.

**`StorageProofs`** (any file size, backups, texts, streams, keys, buffers): `NewestLinesKept`, `SizeLimited`,
`PublishedIsCurrent`, `RowsOnceInOrder`, `HeaderFirst`. `InOrder` says the files have no gap and newer files newer lines, in every
step of the rotation; `RoomMade` that a rename finds its target gone; `SizeKnown` that the logger's own
count is not below the size. `LossesCounted` covers what costs a line later as well, the closed file and the stream with an
error; `TextIsTrue` carries the counters from the text to the rename, because nothing is logged in between. For the history, `OneRun` follows file and buffer as one run of keys.

Only model-checked, and why:

- liveness (`Drained`, `StopHonoured`, `SamplesReturn`, `CaptureEnds`, `PingAnswered`,
  `SlotsAreFreed`, `PoliteAnswered`, `Recovers`, `LossIsReported`) and the fairness half of
  `ImplementsFrameFifo`: fairness and `ENABLED` are out of the prover's reach;
- `TimestampIsUptime` is violated (section 4).

Some definitions were rewritten to be reasoned about, with the same meaning: `EndsClean` and
`RowsOnceInOrder` without `SelectSeq`, the places of the samples in a read (`ImuTimeline!Positions`)
as the one ascending enumeration of a set, and the decoders (`HubBuffer`, `Decoded`) as recursive functions
instead of folds and recursive operators.

## 6. Plan

Modelled, in this order: the transmit channel with its abstract specification, the receive path, the
app loop, the compass gate over both boards, the IMU timeline, the runtime manager; the read path of the IMU
with the bus recovery, the command link, the status service, the log and status files, the history. Proved: all
of section 5.

Models still worth adding: `BoardUart` (two channels fed by one loop), the GNSS line buffer, the order of
checks in the local agent, the state machine of the launcher, the filter arithmetic as checked operators, two
processes on the socket path.

## 7. Not modelled

Third-party code (CMSIS, the HAL beyond its UART interrupt paths, the Bosch driver: nearly all of the
source lines of the repository), rendering and
formatting, floating-point geometry of the compass, fixed-point conversions of sensor values, configuration
parsing, test inputs, offline tools and board scripts. `PROJECT.json` gives the reason for each.

## 8. Running

    tlc -workers 2 -config UartTx.cfg MCUartTxChannel
    tlapm SensorHubProofs.tla

`PROJECT.json` (`runs`) names the module of each configuration and under `theorems` the results of the proof
modules. The longest run takes about three minutes, the longest proof (`SensorHubProofs`) a few.
