---------------------------- MODULE Icm42688Fifo ----------------------------
(***************************************************************************)
(* The read path of the ICM42688: the sensor fills its FIFO in stream mode *)
(* and raises INT1, the loop of sensor_hub_app.c takes the event, the      *)
(* provider (icm42688_provider_c.c) reads count and burst or flushes, and  *)
(* every transaction goes through board_i2c_stm32.c with its bus recovery. *)
(*                                                                         *)
(* The sensor does not wait for the driver: a sample may arrive between    *)
(* any two transactions.  Time is counted in sample periods.  Records are  *)
(* not numbered: they leave the FIFO from its old end only, so what can go *)
(* wrong with them is that they are lost or read from the middle.          *)
(***************************************************************************)
EXTENDS Integers

CONSTANTS
  Watermark,         \* ICM42688_FIFO_WATERMARK_RECORDS
  BatchCapacity,     \* ICM42688_FIFO_BATCH_CAPACITY
  DeviceCapacity,    \* records the FIFO of the sensor holds
  MinPeriod,         \* SENSOR_HUB_IMU_FIFO_READ_MIN_PERIOD_MS in samples
  EventTimeout,      \* SENSOR_HUB_IMU_EVENT_TIMEOUT_MS in samples
  FailureThreshold,  \* SENSOR_HUB_IMU_REINIT_FAILURE_THRESHOLD
  MaxLag             \* samples between the starts of two polls of a prompt loop

\* The last but one is what the capacity of a batch has to be for the loop to
\* be allowed MaxLag samples in one pass; the event timeout of 25 samples is
\* longer than a batch of 16 and two watermarks of 4.
ASSUME FifoAssumption ==
  /\ {Watermark, BatchCapacity, MinPeriod, EventTimeout, FailureThreshold, MaxLag} \subseteq Nat \ {0}
  /\ DeviceCapacity \in Nat /\ DeviceCapacity > BatchCapacity
  /\ Watermark > MinPeriod
  /\ Watermark - 1 + 2 * MaxLag <= BatchCapacity
  /\ EventTimeout >= BatchCapacity /\ EventTimeout >= 2 * Watermark

VARIABLES
  sensor,  \* external: the bus and the signal, and the FIFO of the sensor
  event,   \* g_data_ready_event_count # g_consumed_event_count
  loop,    \* where sensor_hub_app_poll stands, its timers, the provider's state
  i2c,     \* attempt of the running transaction, g_i2c_transaction_failure_active
  hist     \* history of this batch, see Init
vars == <<sensor, event, loop, i2c, hist>>

Worlds == {"good", "flaky", "dead"}

\* The loop behind a successful icm42688_provider_init: `age` is the time
\* since the last FIFO read, `quiet` since the last batch, both up to the
\* event timeout, and `silent` whether this poll started that late.
Restarted ==
  [pc |-> "idle", available |-> 0, age |-> 0, quiet |-> 0, silent |-> FALSE,
   failures |-> 0, initialized |-> TRUE]

\* icm42688_provider_init succeeded and the loop starts.
Init ==
  /\ sensor = [world |-> "good",      \* bus and signal; flaky: any answer, dead: none
               streaming |-> TRUE,    \* configured and sampling
               count |-> 0,           \* records in the FIFO
               aligned |-> TRUE]      \* its first byte is the header of a record
  /\ event = FALSE
  /\ loop = Restarted
  /\ i2c = [attempt |-> 1, active |-> FALSE]
  /\ hist = [lag |-> 0,               \* samples since the poll before started
             published |-> "none",    \* by this poll: "samples", "garbage", or "refused"
             lost |-> FALSE,          \* a sample since the last batch never comes
             disturbed |-> FALSE,     \* the world was not good since the last batch, or
                                      \* that batch came late or behind a missed pulse
             missed |-> FALSE,        \* the last pulse of INT1 was missed
             refused |-> FALSE,       \* a whole burst was refused since then
             counted |-> FALSE,       \* a diagnostics counter moved since then
             gaveUp |-> FALSE,        \* Mock data stood in for the sensor since then
             flushFailed |-> FALSE]   \* the last flush was given up

Capped(n, cap) == IF n > cap THEN cap ELSE n
Good == sensor.world = "good"
Disturb(h) == [h EXCEPT !.disturbed = @ \/ ~Good]
-----------------------------------------------------------------------------
(* The sensor and time (external).                                         *)

\* Fault: FIFO_WM_GT_TH is not set, INT1 pulses only when the level is met.
PulsesOnce(count) == count = Watermark

\* FIFO_WM_GT_TH: INT1 pulses with every record at or above the watermark.
Pulses(count) == count >= Watermark

\* A sample period passes.  In a good world the loop is prompt, no pass of it
\* takes more than MaxLag samples, and every pulse is heard; else a pulse may
\* be missed.  In any world one burst ends, by its HAL timeout of 3 samples,
\* long before the FIFO (128 records) is full.
Tick ==
  /\ Good => hist.lag < MaxLag
  /\ loop.pc = "burst" => sensor.count < DeviceCapacity
  /\ sensor' = IF sensor.streaming
               THEN [sensor EXCEPT !.count = Capped(@ + 1, DeviceCapacity)]
               ELSE sensor
  /\ event' \in IF sensor.streaming /\ Pulses(sensor'.count)
                THEN IF Good THEN {TRUE} ELSE {TRUE, event}
                ELSE {event}
  /\ loop' = [loop EXCEPT !.age = Capped(@ + 1, EventTimeout), !.quiet = Capped(@ + 1, EventTimeout)]
  /\ hist' = Disturb([hist EXCEPT
       !.lag = Capped(@ + 1, MaxLag + 1),
       !.missed = ~event' /\ (@ \/ (sensor.streaming /\ Pulses(sensor'.count))),
       !.lost = @ \/ (sensor.streaming /\ sensor.count = DeviceCapacity)])
  /\ UNCHANGED i2c

WorldChanges ==
  \E w \in Worlds \ {sensor.world} :
    /\ sensor' = [sensor EXCEPT !.world = w]
    /\ hist' = [hist EXCEPT !.disturbed = TRUE]
    /\ UNCHANGED <<event, loop, i2c>>
-----------------------------------------------------------------------------
(* One transaction of board_i2c_stm32.c.                                   *)

\* The HAL call succeeds.
HalOk ==
  /\ sensor.world # "dead"
  /\ i2c' = [attempt |-> 1, active |-> FALSE]

\* The HAL call fails: the bus is recovered and a replayable transaction is
\* tried once more; when it is given up the driver goes on with `after`.
HalFails(replayable, after) ==
  /\ ~Good
  /\ \E recovered \in BOOLEAN :
       IF replayable /\ i2c.attempt = 1 /\ recovered
       THEN /\ i2c' = [i2c EXCEPT !.attempt = 2]
            /\ loop' = loop
       ELSE /\ i2c' = [attempt |-> 1, active |-> replayable \/ ~recovered]
            /\ loop' = after
-----------------------------------------------------------------------------
(* sensor_hub_app_poll and icm42688_provider_read_fifo.                    *)

Goto(pc) == [loop EXCEPT !.pc = pc]

\* ++g_imu_read_failure_count, compared with its threshold only.
Failed == [loop EXCEPT !.pc = "check", !.failures = Capped(@ + 1, FailureThreshold)]

\* The event is taken; one that comes too early is consumed all the same.
Poll ==
  LET reads == event /\ loop.age >= MinPeriod
      silent == loop.quiet = EventTimeout IN
  /\ loop.pc = "idle"
  /\ event' = FALSE
  /\ loop' = CASE reads /\ loop.initialized -> [Goto("count") EXCEPT !.age = 0, !.silent = silent]
               [] reads /\ ~loop.initialized -> [Failed EXCEPT !.age = 0, !.silent = silent]
               [] OTHER -> [Goto("check") EXCEPT !.silent = silent]
  /\ hist' = Disturb([hist EXCEPT !.lag = 0, !.published = "none"])
  /\ UNCHANGED <<sensor, i2c>>

\* Fault: an overflow is flushed and not counted.
OverflowUncounted ==
  /\ loop.pc = "count"
  /\ HalOk
  /\ loop' = CASE sensor.count = 0 -> Goto("check")
               [] sensor.count \in 1..BatchCapacity ->
                    [Goto("burst") EXCEPT !.available = sensor.count]
               [] OTHER -> Goto("flush")
  /\ hist' = [Disturb(hist) EXCEPT !.counted = @ \/ sensor.count = 0]
  /\ UNCHANGED <<sensor, event>>

\* The record count decides: nothing, a burst, or an overflow.
ReadCount ==
  /\ loop.pc = "count"
  /\ HalOk
  /\ loop' = CASE sensor.count = 0 -> Goto("check")
               [] sensor.count \in 1..BatchCapacity ->
                    [Goto("burst") EXCEPT !.available = sensor.count]
               [] OTHER -> Goto("flush")
  /\ hist' = [Disturb(hist) EXCEPT !.counted = @ \/ sensor.count \notin 1..BatchCapacity]
  /\ UNCHANGED <<sensor, event>>

CountFails ==
  /\ loop.pc = "count"
  /\ HalFails(TRUE, Failed)
  /\ hist' = [Disturb(hist) EXCEPT !.counted = TRUE]
  /\ UNCHANGED <<sensor, event>>

\* What icm42688_fifo_parse_stream makes of a burst.  Bytes read from the
\* middle of a record may look like one, like an end mark, or like neither.
\* Of whole records one with a value at the end of its range (INT16_MIN) is
\* refused, and the rest of its burst with it.
Parses == IF sensor.aligned THEN {"samples", "refused"}
          ELSE {"garbage", "empty", "malformed"}

\* The batch counts from the start of the poll, as the read attempt does.
Published ==
  [Goto("check") EXCEPT !.quiet = loop.age, !.silent = FALSE, !.failures = 0, !.available = 0]

ReadBurst ==
  \E result \in Parses :
    /\ loop.pc = "burst"
    /\ HalOk
    /\ sensor' = [sensor EXCEPT !.count = @ - loop.available]
    /\ loop' = CASE result \in {"samples", "garbage"} -> Published
                 [] result = "empty" -> [Goto("check") EXCEPT !.available = 0]
                 [] OTHER -> [Goto("flush") EXCEPT !.available = 0]
    /\ hist' = CASE result = "samples" ->
                      [hist EXCEPT !.published = "samples", !.lost = FALSE, !.counted = FALSE,
                                   !.refused = FALSE, !.gaveUp = FALSE,
                                   !.disturbed = ~Good \/ hist.lag > MaxLag \/ hist.missed]
                 [] result = "garbage" ->
                      [Disturb(hist) EXCEPT !.published = "garbage", !.lost = TRUE]
                 [] result = "refused" ->
                      [Disturb(hist) EXCEPT !.published = "refused", !.lost = TRUE,
                                            !.refused = TRUE, !.counted = TRUE]
                 [] OTHER -> [Disturb(hist) EXCEPT !.lost = TRUE, !.counted = TRUE]
    /\ UNCHANGED event

\* Fault: the burst is replayed like any other transaction.
BurstReplayed ==
  \E popped \in 0..loop.available, aligned \in BOOLEAN :
    /\ loop.pc = "burst"
    /\ HalFails(TRUE, [Goto("flush") EXCEPT !.available = 0])
    /\ sensor' = [sensor EXCEPT !.count = IF @ < popped THEN 0 ELSE @ - popped,
                                !.aligned = @ /\ aligned]
    /\ hist' = [Disturb(hist) EXCEPT !.lost = TRUE, !.counted = TRUE]
    /\ UNCHANGED event

\* The FIFO lost some of its records to the burst, perhaps part of one.
BurstFails ==
  \E popped \in 0..loop.available, aligned \in BOOLEAN :
    /\ loop.pc = "burst"
    /\ HalFails(FALSE, [Goto("flush") EXCEPT !.available = 0])
    /\ sensor' = [sensor EXCEPT !.count = @ - popped, !.aligned = @ /\ aligned]
    /\ hist' = [Disturb(hist) EXCEPT !.lost = @ \/ popped > 0 \/ ~aligned, !.counted = TRUE]
    /\ UNCHANGED event

Flushed == [sensor EXCEPT !.count = 0, !.aligned = TRUE]

\* flush_fifo_at; the driver ignores its result, each way here was a failure.
Flush ==
  /\ loop.pc = "flush"
  /\ HalOk
  /\ sensor' = Flushed
  /\ loop' = Failed
  /\ hist' = [Disturb(hist) EXCEPT !.lost = @ \/ sensor.count > 0, !.flushFailed = FALSE]
  /\ UNCHANGED event

\* The write may have reached the sensor although it failed.
FlushFails ==
  /\ loop.pc = "flush"
  /\ HalFails(TRUE, Failed)
  /\ sensor' \in {sensor, Flushed}
  /\ hist' = [Disturb(hist) EXCEPT !.lost = TRUE, !.counted = TRUE,
                                   !.flushFailed = (loop'.pc = "check")]
  /\ UNCHANGED event
-----------------------------------------------------------------------------
(* The end of the poll: event timeout, re-initialisation.                  *)

\* Fault: a sensor that sends no usable batch is not given up.
TimeoutIgnored == loop.failures

\* The failure count behind the test of the event timeout.
FailuresAfterTimeout ==
  IF loop.silent THEN FailureThreshold ELSE loop.failures

\* At the timeout the status changes to fallback, and the next Mock sample,
\* long due, is sent.
GivenUp(h) == [Disturb(h) EXCEPT !.gaveUp = @ \/ loop.silent]

\* Whether SENSOR_HUB_IMU_REINIT_PERIOD_MS has elapsed is left open.
EndPoll ==
  /\ loop.pc = "check"
  /\ loop' = [Goto("idle") EXCEPT !.failures = FailuresAfterTimeout, !.silent = FALSE]
  /\ hist' = GivenUp(hist)
  /\ UNCHANGED <<sensor, event, i2c>>

\* icm42688_provider_init resets, configures and flushes, and the loop
\* discards the events that came meanwhile.
Reinitialize ==
  /\ loop.pc = "check"
  /\ FailuresAfterTimeout = FailureThreshold
  /\ HalOk
  /\ sensor' = [Flushed EXCEPT !.streaming = TRUE]
  /\ event' = FALSE
  /\ loop' = Restarted
  /\ hist' = [GivenUp(hist) EXCEPT !.lost = @ \/ sensor.count > 0, !.flushFailed = FALSE]

\* It fails before the device reset, or behind it: the sensor is then off.
ReinitializeFails ==
  /\ loop.pc = "check"
  /\ FailuresAfterTimeout = FailureThreshold
  /\ HalFails(FALSE, [Goto("idle") EXCEPT !.failures = FailureThreshold, !.silent = FALSE,
                                        !.initialized = FALSE])
  /\ sensor' \in {sensor, [Flushed EXCEPT !.streaming = FALSE]}
  /\ hist' = [GivenUp(hist) EXCEPT !.lost = TRUE, !.counted = TRUE,
                                   !.flushFailed = @ /\ ~sensor'.aligned]
  /\ UNCHANGED event
-----------------------------------------------------------------------------
ReadFifo == ReadCount \/ CountFails \/ ReadBurst \/ BurstFails \/ Flush \/ FlushFails

Step == Poll \/ ReadFifo \/ EndPoll \/ Reinitialize \/ ReinitializeFails

Next == Step \/ Tick \/ WorldChanges

\* The loop polls for ever, time passes, and the re-initialisation period
\* elapses again and again.
Spec ==
  /\ Init /\ [][Next]_vars
  /\ WF_vars(Step) /\ WF_vars(Tick)
  /\ SF_vars(Reinitialize)
-----------------------------------------------------------------------------
(* Properties. *)

\* The counters stay in their ranges, and a burst never asks for more
\* records than a batch holds or the FIFO has.
TypeOK ==
  /\ sensor.world \in Worlds /\ sensor.count \in 0..DeviceCapacity
  /\ loop.pc \in {"idle", "count", "burst", "flush", "check"}
  /\ loop.available \in 0..BatchCapacity /\ loop.available <= sensor.count
  /\ loop.age \in 0..EventTimeout /\ loop.quiet \in 0..EventTimeout
  /\ loop.failures \in 0..FailureThreshold
  /\ i2c.attempt \in 1..2
  /\ i2c.attempt = 2 => loop.pc \in {"count", "flush"}

\* On a good bus with a prompt loop no sample is lost but with a burst the
\* parser refuses for a value at the end of its range: watermark, minimum read
\* period and batch capacity fit together wherever the samples arrive between
\* event, count and burst.
LossNeedsDisturbance == hist.lost => hist.disturbed \/ hist.refused

\* ADR-0016: FIFO_DATA is never replayed and a failed burst is followed by a
\* flush.  So the driver reads from the middle of a record only where that
\* flush itself failed for good, whose result the driver ignores.
MisalignedOnlyByLostFlush ==
  ~sensor.aligned /\ loop.pc # "flush" => hist.flushFailed

\* A batch with a hole before it is published only after a diagnostics
\* counter (overflow, malformed, empty, I2C recovery) told of the hole, or
\* Mock samples stood in it: where INT1 was not heard, the re-initialisation
\* behind the event timeout flushes records that no counter counts.
GapsAreCounted ==
  [][ hist'.published = "samples" /\ hist.published = "none" /\ hist.lost =>
        hist.counted \/ hist.gaveUp ]_vars

\* Once bus and signal are good for good, batches of real samples keep
\* coming, unless the parser takes bytes from the middle of records for
\* samples, or refuses whole bursts, again and again: no event missed or
\* consumed too early, no lost flush and no failed initialisation stops the
\* stream.
SamplesReturn ==
  <>[]Good => []<>(hist.published = "samples")
                \/ []<>(hist.published \in {"garbage", "refused"})
=============================================================================
