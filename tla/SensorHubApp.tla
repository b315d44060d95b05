---------------------------- MODULE SensorHubApp ----------------------------
(***************************************************************************)
(* The superloop of the sensor hub, app/sensor_hub_app.c: the IMU source   *)
(* (real FIFO, Mock fallback, re-initialisation), the two other sensors,   *)
(* the heartbeat and its status bits.                                      *)
(*                                                                         *)
(* One poll is one action that composes the stages of the function in      *)
(* their order.  Time is the 32-bit millisecond tick scaled down: a timer  *)
(* is kept as its age, (now - last) modulo TickModulus, so that the        *)
(* wrap-around of the unsigned subtraction is part of the model.  The      *)
(* environment is the shared I2C bus and the sensor behind it.             *)
(***************************************************************************)
EXTENDS Integers, FiniteSets

CONSTANTS
  Period,            \* [Timers -> Nat], the SENSOR_HUB_*_MS constants in ticks
  FailureThreshold,  \* SENSOR_HUB_IMU_REINIT_FAILURE_THRESHOLD
  IcmOnly,           \* SENSOR_HUB_ICM42688_ONLY_DIAGNOSTIC
  TickModulus,       \* 2^32 scaled down
  MaxStep,           \* bound: ticks between two polls
  PromptStep,        \* ticks between two polls of a loop that keeps up with the sensor
  MaxInitTime,       \* bound: ticks icm42688_provider_init blocks the loop
  PulseTime,         \* external: ticks within which INT1 pulses again
  BatchTime,         \* external: ticks in which a FIFO collects no more than a batch holds
  RecoveryTime,      \* ticks after which a healthy bus must have recovered
  Buses              \* the conditions the I2C bus may be in

ImuTimers == {"heartbeat", "fifo", "event", "fallback", "reinit"}
Timers == ImuTimers \cup IF IcmOnly THEN {} ELSE {"mag", "baro"}

\* A batch has room for what comes between two reads of a loop that keeps up:
\* one event comes just before the FIFO period elapses and is consumed, and the
\* next one just behind the poll before the read.
ASSUME HubAssumption ==
  /\ IcmOnly \in BOOLEAN
  /\ FailureThreshold \in Nat \ {0}
  /\ TickModulus \in Nat /\ MaxStep \in Nat \ {0} /\ MaxInitTime \in Nat
  /\ RecoveryTime \in Nat
  /\ Buses \subseteq {"good", "flaky", "dead"}
  /\ \A t \in Timers : Period[t] \in 1..(TickModulus - 1)
  /\ \A t \in Timers : Period[t] + MaxStep + MaxInitTime <= TickModulus
  /\ Period["fallback"] <= Period["event"]
  /\ PromptStep \in 1..MaxStep /\ PulseTime \in Nat \ {0} /\ BatchTime \in Nat
  /\ Period["fifo"] - 1 + PulseTime - 1 + PromptStep <= BatchTime
  /\ BatchTime <= Period["event"]

StatusBits ==
  {"ICM_READY", "FALLBACK", "IMU_ERROR", "INT1", "FIFO", "FIFO_ERROR", "INIT_ERROR",
   "MAG_READY", "MAG_ERROR", "BARO_READY", "BARO_ERROR", "I2C_FAILURE"}

VARIABLES
  hub,      \* the static variables of sensor_hub_app.c and its drivers
  sensor,   \* external: the bus, and the ICM42688 behind it
  hist      \* history: how long the sensor has been healthy, that is, the bus good, the
            \* loop prompt and no batch refused; how long it is quiet, the IMU silent
vars == <<hub, sensor, hist>>

Elapsed(h, t) == h.age[t] >= Period[t]
Restart(h, t) == [h EXCEPT !.age[t] = 0]

Later(h, d) == [h EXCEPT !.age = [t \in Timers |-> (@[t] + d) % TickModulus]]
Send(h, frame) == [h EXCEPT !.sent = @ \cup {frame}]
Set(h, on, off) == [h EXCEPT !.status = (@ \ off) \cup on]
-----------------------------------------------------------------------------
(* The stages of sensor_hub_app_poll.                                      *)

SetReady(h) ==
  Set(h, {"ICM_READY", "INT1", "FIFO"}, {"FALLBACK", "IMU_ERROR", "INIT_ERROR", "FIFO_ERROR"})

\* Fault: a source that is given up keeps the bits of the interrupt.
InterruptBitsKept(h, interruptActive) ==
  Set(h, {"FALLBACK", "IMU_ERROR"}, {"ICM_READY"})

SetFallback(h, interruptActive) ==
  Set(h, {"FALLBACK", "IMU_ERROR"},
         {"ICM_READY"} \cup IF interruptActive THEN {} ELSE {"INT1", "FIFO"})

\* Fault: reset_real_imu_filter is forgotten.
FilterKept(h) == h

\* reset_real_imu_filter.
ResetFilter(h) == [h EXCEPT !.realFilter = FALSE]

\* update_uart_status; the three overflow bits copy counters of the UARTs.
UpdateStatus(h) ==
  IF h.i2cFault THEN Set(h, {"I2C_FAILURE"}, {}) ELSE Set(h, {}, {"I2C_FAILURE"})

\* The heartbeat carries the status the previous poll left.
Heartbeat(h) ==
  IF Elapsed(h, "heartbeat")
  THEN [Send(Restart(h, "heartbeat"), "heartbeat") EXCEPT !.announced = h.status]
  ELSE h

\* Fault: the time of the last event is not taken.
EventTimeKept(h) ==
  SetReady([Send(Restart(h, "fallback"), "real") EXCEPT !.realFilter = TRUE, !.failures = 0])

\* A batch of real samples.
Samples(h) ==
  SetReady([Send(Restart(Restart(h, "event"), "fallback"), "real")
              EXCEPT !.realFilter = TRUE, !.failures = 0])

\* A failed read: "stream" for an overflow or a malformed stream, "refused"
\* for a stream with a value at the end of its range.
Failure(h, result) ==
  LET n == IF h.failures < FailureThreshold THEN h.failures + 1 ELSE h.failures
      g == [Set(h, IF result \in {"stream", "refused"} THEN {"FIFO_ERROR"} ELSE {}, {}) EXCEPT !.failures = n]
  IN IF n >= FailureThreshold THEN ResetFilter(SetFallback(g, TRUE)) ELSE g

\* An event that comes too early is consumed without a read.
ReadsFifo(h, event) == event /\ Elapsed(h, "fifo")

ReadFifo(h, event, result, fault) ==
  IF ~ReadsFifo(h, event) THEN h
  ELSE LET g == [Restart(h, "fifo") EXCEPT !.i2cFault = fault] IN
       CASE result = "samples" -> Samples(g)
         [] result = "empty" -> g
         [] OTHER -> Failure(g, result)

\* Fault: a silent sensor is not counted as failed.
TimeoutNotCounted(h) ==
  IF Elapsed(h, "event") THEN ResetFilter(SetFallback(h, FALSE)) ELSE h

\* Fault: a silent sensor is only scheduled for re-initialisation.
TimeoutKeepsReady(h) ==
  IF Elapsed(h, "event") THEN [h EXCEPT !.failures = FailureThreshold] ELSE h

CheckTimeout(h) ==
  IF Elapsed(h, "event")
  THEN [ResetFilter(SetFallback(h, FALSE)) EXCEPT !.failures = FailureThreshold]
  ELSE h

Reinitializes(h) == h.failures >= FailureThreshold /\ Elapsed(h, "reinit")

\* try_reinitialize_icm42688.  The driver blocks for `time` ticks and the
\* ticks it reads behind that lie ahead of the now_ms of this poll.
Reinitialize(h, ok, time, fault) ==
  IF ~Reinitializes(h) THEN h
  ELSE LET g == [ResetFilter(SetFallback(Restart(h, "reinit"), FALSE))
                   EXCEPT !.icm = ok, !.i2cFault = fault]
           ahead == (TickModulus - time) % TickModulus
       IN IF ok THEN [g EXCEPT !.age["event"] = ahead, !.age["fifo"] = ahead, !.failures = 0]
                ELSE Set(g, {"INIT_ERROR"}, {})

\* Fault: the Mock source is not gated by the ready bit.
UngatedMock(h) ==
  IF Elapsed(h, "fallback") THEN Send(Restart(h, "fallback"), "mock") ELSE h

MockFallback(h) ==
  IF "ICM_READY" \notin h.status /\ Elapsed(h, "fallback")
  THEN Send(Restart(h, "fallback"), "mock")
  ELSE h

\* The magnetometer and the barometer stage, absent from the diagnostic image.
ReadAux(h, timer, frame, ready, error, ok, fault) ==
  IF timer \notin Timers \/ ~Elapsed(h, timer) THEN h
  ELSE LET g == [Restart(h, timer) EXCEPT !.i2cFault = fault] IN
       IF ok THEN Set(Send(g, frame), {ready}, {error}) ELSE Set(g, {error}, {ready})
-----------------------------------------------------------------------------
(* The environment: what the drivers can answer on the bus as it is.       *)

\* A data-ready interrupt came in the d ticks since the last poll.  INT1 pulses
\* when the FIFO reaches its watermark and with every sample behind that, so
\* within PulseTime of the pulse before and of the read that emptied the FIFO.
Events(s, d) ==
  CASE s.configured /\ s.bus = "good" -> IF s.pulse + d >= PulseTime THEN {TRUE} ELSE BOOLEAN
    [] s.configured /\ s.bus # "good" -> BOOLEAN
    [] OTHER -> {FALSE}

\* icm42688_provider_read_fifo.  On a good bus it fails where the FIFO holds
\* more than a batch, because nobody emptied it for too long, and where the
\* parser refuses a record for a value at the end of its range; the FIFO
\* period is longer than a sample's, so it is never empty.
FifoResults(h, s, d) ==
  IF ~h.icm THEN {"failed"}
  ELSE CASE s.bus = "good" ->
              {"samples", "refused"} \cup IF s.filled + d > BatchTime THEN {"stream"} ELSE {}
         [] s.bus = "flaky" -> {"samples", "empty", "stream", "failed"}
         [] OTHER -> {"failed"}

\* board_i2c_transaction_failure_active behind a call with this outcome; a
\* driver that is not initialised makes no transaction.
Faults(h, s, initialised, ok) ==
  IF ~initialised THEN {h.i2cFault}
  ELSE IF ok \/ s.bus = "good" THEN {FALSE} ELSE IF s.bus = "dead" THEN {TRUE} ELSE BOOLEAN

InitResults(s) == CASE s.bus = "good" -> {TRUE} [] s.bus = "dead" -> {FALSE} [] OTHER -> BOOLEAN

AuxResults(s, initialised) == IF ~initialised \/ s.bus = "dead" THEN {FALSE} ELSE BOOLEAN

\* icm42688_provider_init starts with a device reset and enables INT1 last.
ConfiguredAfterInit(s, ok) ==
  IF ok THEN {TRUE} ELSE IF s.bus = "dead" THEN {s.configured} ELSE BOOLEAN
-----------------------------------------------------------------------------
Capped(n, cap) == IF n > cap THEN cap ELSE n

SilenceCap == Period["event"] + MaxStep + MaxInitTime + 1

\* sensor_hub_app_init on a bus in any state.
Init ==
  \E bus \in Buses, mag, baro \in IF IcmOnly THEN {FALSE} ELSE BOOLEAN,
     configured \in BOOLEAN, time \in 0..MaxInitTime :
  \E icm \in InitResults([bus |-> bus]) :
    /\ bus = "dead" => ~mag /\ ~baro
    /\ icm => configured
    /\ sensor = [bus |-> bus, configured |-> configured, pulse |-> 0,
                 filled |-> IF bus = "good" THEN 0 ELSE BatchTime + 1]
    /\ hub = [status |->
                (IF icm THEN {"ICM_READY"} ELSE {"FALLBACK", "IMU_ERROR", "INIT_ERROR"})
                \cup (IF IcmOnly THEN {}
                      ELSE {IF mag THEN "MAG_READY" ELSE "MAG_ERROR",
                            IF baro THEN "BARO_READY" ELSE "BARO_ERROR"}),
              age |-> [t \in Timers |->
                         IF icm /\ t \in {"event", "fifo", "fallback"} THEN 0 ELSE time],
              failures |-> 0, realFilter |-> FALSE, i2cFault |-> FALSE,
              icm |-> icm, mag |-> mag, baro |-> baro,
              announced |-> {}, sent |-> {}]
    /\ hist = [healthy |-> 0, quiet |-> Period["event"], silence |-> 0]

\* The loop kept up and the sensor delivered.
Undisturbed(d, result) == d <= PromptStep /\ result # "refused"

\* What the poll leaves when it saw this event and this result of a read of
\* the FIFO, and its stages made h of the hub's variables.
PollLeaves(d, time, event, result, tries, ok, h) ==
  /\ hub' = Later(h, time)
  /\ \E c \in IF tries THEN ConfiguredAfterInit(sensor, ok) ELSE {sensor.configured} :
       sensor' = [sensor EXCEPT
         !.configured = c,
         !.pulse = IF sensor.bus # "good" \/ event \/ tries THEN 0 ELSE Capped(@ + d, PulseTime),
         !.filled = CASE sensor.bus # "good" -> BatchTime + 1
                      [] sensor.bus = "good" /\ (tries \/ result \in {"samples", "stream", "refused"}) -> 0
                      [] OTHER -> Capped(@ + d, BatchTime + 1)]
  /\ hist' = [healthy |-> IF sensor.bus = "good" /\ Undisturbed(d, result)
                          THEN Capped(hist.healthy + d + time, RecoveryTime) ELSE 0,
              quiet |-> Capped((IF "real" \in h.sent THEN 0 ELSE hist.quiet + d) + time,
                               Period["event"]),
              silence |-> Capped((IF h.sent \cap {"real", "mock"} # {} THEN 0
                                  ELSE hist.silence + d) + time, SilenceCap)]

\* The magnetometer and the barometer end the poll.
AuxStages(d, time, event, result, tries, ok, h) ==
  \E magOk \in AuxResults(sensor, hub.mag) : \E fault3 \in Faults(h, sensor, hub.mag, magOk) :
  LET h3 == ReadAux(h, "mag", "mag", "MAG_READY", "MAG_ERROR", magOk, fault3) IN
  \E baroOk \in AuxResults(sensor, hub.baro) : \E fault4 \in Faults(h3, sensor, hub.baro, baroOk) :
    PollLeaves(d, time, event, result, tries, ok,
               ReadAux(h3, "baro", "baro", "BARO_READY", "BARO_ERROR", baroOk, fault4))

\* The re-initialisation, where it is due, and the Mock source come before.
SourceStages(d, time, event, result, h) ==
  LET tries == Reinitializes(h) IN
  \E ok \in CASE tries -> InitResults(sensor) [] ~tries /\ time = 0 -> {TRUE} [] OTHER -> {} :
  \E fault2 \in Faults(h, sensor, TRUE, ok) :
    AuxStages(d, time, event, result, tries, ok, MockFallback(Reinitialize(h, ok, time, fault2)))

\* Time passes, the status is refreshed and the heartbeat goes out when due.
Woken(h, d) == Heartbeat(UpdateStatus([Later(h, d) EXCEPT !.sent = {}, !.announced = {}]))

\* The read of the FIFO and the timeout behind it.
ImuRead(h, event, result, fault) == CheckTimeout(ReadFifo(h, event, result, fault))

\* A poll d ticks after the last one; icm42688_provider_init, where it is
\* called, blocks it for `time` ticks.
PollTakes(d, time) ==
  \E event \in Events(sensor, d) :
  LET h0 == Woken(hub, d) IN
  \E result \in IF ReadsFifo(h0, event) THEN FifoResults(h0, sensor, d) ELSE {"none"} :
  \E fault1 \in Faults(h0, sensor, h0.icm, result \in {"samples", "empty", "refused", "none"}) :
    SourceStages(d, time, event, result, ImuRead(h0, event, result, fault1))

Poll == \E d \in 1..MaxStep, time \in 0..MaxInitTime : PollTakes(d, time)

\* The wiring or the power of the bus changes: a sensor that lost its power
\* lost its configuration.
BusChanges ==
  \E bus \in Buses \ {sensor.bus} :
    /\ \E c \in IF "dead" \in {bus, sensor.bus} THEN {FALSE, sensor.configured} ELSE {sensor.configured} :
         sensor' = [sensor EXCEPT !.bus = bus, !.configured = c, !.pulse = 0,
                                   !.filled = BatchTime + 1]
    /\ hist' = [hist EXCEPT !.healthy = 0]
    /\ UNCHANGED hub

Next == Poll \/ BusChanges

Spec == Init /\ [][Next]_vars
-----------------------------------------------------------------------------
(* Properties. *)

\* The status holds defined bits, every timer stays inside the tick and the
\* failure counter at its threshold.
TypeOK ==
  /\ hub.status \subseteq StatusBits /\ hub.announced \subseteq StatusBits
  /\ hub.age \in [Timers -> 0..(TickModulus - 1)]
  /\ hub.failures \in 0..FailureThreshold
  /\ hub.sent \subseteq {"heartbeat", "real", "mock", "mag", "baro"}
  /\ sensor.bus \in Buses
  /\ hist.quiet \in 0..Period["event"] /\ hist.silence \in 0..SilenceCap

\* The bits the hub publishes never contradict each other or the source the
\* next poll will use, whichever of the five places that write them ran
\* last: ready excludes fallback, a sensor due for re-initialisation is not
\* ready, and a filter holds real history only while the source is real.
StatusCoherent ==
  LET on(b) == b \in hub.status IN
  /\ on("ICM_READY") <=> ~on("FALLBACK")
  /\ on("IMU_ERROR") <=> on("FALLBACK")
  /\ on("INIT_ERROR") => on("FALLBACK")
  /\ hub.failures = FailureThreshold => ~on("ICM_READY")
  /\ hub.realFilter => on("ICM_READY")
  /\ ~IcmOnly => /\ on("MAG_READY") <=> ~on("MAG_ERROR")
                 /\ on("BARO_READY") <=> ~on("BARO_ERROR")

\* No poll publishes real and Mock samples together, and what it published
\* agrees with the ready bit it left.
FramesMatchStatus ==
  /\ "mock" \in hub.sent => "ICM_READY" \notin hub.status /\ "real" \notin hub.sent
  /\ "real" \in hub.sent => "ICM_READY" \in hub.status

\* Bit 7 of the status: an interrupt was processed within the timeout, in
\* true time and not in the wrapping tick.
Int1BitIsFresh == "INT1" \in hub.status => hist.quiet < Period["event"]

\* Whatever the bus does, the host never waits for IMU data, real or Mock,
\* longer than the event timeout and one pass of the loop.
ImuNeverSilent == hist.silence < SilenceCap

\* A sensor that stays healthy is the source within RecoveryTime, also when
\* the tick wrapped while a timer was stale, the events came at the worst of
\* times and the FIFO was full.
RecoveryBound == hist.healthy >= RecoveryTime => "ICM_READY" \in hub.status

\* A sensor that has been healthy for the event timeout is not given up: the
\* FIFO period, the pulses of INT1, the size of a batch and the event timeout
\* fit together.
HealthyStaysReady ==
  [][ hist.healthy >= Period["event"] /\ "ICM_READY" \in hub.status /\ sensor.configured
      /\ hist'.healthy > 0 => "ICM_READY" \in hub'.status ]_vars
=============================================================================
