---------------------------- MODULE ImuTimeline ----------------------------
(***************************************************************************)
(* The timestamps of the IMU samples the hub publishes: stamped backwards  *)
(* from the time of the FIFO read (icm42688_fifo_parse_stream), or with    *)
(* the time of the poll for a Mock sample, and then shifted onto one       *)
(* continuous timeline (imu_timestamp_normalizer_apply).  The tick is      *)
(* 32 bits wide in the code and TickModulus here.                          *)
(***************************************************************************)
EXTENDS Integers, Sequences, FiniteSets

CONSTANTS
  TickModulus,       \* 2^32 scaled down
  SamplePeriod,      \* SENSOR_HUB_IMU_FALLBACK_PERIOD_MS = ICM42688_SAMPLE_PERIOD_MS
  MaxBatch,          \* bound: packets in one FIFO read
  MaxGap,            \* bound: ticks between two publications
  MaximumSampleAge   \* compass_maximum_sample_age_ms of the MP157

ASSUME TimelineAssumption ==
  /\ {TickModulus, MaximumSampleAge} \subseteq Nat
  /\ {SamplePeriod, MaxBatch} \subseteq Nat \ {0}
  /\ MaxGap \in SamplePeriod..TickModulus
  /\ TickModulus > 2 * SamplePeriod * (MaxBatch + 1)

VARIABLES
  tick,          \* board_get_tick_ms()
  last,          \* normalizer: last_timestamp_ms
  initialized,   \* normalizer: initialized
  prev,          \* history: the last timestamp of the batch before this one
  batch,         \* history: the timestamps of the newest batch, as published
  position       \* history: where in the FIFO the samples of the batch stood
vars == <<tick, last, initialized, prev, batch, position>>

Ticks == 0..(TickModulus - 1)

Wrap(n) == n % TickModulus

\* The 32-bit difference a - b read as a signed number.
Signed(a, b) == LET d == Wrap(a - b) IN IF d >= TickModulus \div 2 THEN d - TickModulus ELSE d

Init ==
  /\ tick \in Ticks
  /\ last = 0 /\ initialized = FALSE
  /\ prev = 0 /\ batch = <<>> /\ position = <<>>
-----------------------------------------------------------------------------
Kinds == {"full", "single", "message"}

\* A message packet ends the valid data; a single-sensor packet takes its
\* place in time and is not published.
Valid(packets) == {i \in 1..Len(packets) : \A j \in 1..i : packets[j] # "message"}
Full(packets) == {i \in Valid(packets) : packets[i] = "full"}

\* Where the published samples stand, in order: the only element of the set.
Positions(packets) ==
  {p \in [1..Cardinality(Full(packets)) -> Full(packets)] :
     \A j, k \in DOMAIN p : j < k => p[j] < p[k]}

\* Fault: only the published packets count for the age.
SkippedForgotten(packets, p, newest) ==
  [k \in 1..Len(p) |->
     LET age == (Len(p) - k) * SamplePeriod IN
     IF newest >= age THEN newest - age ELSE 0]

\* The stamps of the samples at p of one FIFO read, cut off at zero.
Stamps(packets, p, newest) ==
  [k \in 1..Len(p) |->
     LET age == (Cardinality(Valid(packets)) - p[k]) * SamplePeriod IN
     IF newest >= age THEN newest - age ELSE 0]

\* Fault: the batches keep the stamps of their reads.
NotShifted(stamps) == stamps

\* imu_timestamp_normalizer_apply: the batch continues the last one.
Normalized(stamps) ==
  IF ~initialized THEN stamps
  ELSE LET shift == last + SamplePeriod - stamps[1] IN
       [k \in 1..Len(stamps) |-> Wrap(stamps[k] + shift)]

Publish(stamps, positions) ==
  LET out == Normalized(stamps) IN
  /\ batch' = out
  /\ position' = positions
  /\ prev' = IF initialized THEN last ELSE Wrap(out[1] - SamplePeriod)
  /\ last' = out[Len(out)]
  /\ initialized' = TRUE

Packets == UNION {[1..n -> Kinds] : n \in 1..MaxBatch}

\* A FIFO read `gap` ticks after the last publication returns a batch; the
\* sensor cannot have produced more packets than that time allows, and has
\* fewer to give where a failed read or a reset emptied the FIFO in between.
FifoBatch ==
  \E gap \in 1..MaxGap, packets \in Packets :
    /\ Full(packets) # {}
    /\ Len(packets) * SamplePeriod <= gap
    /\ tick' = Wrap(tick + gap)
    /\ \E p \in Positions(packets) : Publish(Stamps(packets, p, tick'), p)

\* The Mock source publishes one sample, at least a period after the last.
MockSample ==
  \E gap \in SamplePeriod..MaxGap :
    /\ tick' = Wrap(tick + gap)
    /\ Publish(<<tick'>>, <<1>>)

Next == FifoBatch \/ MockSample

Spec == Init /\ [][Next]_vars
-----------------------------------------------------------------------------
(* Properties. *)

\* Every published timestamp fits the 32-bit field of the frame.
TypeOK ==
  /\ tick \in Ticks /\ last \in Ticks /\ prev \in Ticks
  /\ batch \in Seq(Ticks) /\ Len(batch) = Len(position)

Published == <<prev>> \o batch

\* The published timeline never runs backwards and never leaves a hole wider
\* than one FIFO read, over every batch boundary, every change between the
\* real and the Mock source and every wrap of the tick.
Continuous ==
  \A k \in 1..Len(batch) :
    LET step == Signed(Published[k + 1], Published[k]) IN
    step >= 0 /\ step <= MaxBatch * SamplePeriod

\* ADR-0016: inside a batch the samples keep their distance.
SpacingKept ==
  \A k \in 1..(Len(batch) - 1) :
    Signed(batch[k + 1], batch[k]) = (position[k + 1] - position[k]) * SamplePeriod

\* The same while the tick is not within one batch behind its wrap.
SpacingKeptAwayFromWrap == tick >= MaxBatch * SamplePeriod => SpacingKept

\* The timestamp of an IMU sample just published and the uptime of the hub,
\* which is what a magnetometer sample of the same poll carries, are close
\* enough for the compass of the MP157.
TimestampIsUptime ==
  batch # <<>> => LET d == Signed(last, tick) IN d <= MaximumSampleAge /\ -d <= MaximumSampleAge
=============================================================================
