------------------------- MODULE Icm42688FifoProofs -------------------------
(***************************************************************************)
(* Safety of the read path of the ICM42688, for all sizes of watermark,    *)
(* batch and FIFO and all periods that FifoAssumption allows.              *)
(***************************************************************************)
EXTENDS Icm42688Fifo, TLAPS

SensorStates ==
  [world : Worlds, streaming : BOOLEAN, count : 0..DeviceCapacity, aligned : BOOLEAN]
LoopStates ==
  [pc : {"idle", "count", "burst", "flush", "check"}, available : 0..BatchCapacity,
   age : 0..EventTimeout, quiet : 0..EventTimeout, silent : BOOLEAN,
   failures : 0..FailureThreshold, initialized : BOOLEAN]
I2cStates == [attempt : 1..2, active : BOOLEAN]
HistStates ==
  [lag : 0..(MaxLag + 1), published : {"none", "samples", "garbage", "refused"},
   lost : BOOLEAN, disturbed : BOOLEAN, missed : BOOLEAN, refused : BOOLEAN,
   counted : BOOLEAN, gaveUp : BOOLEAN, flushFailed : BOOLEAN]

Types ==
  /\ sensor \in SensorStates /\ loop \in LoopStates /\ i2c \in I2cStates
  /\ hist \in HistStates /\ event \in BOOLEAN

\* Since the last batch nothing went wrong; nothing went wrong that the
\* diagnostics counters or Mock data told of.
Calm == ~hist.disturbed /\ ~hist.refused
Untold == ~hist.counted /\ ~hist.gaveUp

Resting == loop.pc \in {"idle", "check"}
Reading == loop.pc \in {"count", "burst"}

Transactions ==
  /\ i2c.attempt = 2 => loop.pc \in {"count", "flush"}
  /\ loop.pc # "burst" => loop.available = 0
  /\ loop.available <= sensor.count

\* The driver talks to the FIFO only of a sensor it has started.
Powered ==
  /\ loop.initialized => sensor.streaming
  /\ loop.pc \in {"count", "burst", "flush"} => loop.initialized

\* Within a read the timer and the lag both count from the start of the poll,
\* and so do the events: unless a pulse was missed, the next one has yet to
\* come only below the watermark.
ReadTimes ==
  Reading =>
    /\ hist.lag <= MaxLag => loop.age <= hist.lag
    /\ ~event /\ ~hist.missed => loop.age = 0 \/ (sensor.count < Watermark /\ loop.age <= sensor.count)

\* What a burst leaves in the FIFO came since the poll started.
BurstLeaves ==
  loop.pc = "burst" =>
    /\ hist.lag <= MaxLag => sensor.count - loop.available <= hist.lag
    /\ loop.age = 0 => sensor.count = loop.available
    /\ loop.age < MinPeriod => sensor.count - loop.available <= loop.age

\* Then the FIFO is read where it should be, and where nothing went wrong an
\* event is waiting between two reads unless the watermark is not yet reached.
Regular ==
  /\ Calm \/ Untold =>
       loop.initialized /\ sensor.aligned /\ loop.failures = 0 /\ loop.pc # "flush"
  /\ Calm /\ Resting =>
       /\ ~loop.silent
       /\ loop.age < MinPeriod => sensor.count <= loop.age
       /\ ~event => sensor.count < Watermark

\* On a good bus with a prompt loop the FIFO stays below the batch capacity:
\* less than a watermark when a poll leaves it alone, and one pass of the
\* loop before and one during the read that follows.
Undisturbed ==
  Calm =>
    /\ Good /\ hist.lag <= MaxLag
    /\ loop.quiet <= sensor.count + MaxLag
    /\ Resting => sensor.count <= Watermark - 1 + hist.lag
    /\ Reading => sensor.count <= Watermark - 1 + MaxLag + hist.lag
    /\ Reading /\ loop.silent => sensor.count > 0

\* A hole nobody told of yet is the overflow the next read will find.
Holes ==
  hist.lost => \/ ~Untold
               \/ sensor.count = DeviceCapacity /\ loop.pc \in {"idle", "check", "count"}

IInv ==
  /\ Types /\ Transactions /\ Powered /\ ReadTimes /\ BurstLeaves
  /\ Regular /\ Undisturbed /\ Holes
  /\ LossNeedsDisturbance /\ MisalignedOnlyByLostFlush
-----------------------------------------------------------------------------
LEMMA ConstantFacts ==
  /\ Watermark \in Nat \ {0} /\ BatchCapacity \in Nat \ {0} /\ MinPeriod \in Nat \ {0}
  /\ EventTimeout \in Nat \ {0} /\ FailureThreshold \in Nat \ {0} /\ MaxLag \in Nat \ {0}
  /\ DeviceCapacity \in Nat /\ DeviceCapacity > BatchCapacity /\ Watermark > MinPeriod
  /\ Watermark - 1 + 2 * MaxLag <= BatchCapacity
  /\ EventTimeout >= BatchCapacity /\ EventTimeout >= 2 * Watermark
BY FifoAssumption

LEMMA CappedFact ==
  ASSUME NEW n \in Nat, NEW cap \in Nat
  PROVE  /\ Capped(n, cap) \in 0..cap /\ Capped(n, cap) <= n
         /\ n <= cap => Capped(n, cap) = n
         /\ n > cap => Capped(n, cap) = cap
BY DEF Capped

\* The ranges of the numbers the parts of the invariant speak of.
LEMMA TypeFacts ==
  ASSUME Types
  PROVE  /\ sensor.count \in Nat /\ sensor.count <= DeviceCapacity
         /\ loop.available \in Nat /\ loop.available <= BatchCapacity
         /\ loop.age \in Nat /\ loop.age <= EventTimeout
         /\ loop.quiet \in Nat /\ loop.quiet <= EventTimeout
         /\ loop.failures \in Nat /\ loop.failures <= FailureThreshold
         /\ hist.lag \in Nat /\ hist.lag <= MaxLag + 1
BY ConstantFacts DEF Types, SensorStates, LoopStates, HistStates

LEMMA InitIInv == Init => IInv
<1> SUFFICES ASSUME Init PROVE IInv
  OBVIOUS
<1>1. /\ 0 \in 0..DeviceCapacity /\ 0 \in 0..BatchCapacity /\ 0 \in 0..EventTimeout
      /\ 0 \in 0..FailureThreshold /\ 0 \in 0..(MaxLag + 1)
  BY ConstantFacts
<1>2. sensor \in SensorStates
  BY <1>1 DEF Init, SensorStates, Worlds
<1>3. loop \in LoopStates
  BY <1>1 DEF Init, Restarted, LoopStates
<1>4. i2c \in I2cStates /\ hist \in HistStates /\ event \in BOOLEAN
  <2>1. i2c \in I2cStates
    BY DEF Init, I2cStates
  <2>2. hist \in HistStates
    BY <1>1 DEF Init, HistStates
  <2> QED
    BY <2>1, <2>2 DEF Init
<1> QED
  BY <1>2, <1>3, <1>4, ConstantFacts DEF Types, Init, Restarted, IInv, Transactions, Powered, ReadTimes, BurstLeaves,
     Regular, Undisturbed, Holes, LossNeedsDisturbance, MisalignedOnlyByLostFlush,
     Resting, Reading, Good, Calm, Untold
-----------------------------------------------------------------------------
(* One step.                                                               *)

LEMMA TickIInv == ASSUME IInv, Tick PROVE IInv'
<1>1. /\ Types /\ sensor \in SensorStates /\ loop \in LoopStates /\ hist \in HistStates
      /\ event \in BOOLEAN
  BY DEF IInv, Types
<1>2. /\ sensor.count \in Nat /\ sensor.count <= DeviceCapacity
      /\ loop.available \in Nat /\ loop.available <= BatchCapacity
      /\ loop.age \in Nat /\ loop.age <= EventTimeout
      /\ loop.quiet \in Nat /\ loop.quiet <= EventTimeout
      /\ hist.lag \in Nat /\ hist.lag <= MaxLag + 1
  BY <1>1, TypeFacts
<1>3. /\ Capped(sensor.count + 1, DeviceCapacity) \in 0..DeviceCapacity
      /\ Capped(sensor.count + 1, DeviceCapacity) =
           IF sensor.count < DeviceCapacity THEN sensor.count + 1 ELSE DeviceCapacity
      /\ Capped(loop.age + 1, EventTimeout) \in 0..EventTimeout
      /\ Capped(loop.age + 1, EventTimeout) =
           IF loop.age < EventTimeout THEN loop.age + 1 ELSE EventTimeout
      /\ Capped(loop.quiet + 1, EventTimeout) \in 0..EventTimeout
      /\ Capped(loop.quiet + 1, EventTimeout) =
           IF loop.quiet < EventTimeout THEN loop.quiet + 1 ELSE EventTimeout
      /\ Capped(hist.lag + 1, MaxLag + 1) \in 0..(MaxLag + 1)
      /\ Capped(hist.lag + 1, MaxLag + 1) = IF hist.lag < MaxLag + 1 THEN hist.lag + 1 ELSE MaxLag + 1
  BY <1>2, ConstantFacts DEF Capped
<1>4. /\ sensor' \in SensorStates
      /\ sensor'.world = sensor.world /\ sensor'.streaming = sensor.streaming
      /\ sensor'.aligned = sensor.aligned
      /\ sensor'.count = IF sensor.streaming THEN Capped(sensor.count + 1, DeviceCapacity)
                         ELSE sensor.count
  <2>1. CASE sensor.streaming
    BY <1>1, <1>3, <2>1 DEF Tick, SensorStates
  <2>2. CASE ~sensor.streaming
    BY <1>1, <2>2 DEF Tick, SensorStates
  <2> QED
    BY <2>1, <2>2
<1>5. /\ loop' \in LoopStates /\ loop'.pc = loop.pc /\ loop'.available = loop.available
      /\ loop'.silent = loop.silent /\ loop'.failures = loop.failures
      /\ loop'.initialized = loop.initialized
      /\ loop'.age = Capped(loop.age + 1, EventTimeout)
      /\ loop'.quiet = Capped(loop.quiet + 1, EventTimeout)
  BY <1>1, <1>3 DEF Tick, LoopStates
<1>6. /\ event' \in BOOLEAN /\ i2c' = i2c
      /\ sensor.streaming /\ sensor'.count >= Watermark => event' \/ ~Good
      /\ event => event'
      /\ ~(sensor.streaming /\ sensor'.count >= Watermark) => (event' <=> event)
      /\ Good => hist.lag < MaxLag
      /\ loop.pc = "burst" => sensor.count < DeviceCapacity
  <2>1. CASE sensor.streaming /\ sensor'.count >= Watermark
    BY <1>1, <2>1 DEF Tick, Pulses
  <2>2. CASE ~(sensor.streaming /\ sensor'.count >= Watermark)
    BY <1>1, <2>2 DEF Tick, Pulses
  <2> QED
    BY <2>1, <2>2
<1>7. /\ hist' \in HistStates
      /\ hist'.counted = hist.counted /\ hist'.flushFailed = hist.flushFailed
      /\ hist'.gaveUp = hist.gaveUp /\ hist'.refused = hist.refused
      /\ hist'.disturbed <=> (hist.disturbed \/ ~Good)
      /\ hist'.lost <=> (hist.lost \/ (sensor.streaming /\ sensor.count = DeviceCapacity))
      /\ hist'.missed <=>
           (~event' /\ (hist.missed \/ (sensor.streaming /\ sensor'.count >= Watermark)))
      /\ hist'.lag = Capped(hist.lag + 1, MaxLag + 1)
  <2> DEFINE missed == ~event' /\ (hist.missed \/ (sensor.streaming /\ sensor'.count >= Watermark))
             lost == hist.lost \/ (sensor.streaming /\ sensor.count = DeviceCapacity)
             disturbed == hist.disturbed \/ ~Good
             lag == Capped(hist.lag + 1, MaxLag + 1)
  <2>1. hist' = [hist EXCEPT !.lag = lag, !.missed = missed, !.lost = lost,
                             !.disturbed = disturbed]
    BY <1>1 DEF Tick, Disturb, HistStates, Pulses
  <2>2. missed \in BOOLEAN /\ lost \in BOOLEAN /\ disturbed \in BOOLEAN /\ lag \in 0..(MaxLag + 1)
    BY <1>3
  <2> HIDE DEF missed, lost, disturbed, lag
  <2>3. /\ hist' \in HistStates
        /\ hist'.counted = hist.counted /\ hist'.flushFailed = hist.flushFailed
        /\ hist'.gaveUp = hist.gaveUp /\ hist'.refused = hist.refused
        /\ hist'.disturbed = disturbed /\ hist'.lost = lost /\ hist'.missed = missed
        /\ hist'.lag = lag
    BY <1>1, <2>1, <2>2 DEF HistStates
  <2> QED
    BY <2>3 DEF missed, lost, disturbed, lag
<1>8. /\ Calm' <=> Calm /\ Good
      /\ Untold' <=> Untold
      /\ (Resting' <=> Resting) /\ (Reading' <=> Reading)
  BY <1>5, <1>7 DEF Calm, Untold, Resting, Reading
<1> HIDE DEF Tick
<1>9. Types'
  BY <1>4, <1>5, <1>6, <1>7 DEF IInv, Types
<1>10. Transactions'
  BY <1>2, <1>3, <1>4, <1>5, <1>6, ConstantFacts DEF IInv, Transactions
<1>11. Powered'
  BY <1>4, <1>5 DEF IInv, Powered
<1>12. ReadTimes'
  <2> SUFFICES ASSUME Reading
               PROVE  /\ hist'.lag <= MaxLag => loop'.age <= hist'.lag
                      /\ ~event' /\ ~hist'.missed =>
                           loop'.age = 0 \/ (sensor'.count < Watermark /\ loop'.age <= sensor'.count)
    BY <1>8 DEF ReadTimes
  <2>1. hist'.lag <= MaxLag => loop'.age <= hist'.lag
    BY <1>2, <1>3, <1>5, <1>7, ConstantFacts DEF IInv, ReadTimes
  <2>2. ASSUME ~event', ~hist'.missed
        PROVE  sensor'.count < Watermark /\ loop'.age <= sensor'.count
    <3>1. sensor.streaming
      BY DEF IInv, Powered, Reading
    <3>2. sensor'.count < Watermark /\ ~event /\ ~hist.missed
      BY <1>2, <1>3, <1>4, <1>6, <1>7, <2>2, <3>1, ConstantFacts
    <3>3. loop.age = 0 \/ loop.age <= sensor.count
      BY <3>2 DEF IInv, ReadTimes
    <3> QED
      BY <1>2, <1>3, <1>4, <1>5, <3>1, <3>2, <3>3, ConstantFacts
  <2> QED
    BY <2>1, <2>2
<1>13. BurstLeaves'
  BY <1>2, <1>3, <1>4, <1>5, <1>7, ConstantFacts DEF IInv, Powered, BurstLeaves
<1>14. Undisturbed'
  <2> SUFFICES ASSUME Calm' PROVE Undisturbed'
    BY DEF Undisturbed
  <2>1. Calm /\ Good /\ sensor.streaming
    BY <1>8 DEF IInv, Powered, Regular
  <2>2. /\ hist.lag < MaxLag /\ hist'.lag = hist.lag + 1
        /\ loop.quiet <= sensor.count + MaxLag
        /\ Resting => sensor.count <= Watermark - 1 + hist.lag
        /\ Reading => sensor.count <= Watermark - 1 + MaxLag + hist.lag
        /\ Reading /\ loop.silent => sensor.count > 0
    BY <1>2, <1>3, <1>6, <1>7, <2>1, ConstantFacts DEF IInv, Undisturbed
  <2>3. Resting \/ Reading
    BY <1>1, <2>1 DEF IInv, Regular, Resting, Reading, LoopStates
  <2>4. sensor.count < DeviceCapacity
    BY <1>2, <2>2, <2>3, ConstantFacts
  <2>5. sensor'.count = sensor.count + 1 /\ loop'.quiet <= loop.quiet + 1
    BY <1>2, <1>3, <1>4, <1>5, <2>1, <2>4, ConstantFacts
  <2>6. (Resting' <=> Resting) /\ (Reading' <=> Reading) /\ Good'
    BY <1>4, <1>5, <2>1 DEF Resting, Reading, Good
  <2>7. loop'.quiet \in Nat
    BY <1>2, <1>3, <1>5
  <2> QED
    BY <1>2, <1>5, <2>2, <2>5, <2>6, <2>7, ConstantFacts DEF Undisturbed
<1>15. Regular'
  <2>1. Calm' \/ Untold' =>
          loop'.initialized /\ sensor'.aligned /\ loop'.failures = 0 /\ loop'.pc # "flush"
    BY <1>4, <1>5, <1>8 DEF IInv, Regular
  <2>2. ASSUME Calm', Resting'
        PROVE  /\ ~loop'.silent
               /\ loop'.age < MinPeriod => sensor'.count <= loop'.age
               /\ ~event' => sensor'.count < Watermark
    <3>1. /\ Calm /\ Good /\ Resting /\ sensor.streaming
          /\ ~loop.silent /\ (loop.age < MinPeriod => sensor.count <= loop.age)
      BY <1>8, <2>2 DEF IInv, Regular, Powered
    <3>2. loop'.age < MinPeriod => sensor'.count <= loop'.age
      BY <1>2, <1>3, <1>4, <1>5, <3>1, ConstantFacts
    <3> QED
      BY <1>2, <1>3, <1>4, <1>5, <1>6, <3>1, <3>2, ConstantFacts
  <2> QED
    BY <2>1, <2>2 DEF Regular
<1>16. Holes'
  <2> SUFFICES ASSUME hist'.lost, Untold'
               PROVE  sensor'.count = DeviceCapacity /\ loop'.pc \in {"idle", "check", "count"}
    BY DEF Holes
  <2>1. sensor.streaming /\ Untold /\ loop.pc # "flush"
    BY <1>8 DEF IInv, Powered, Regular
  <2>2. sensor.count = DeviceCapacity /\ loop.pc # "burst"
    BY <1>2, <1>6, <1>7, <2>1 DEF IInv, Holes
  <2> QED
    BY <1>1, <1>2, <1>3, <1>4, <1>5, <2>1, <2>2 DEF LoopStates
<1>17. LossNeedsDisturbance'
  <2> SUFFICES ASSUME Calm' PROVE ~hist'.lost
    BY DEF LossNeedsDisturbance, Calm
  <2>1. Calm /\ ~hist.lost
    BY <1>8 DEF IInv, LossNeedsDisturbance, Calm
  <2>2. Resting \/ Reading
    BY <1>1, <2>1 DEF IInv, Regular, Resting, Reading, LoopStates
  <2>3. sensor.count < DeviceCapacity
    BY <1>2, <2>1, <2>2, ConstantFacts DEF IInv, Undisturbed
  <2> QED
    BY <1>2, <1>7, <2>1, <2>3
<1>18. MisalignedOnlyByLostFlush'
  BY <1>4, <1>5, <1>7 DEF IInv, MisalignedOnlyByLostFlush
<1> QED
  BY <1>9, <1>10, <1>11, <1>12, <1>13, <1>14, <1>15, <1>16, <1>17, <1>18 DEF IInv

LEMMA WorldChangesIInv == ASSUME IInv, WorldChanges PROVE IInv'
<1>1. /\ sensor \in SensorStates /\ hist \in HistStates /\ loop \in LoopStates
      /\ event' = event /\ loop' = loop /\ i2c' = i2c
  BY DEF IInv, Types, WorldChanges
<1>2. /\ sensor' \in SensorStates /\ sensor'.streaming = sensor.streaming
      /\ sensor'.count = sensor.count /\ sensor'.aligned = sensor.aligned
  BY <1>1 DEF WorldChanges, SensorStates
<1>3. /\ hist' \in HistStates /\ hist'.disturbed /\ hist'.lag = hist.lag
      /\ hist'.lost = hist.lost /\ hist'.counted = hist.counted
      /\ hist'.gaveUp = hist.gaveUp /\ hist'.missed = hist.missed
      /\ hist'.flushFailed = hist.flushFailed
  BY <1>1 DEF WorldChanges, HistStates
<1>4. Types' /\ Transactions' /\ Powered' /\ MisalignedOnlyByLostFlush'
  BY <1>1, <1>2, <1>3 DEF IInv, Types, Transactions, Powered, MisalignedOnlyByLostFlush
<1>5. ReadTimes' /\ BurstLeaves'
  BY <1>1, <1>2, <1>3 DEF IInv, ReadTimes, BurstLeaves, Reading
<1>6. Regular' /\ Holes'
  BY <1>1, <1>2, <1>3 DEF IInv, Regular, Holes, Resting, Calm, Untold
<1>7. Undisturbed' /\ LossNeedsDisturbance'
  BY <1>3 DEF Undisturbed, LossNeedsDisturbance, Calm
<1> QED
  BY <1>4, <1>5, <1>6, <1>7 DEF IInv

\* A transaction of the driver that fails: the world is bad, and either it is
\* tried once more or the driver goes on.
LEMMA HalFailsFact ==
  ASSUME i2c \in I2cStates, NEW replayable \in BOOLEAN, NEW after, HalFails(replayable, after)
  PROVE  /\ ~Good /\ i2c' \in I2cStates
         /\ \/ replayable /\ loop' = loop
            \/ loop' = after /\ i2c'.attempt = 1
<1>1. PICK recovered \in BOOLEAN :
        IF replayable /\ i2c.attempt = 1 /\ recovered
        THEN i2c' = [i2c EXCEPT !.attempt = 2] /\ loop' = loop
        ELSE /\ i2c' = [attempt |-> 1, active |-> replayable \/ ~recovered]
             /\ loop' = after
  BY DEF HalFails
<1>2. CASE replayable /\ i2c.attempt = 1 /\ recovered
  BY <1>1, <1>2 DEF HalFails, I2cStates
<1>3. CASE ~(replayable /\ i2c.attempt = 1 /\ recovered)
  <2>1. i2c' = [attempt |-> 1, active |-> replayable \/ ~recovered] /\ loop' = after
    BY <1>1, <1>3
  <2>2. (replayable \/ ~recovered) \in BOOLEAN
    OBVIOUS
  <2>3. i2c' \in I2cStates /\ i2c'.attempt = 1
    BY <2>1, <2>2 DEF I2cStates
  <2> QED
    BY <2>1, <2>3 DEF HalFails
<1> QED
  BY <1>2, <1>3

LEMMA HalOkFact ==
  ASSUME HalOk
  PROVE  i2c' \in I2cStates /\ i2c'.attempt = 1 /\ sensor.world # "dead"
BY DEF HalOk, I2cStates

LEMMA GotoFact ==
  ASSUME loop \in LoopStates, NEW pc \in {"idle", "count", "burst", "flush", "check"}
  PROVE  Goto(pc) = [loop EXCEPT !.pc = pc] /\ Goto(pc) \in LoopStates
BY DEF Goto, LoopStates

LEMMA FailedFact ==
  ASSUME Types
  PROVE  /\ Failed \in LoopStates /\ Failed.pc = "check"
         /\ Failed.available = loop.available /\ Failed.age = loop.age
         /\ Failed.initialized = loop.initialized
<1>1. loop \in LoopStates /\ loop.failures + 1 \in Nat /\ FailureThreshold \in Nat
  BY TypeFacts, ConstantFacts DEF Types
<1>2. Capped(loop.failures + 1, FailureThreshold) \in 0..FailureThreshold
  BY <1>1, CappedFact
<1> QED
  BY <1>1, <1>2 DEF Failed, LoopStates

LEMMA FlushedFact ==
  ASSUME sensor \in SensorStates
  PROVE  /\ Flushed \in SensorStates /\ Flushed.count = 0 /\ Flushed.aligned
         /\ Flushed.streaming = sensor.streaming
<1>1. 0 \in 0..DeviceCapacity
  BY ConstantFacts
<1> QED
  BY <1>1 DEF Flushed, SensorStates

\* Once something went wrong and was told of, the transactions, the timers and
\* the lost flush are all that is left to show.
LEMMA CountedStep ==
  ASSUME Types', Transactions', Powered', ReadTimes', BurstLeaves', MisalignedOnlyByLostFlush',
         ~Calm', ~Untold'
  PROVE  IInv'
BY DEF IInv, Regular, Undisturbed, Holes, LossNeedsDisturbance, Calm, Untold

\* What the end of a poll notes of a world that is not good and of a timeout.
LEMMA GivenUpFact ==
  ASSUME hist \in HistStates, loop \in LoopStates
  PROVE  /\ GivenUp(hist) \in HistStates
         /\ GivenUp(hist).disturbed <=> (hist.disturbed \/ ~Good)
         /\ GivenUp(hist).gaveUp <=> (hist.gaveUp \/ loop.silent)
         /\ GivenUp(hist).lag = hist.lag /\ GivenUp(hist).lost = hist.lost
         /\ GivenUp(hist).counted = hist.counted /\ GivenUp(hist).refused = hist.refused
         /\ GivenUp(hist).flushFailed = hist.flushFailed
<1> DEFINE disturbed == hist.disturbed \/ ~Good
           gaveUp == hist.gaveUp \/ loop.silent
<1>1. GivenUp(hist) = [hist EXCEPT !.disturbed = disturbed, !.gaveUp = gaveUp]
  BY DEF GivenUp, Disturb, HistStates
<1>2. disturbed \in BOOLEAN /\ gaveUp \in BOOLEAN
  BY DEF LoopStates
<1> HIDE DEF disturbed, gaveUp
<1>3. /\ GivenUp(hist) \in HistStates
      /\ GivenUp(hist).disturbed = disturbed /\ GivenUp(hist).gaveUp = gaveUp
      /\ GivenUp(hist).lag = hist.lag /\ GivenUp(hist).lost = hist.lost
      /\ GivenUp(hist).counted = hist.counted /\ GivenUp(hist).refused = hist.refused
      /\ GivenUp(hist).flushFailed = hist.flushFailed
  BY <1>1, <1>2 DEF HistStates
<1> QED
  BY <1>3 DEF disturbed, gaveUp

LEMMA CountFailsIInv == ASSUME IInv, CountFails PROVE IInv'
<1>1. /\ Types /\ loop \in LoopStates /\ hist \in HistStates /\ i2c \in I2cStates
      /\ loop.pc = "count" /\ sensor' = sensor /\ event' = event
      /\ HalFails(TRUE, Failed)
      /\ hist' = [Disturb(hist) EXCEPT !.counted = TRUE]
  BY DEF IInv, Types, CountFails
<1>2. /\ ~Good /\ i2c' \in I2cStates
      /\ loop' = loop \/ (loop' = Failed /\ i2c'.attempt = 1)
  BY <1>1, HalFailsFact
<1>3. /\ hist' \in HistStates /\ hist'.disturbed /\ hist'.counted
      /\ hist'.lag = hist.lag /\ hist'.flushFailed = hist.flushFailed
      /\ hist'.missed = hist.missed
  BY <1>1, <1>2 DEF Disturb, HistStates
<1>4. /\ loop' \in LoopStates
      /\ loop'.pc = "count" \/ (loop'.pc = "check" /\ i2c'.attempt = 1)
      /\ loop'.available = loop.available /\ loop'.age = loop.age
      /\ loop'.initialized = loop.initialized
  BY <1>1, <1>2, FailedFact
<1>5. Types'
  BY <1>1, <1>2, <1>3, <1>4 DEF IInv, Types
<1>6. Transactions' /\ Powered' /\ MisalignedOnlyByLostFlush'
  BY <1>1, <1>3, <1>4 DEF IInv, Transactions, Powered, MisalignedOnlyByLostFlush
<1>7. ReadTimes' /\ BurstLeaves'
  BY <1>1, <1>3, <1>4 DEF IInv, ReadTimes, BurstLeaves, Reading
<1> QED
  BY <1>3, <1>5, <1>6, <1>7, CountedStep DEF Calm, Untold

LEMMA FlushIInv == ASSUME IInv, Flush PROVE IInv'
<1>1. /\ Types /\ sensor \in SensorStates /\ loop \in LoopStates /\ hist \in HistStates
      /\ loop.pc = "flush" /\ event' = event /\ event \in BOOLEAN
      /\ sensor' = [sensor EXCEPT !.count = 0, !.aligned = TRUE] /\ loop' = Failed
      /\ hist' = [Disturb(hist) EXCEPT !.lost = @ \/ sensor.count > 0, !.flushFailed = FALSE]
  BY DEF IInv, Types, Flush, Flushed
<1>2. i2c' \in I2cStates /\ i2c'.attempt = 1
  BY HalOkFact DEF Flush
<1>3. /\ sensor' \in SensorStates /\ sensor'.count = 0 /\ sensor'.aligned
      /\ sensor'.streaming = sensor.streaming
  BY <1>1, FlushedFact DEF Flushed
<1>4. ~Calm /\ ~Untold
  BY <1>1 DEF IInv, Regular
<1>5. hist' \in HistStates /\ ~Calm' /\ ~Untold'
  <2>1. /\ hist' \in HistStates /\ hist'.refused = hist.refused /\ hist'.counted = hist.counted
        /\ hist'.gaveUp = hist.gaveUp /\ (hist.disturbed => hist'.disturbed)
    BY <1>1 DEF Disturb, HistStates
  <2> QED
    BY <1>4, <2>1 DEF Calm, Untold
<1>6. /\ loop' \in LoopStates /\ loop'.pc = "check" /\ loop'.available = 0
      /\ loop'.initialized = loop.initialized
  BY <1>1, FailedFact DEF IInv, Transactions
<1>7. Types'
  BY <1>1, <1>2, <1>3, <1>5, <1>6 DEF Types
<1>8. Transactions' /\ Powered' /\ MisalignedOnlyByLostFlush'
  BY <1>2, <1>3, <1>6 DEF IInv, Transactions, Powered, MisalignedOnlyByLostFlush
<1>9. ReadTimes' /\ BurstLeaves'
  BY <1>6 DEF ReadTimes, BurstLeaves, Reading
<1> QED
  BY <1>5, <1>7, <1>8, <1>9, CountedStep

LEMMA FlushFailsIInv == ASSUME IInv, FlushFails PROVE IInv'
<1>1. /\ Types /\ sensor \in SensorStates /\ loop \in LoopStates /\ hist \in HistStates
      /\ i2c \in I2cStates /\ loop.pc = "flush" /\ event' = event /\ event \in BOOLEAN
      /\ sensor' \in {sensor, [sensor EXCEPT !.count = 0, !.aligned = TRUE]}
      /\ HalFails(TRUE, Failed)
      /\ hist' = [Disturb(hist) EXCEPT !.lost = TRUE, !.counted = TRUE,
                                       !.flushFailed = (loop'.pc = "check")]
  BY DEF IInv, Types, FlushFails, Flushed
<1>2. /\ ~Good /\ i2c' \in I2cStates
      /\ loop' = loop \/ (loop' = Failed /\ i2c'.attempt = 1)
  BY <1>1, HalFailsFact
<1>3. sensor' \in SensorStates /\ sensor'.streaming = sensor.streaming
  BY <1>1, FlushedFact DEF Flushed
<1>4. /\ hist' \in HistStates /\ hist'.disturbed /\ hist'.counted
      /\ hist'.flushFailed <=> loop'.pc = "check"
  BY <1>1, <1>2 DEF Disturb, HistStates
<1>5. /\ loop' \in LoopStates /\ loop'.available = 0
      /\ loop'.pc = "flush" \/ (loop'.pc = "check" /\ i2c'.attempt = 1)
      /\ loop'.initialized = loop.initialized
  BY <1>1, <1>2, FailedFact DEF IInv, Transactions
<1>6. Types'
  BY <1>1, <1>2, <1>3, <1>4, <1>5 DEF Types
<1>7. sensor'.count \in Nat
  BY <1>6, TypeFacts DEF Types, SensorStates
<1>8. Transactions' /\ Powered' /\ MisalignedOnlyByLostFlush'
  BY <1>1, <1>3, <1>4, <1>5, <1>7 DEF IInv, Transactions, Powered, MisalignedOnlyByLostFlush
<1>9. ReadTimes' /\ BurstLeaves'
  BY <1>5 DEF ReadTimes, BurstLeaves, Reading
<1> QED
  BY <1>4, <1>6, <1>8, <1>9, CountedStep DEF Calm, Untold

LEMMA BurstFailsIInv == ASSUME IInv, BurstFails PROVE IInv'
<1> DEFINE after == [Goto("flush") EXCEPT !.available = 0]
<1>1. PICK popped \in 0..loop.available, aligned \in BOOLEAN :
        /\ loop.pc = "burst" /\ HalFails(FALSE, after) /\ event' = event
        /\ sensor' = [sensor EXCEPT !.count = @ - popped, !.aligned = @ /\ aligned]
        /\ hist' = [Disturb(hist) EXCEPT !.lost = @ \/ popped > 0 \/ ~aligned, !.counted = TRUE]
  BY DEF BurstFails
<1>2. /\ Types /\ sensor \in SensorStates /\ loop \in LoopStates /\ hist \in HistStates
      /\ i2c \in I2cStates /\ event \in BOOLEAN /\ loop.initialized
  BY <1>1 DEF IInv, Types, Powered
<1>3. /\ after \in LoopStates /\ after.pc = "flush" /\ after.available = 0
      /\ after.initialized
  <2>1. 0 \in 0..BatchCapacity
    BY ConstantFacts
  <2> QED
    BY <1>2, <2>1, GotoFact DEF LoopStates
<1> HIDE DEF after
<1>4. ~Good /\ i2c' \in I2cStates /\ loop' = after /\ i2c'.attempt = 1
  <2>1. ~Good /\ i2c' \in I2cStates /\ ((FALSE /\ loop' = loop) \/ (loop' = after /\ i2c'.attempt = 1))
    BY <1>1, <1>2, HalFailsFact
  <2> QED
    BY <2>1
<1>5. sensor' \in SensorStates /\ sensor'.streaming = sensor.streaming
  <2>1. sensor.count - popped \in 0..DeviceCapacity
    BY <1>1, <1>2, TypeFacts, ConstantFacts DEF IInv, Transactions
  <2> QED
    BY <1>1, <1>2, <2>1 DEF SensorStates
<1>6. hist' \in HistStates /\ hist'.disturbed /\ hist'.counted
  <2> DEFINE lost == hist.lost \/ popped > 0 \/ ~aligned
  <2>1. lost \in BOOLEAN
    OBVIOUS
  <2>2. hist' = [Disturb(hist) EXCEPT !.lost = lost, !.counted = TRUE]
    BY <1>1, <1>2 DEF Disturb, HistStates
  <2> HIDE DEF lost
  <2> QED
    BY <1>2, <1>4, <2>1, <2>2 DEF Disturb, HistStates
<1>7. Types'
  BY <1>1, <1>2, <1>3, <1>4, <1>5, <1>6 DEF Types
<1>8. sensor'.count \in Nat
  BY <1>7, TypeFacts DEF Types, SensorStates
<1>9. Transactions' /\ Powered' /\ MisalignedOnlyByLostFlush'
  BY <1>2, <1>3, <1>4, <1>5, <1>8 DEF IInv, Transactions, Powered, MisalignedOnlyByLostFlush
<1>10. ReadTimes' /\ BurstLeaves'
  BY <1>3, <1>4 DEF ReadTimes, BurstLeaves, Reading
<1> QED
  BY <1>6, <1>7, <1>9, <1>10, CountedStep DEF Calm, Untold

LEMMA ReinitializeFailsIInv == ASSUME IInv, ReinitializeFails PROVE IInv'
<1> DEFINE after == [Goto("idle") EXCEPT !.failures = FailureThreshold, !.silent = FALSE,
                                         !.initialized = FALSE]
           off == [Flushed EXCEPT !.streaming = FALSE]
<1>1. /\ loop.pc = "check" /\ HalFails(FALSE, after) /\ event' = event
      /\ sensor' = sensor \/ sensor' = off
      /\ hist' = [GivenUp(hist) EXCEPT !.lost = TRUE, !.counted = TRUE,
                                       !.flushFailed = @ /\ ~sensor'.aligned]
  BY DEF ReinitializeFails
<1>2. /\ Types /\ sensor \in SensorStates /\ loop \in LoopStates /\ hist \in HistStates
      /\ i2c \in I2cStates /\ event \in BOOLEAN
  BY <1>1 DEF IInv, Types
<1>3. /\ after \in LoopStates /\ after.pc = "idle" /\ after.available = 0
      /\ ~after.initialized
  <2>1. FailureThreshold \in 0..FailureThreshold
    BY ConstantFacts
  <2>2. loop.available = 0
    BY <1>1 DEF IInv, Transactions
  <2>3. LET g == Goto("idle") IN g \in LoopStates /\ g.pc = "idle" /\ g.available = 0
    BY <1>2, <2>2, GotoFact DEF LoopStates
  <2> QED
    BY <2>1, <2>3 DEF LoopStates
<1>4. off \in SensorStates /\ off.aligned
  BY <1>2, FlushedFact DEF SensorStates
<1> HIDE DEF after, off
<1>5. ~Good /\ i2c' \in I2cStates /\ loop' = after /\ i2c'.attempt = 1
  <2>1. ~Good /\ i2c' \in I2cStates /\ ((FALSE /\ loop' = loop) \/ (loop' = after /\ i2c'.attempt = 1))
    BY <1>1, <1>2, HalFailsFact
  <2> QED
    BY <2>1
<1>6. sensor' \in SensorStates /\ (sensor'.aligned \/ sensor' = sensor)
  BY <1>1, <1>2, <1>4
<1>7. /\ hist' \in HistStates /\ hist'.disturbed /\ hist'.counted
      /\ hist'.flushFailed <=> (hist.flushFailed /\ ~sensor'.aligned)
  <2> DEFINE flushFailed == hist.flushFailed /\ ~sensor'.aligned
  <2>1. flushFailed \in BOOLEAN
    OBVIOUS
  <2>2. hist' = [GivenUp(hist) EXCEPT !.lost = TRUE, !.counted = TRUE, !.flushFailed = flushFailed]
    BY <1>1, <1>2, GivenUpFact DEF HistStates
  <2> HIDE DEF flushFailed
  <2>3. /\ hist' \in HistStates /\ hist'.disturbed /\ hist'.counted
        /\ hist'.flushFailed = flushFailed
    BY <1>2, <1>5, <2>1, <2>2, GivenUpFact DEF HistStates
  <2> QED
    BY <2>3 DEF flushFailed
<1>8. Types'
  BY <1>1, <1>2, <1>3, <1>5, <1>6, <1>7 DEF Types
<1>9. sensor'.count \in Nat
  BY <1>8, TypeFacts DEF Types, SensorStates
<1>10. Transactions' /\ Powered' /\ MisalignedOnlyByLostFlush'
  BY <1>1, <1>3, <1>5, <1>6, <1>7, <1>9 DEF IInv, Transactions, Powered, MisalignedOnlyByLostFlush
<1>11. ReadTimes' /\ BurstLeaves'
  BY <1>3, <1>5 DEF ReadTimes, BurstLeaves, Reading
<1> QED
  BY <1>7, <1>8, <1>10, <1>11, CountedStep DEF Calm, Untold

\* The sensor is given up behind a timeout, which the loop makes known, or
\* behind failures, which were counted.
LEMMA ReinitializeIInv == ASSUME IInv, Reinitialize PROVE IInv'
<1>1. /\ Types /\ sensor \in SensorStates /\ loop \in LoopStates /\ hist \in HistStates
      /\ loop.pc = "check" /\ event' = FALSE /\ loop' = Restarted
      /\ FailuresAfterTimeout = FailureThreshold
      /\ sensor' = [Flushed EXCEPT !.streaming = TRUE]
      /\ hist' = [GivenUp(hist) EXCEPT !.lost = @ \/ sensor.count > 0, !.flushFailed = FALSE]
  BY DEF IInv, Types, Reinitialize
<1>2. i2c' \in I2cStates /\ i2c'.attempt = 1
  BY HalOkFact DEF Reinitialize
<1>3. /\ sensor' \in SensorStates /\ sensor'.count = 0 /\ sensor'.aligned /\ sensor'.streaming
  BY <1>1, FlushedFact DEF SensorStates
<1>4. ~Calm /\ (~Untold \/ loop.silent)
  BY <1>1, ConstantFacts DEF IInv, Regular, Resting, FailuresAfterTimeout
<1>5. hist' \in HistStates /\ ~Calm' /\ ~Untold'
  <2>1. /\ hist' \in HistStates /\ hist'.refused = hist.refused /\ hist'.counted = hist.counted
        /\ hist'.gaveUp = GivenUp(hist).gaveUp /\ hist'.disturbed = GivenUp(hist).disturbed
    BY <1>1, GivenUpFact DEF HistStates
  <2> QED
    BY <1>1, <1>4, <2>1, GivenUpFact DEF Calm, Untold
<1>6. Restarted \in LoopStates
  <2>1. 0 \in 0..BatchCapacity /\ 0 \in 0..EventTimeout /\ 0 \in 0..FailureThreshold
    BY ConstantFacts
  <2> QED
    BY <2>1 DEF Restarted, LoopStates
<1>7. Types'
  BY <1>1, <1>2, <1>3, <1>5, <1>6 DEF Types
<1>8. Transactions' /\ Powered' /\ MisalignedOnlyByLostFlush' /\ ReadTimes' /\ BurstLeaves'
  BY <1>1, <1>2, <1>3 DEF Restarted, Transactions, Powered, MisalignedOnlyByLostFlush,
                          ReadTimes, BurstLeaves, Reading
<1> QED
  BY <1>5, <1>7, <1>8, CountedStep

LEMMA EndPollIInv == ASSUME IInv, EndPoll PROVE IInv'
<1>1. /\ Types /\ sensor \in SensorStates /\ loop \in LoopStates /\ hist \in HistStates
      /\ event \in BOOLEAN /\ loop.pc = "check"
      /\ sensor' = sensor /\ event' = event /\ i2c' = i2c
      /\ loop' = [Goto("idle") EXCEPT !.failures = FailuresAfterTimeout, !.silent = FALSE]
      /\ hist' = GivenUp(hist)
  BY DEF IInv, Types, EndPoll
<1>2. FailuresAfterTimeout \in 0..FailureThreshold
  BY <1>1, ConstantFacts DEF FailuresAfterTimeout, LoopStates
<1>3. /\ loop' \in LoopStates /\ loop'.pc = "idle" /\ ~loop'.silent
      /\ loop'.failures = FailuresAfterTimeout /\ loop'.available = loop.available
      /\ loop'.age = loop.age /\ loop'.quiet = loop.quiet
      /\ loop'.initialized = loop.initialized
  <2> DEFINE failures == FailuresAfterTimeout
  <2>1. /\ Goto("idle") = [loop EXCEPT !.pc = "idle"]
        /\ loop' = [Goto("idle") EXCEPT !.failures = failures, !.silent = FALSE]
    BY <1>1, GotoFact
  <2>2. failures \in 0..FailureThreshold /\ loop \in LoopStates
    BY <1>1, <1>2
  <2> HIDE DEF failures
  <2>3. /\ loop' \in LoopStates /\ loop'.pc = "idle" /\ ~loop'.silent
        /\ loop'.failures = failures /\ loop'.available = loop.available
        /\ loop'.age = loop.age /\ loop'.quiet = loop.quiet
        /\ loop'.initialized = loop.initialized
    BY <2>1, <2>2 DEF LoopStates
  <2> QED
    BY <2>3 DEF failures
<1>4. /\ hist' \in HistStates /\ hist'.lag = hist.lag /\ hist'.lost = hist.lost
      /\ hist'.flushFailed = hist.flushFailed
      /\ Calm' <=> Calm /\ Good
      /\ Untold' <=> Untold /\ ~loop.silent
  BY <1>1, GivenUpFact DEF Calm, Untold
<1>5. Types' /\ Transactions' /\ Powered' /\ MisalignedOnlyByLostFlush' /\ ReadTimes' /\ BurstLeaves'
  BY <1>1, <1>3, <1>4 DEF IInv, Types, Transactions, Powered, MisalignedOnlyByLostFlush,
                          ReadTimes, BurstLeaves, Reading
<1>6. Regular'
  BY <1>1, <1>3, <1>4 DEF IInv, Regular, Resting, FailuresAfterTimeout
<1>7. Undisturbed'
  BY <1>1, <1>3, <1>4 DEF IInv, Undisturbed, Resting, Reading, Good
<1>8. Holes'
  BY <1>1, <1>3, <1>4 DEF IInv, Holes
<1>9. LossNeedsDisturbance'
  BY <1>4 DEF IInv, LossNeedsDisturbance, Calm
<1> QED
  BY <1>5, <1>6, <1>7, <1>8, <1>9 DEF IInv

LEMMA PollIInv == ASSUME IInv, Poll PROVE IInv'
<1> DEFINE reads == event /\ loop.age >= MinPeriod
           silent == loop.quiet = EventTimeout
<1>1. /\ Types /\ sensor \in SensorStates /\ loop \in LoopStates /\ hist \in HistStates
      /\ event \in BOOLEAN /\ loop.pc = "idle" /\ event' = FALSE /\ sensor' = sensor /\ i2c' = i2c
      /\ loop' = CASE reads /\ loop.initialized -> [Goto("count") EXCEPT !.age = 0, !.silent = silent]
                   [] reads /\ ~loop.initialized -> [Failed EXCEPT !.age = 0, !.silent = silent]
                   [] OTHER -> [Goto("check") EXCEPT !.silent = silent]
      /\ hist' = Disturb([hist EXCEPT !.lag = 0, !.published = "none"])
  BY DEF IInv, Types, Poll
<1>2. /\ sensor.count \in Nat /\ sensor.count <= DeviceCapacity
      /\ loop.age \in Nat /\ loop.age <= EventTimeout
      /\ loop.quiet \in Nat /\ loop.quiet <= EventTimeout
      /\ hist.lag \in Nat /\ silent \in BOOLEAN
      /\ 0 \in 0..EventTimeout /\ 0 \in 0..(MaxLag + 1)
  BY <1>1, TypeFacts, ConstantFacts
<1>3. /\ hist' \in HistStates /\ hist'.lag = 0 /\ hist'.lost = hist.lost
      /\ hist'.flushFailed = hist.flushFailed
      /\ Calm' <=> Calm /\ Good
      /\ Untold' <=> Untold
  <2>1. /\ hist' \in HistStates /\ hist'.lag = 0 /\ hist'.lost = hist.lost
        /\ hist'.flushFailed = hist.flushFailed /\ hist'.counted = hist.counted
        /\ hist'.gaveUp = hist.gaveUp /\ hist'.refused = hist.refused
        /\ hist'.disturbed <=> (hist.disturbed \/ ~Good)
    BY <1>1, <1>2 DEF Disturb, HistStates
  <2> QED
    BY <2>1 DEF Calm, Untold
<1> HIDE DEF silent
<1>4. CASE reads /\ loop.initialized
  <2>1. /\ loop' \in LoopStates /\ loop'.pc = "count" /\ loop'.age = 0 /\ loop'.silent = silent
        /\ loop'.quiet = loop.quiet /\ loop'.available = loop.available
        /\ loop'.failures = loop.failures /\ loop'.initialized
    <3>1. loop' = [Goto("count") EXCEPT !.age = 0, !.silent = silent]
      BY <1>1, <1>4
    <3>2. Goto("count") \in LoopStates /\ Goto("count") = [loop EXCEPT !.pc = "count"]
      BY <1>1, GotoFact
    <3> QED
      BY <1>1, <1>2, <1>4, <3>1, <3>2 DEF LoopStates
  <2>2. Types' /\ Transactions' /\ Powered' /\ MisalignedOnlyByLostFlush'
    <3>1. Types'
      BY <1>1, <1>3, <2>1 DEF Types
    <3>2. Transactions'
      BY <1>1, <1>2, <2>1 DEF IInv, Transactions
    <3>3. Powered' /\ MisalignedOnlyByLostFlush'
      BY <1>1, <1>3, <1>4, <2>1 DEF IInv, Powered, MisalignedOnlyByLostFlush
    <3> QED
      BY <3>1, <3>2, <3>3
  <2>3. ReadTimes' /\ BurstLeaves' /\ Regular'
    BY <1>1, <1>2, <1>3, <2>1, ConstantFacts
       DEF IInv, ReadTimes, BurstLeaves, Regular, Reading, Resting
  <2>4. Undisturbed'
    <3> SUFFICES ASSUME Calm' PROVE Undisturbed'
      BY DEF Undisturbed
    <3>1. /\ Good /\ hist.lag <= MaxLag /\ loop.quiet <= sensor.count + MaxLag
          /\ sensor.count <= Watermark - 1 + hist.lag
      BY <1>1, <1>3 DEF IInv, Undisturbed, Resting
    <3>2. silent => sensor.count > 0
      BY <1>2, <3>1, ConstantFacts DEF silent
    <3>3. sensor.count <= Watermark - 1 + MaxLag + 0
      BY <1>2, <3>1, ConstantFacts
    <3> QED
      BY <1>1, <1>3, <2>1, <3>1, <3>2, <3>3, ConstantFacts DEF Undisturbed, Reading, Resting, Good
  <2>5. Holes' /\ LossNeedsDisturbance'
    BY <1>1, <1>3, <2>1 DEF IInv, Holes, LossNeedsDisturbance, Calm
  <2> QED
    BY <2>2, <2>3, <2>4, <2>5 DEF IInv
<1>5. CASE reads /\ ~loop.initialized
  <2>1. /\ loop' \in LoopStates /\ loop'.pc = "check" /\ loop'.available = loop.available
        /\ ~loop'.initialized
    <3>1. loop' = [Failed EXCEPT !.age = 0, !.silent = silent]
      BY <1>1, <1>5
    <3> QED
      BY <1>1, <1>2, <1>5, <3>1, FailedFact DEF LoopStates
  <2>2. ~Calm /\ ~Untold
    BY <1>1, <1>5 DEF IInv, Regular
  <2>3. Types' /\ Transactions' /\ Powered' /\ MisalignedOnlyByLostFlush'
    BY <1>1, <1>3, <2>1 DEF IInv, Types, Transactions, Powered, MisalignedOnlyByLostFlush
  <2>4. ReadTimes' /\ BurstLeaves'
    BY <2>1 DEF ReadTimes, BurstLeaves, Reading
  <2> QED
    BY <1>3, <2>2, <2>3, <2>4, CountedStep
<1>6. CASE ~reads
  <2>1. /\ loop' \in LoopStates /\ loop'.pc = "check" /\ loop'.silent = silent
        /\ loop'.age = loop.age /\ loop'.quiet = loop.quiet /\ loop'.available = loop.available
        /\ loop'.failures = loop.failures /\ loop'.initialized = loop.initialized
    <3>1. loop' = [Goto("check") EXCEPT !.silent = silent]
      BY <1>1, <1>6
    <3>2. Goto("check") \in LoopStates /\ Goto("check") = [loop EXCEPT !.pc = "check"]
      BY <1>1, GotoFact
    <3> QED
      BY <1>1, <1>2, <3>1, <3>2 DEF LoopStates
  <2>2. Types' /\ Transactions' /\ Powered' /\ MisalignedOnlyByLostFlush'
    BY <1>1, <1>3, <2>1 DEF IInv, Types, Transactions, Powered, MisalignedOnlyByLostFlush
  <2>3. ReadTimes' /\ BurstLeaves'
    BY <2>1 DEF ReadTimes, BurstLeaves, Reading
  <2>4. Calm => sensor.count < Watermark /\ (loop.age < MinPeriod => sensor.count <= loop.age)
    BY <1>1, <1>2, <1>6, ConstantFacts DEF IInv, Regular, Resting
  <2>5. Calm => ~silent /\ loop.quiet <= sensor.count + MaxLag
    BY <1>2, <2>4, ConstantFacts DEF IInv, Undisturbed, silent
  <2>6. Regular'
    BY <1>1, <1>3, <2>1, <2>4, <2>5 DEF IInv, Regular, Resting
  <2>7. Undisturbed'
    BY <1>1, <1>2, <1>3, <2>1, <2>4, <2>5, ConstantFacts
       DEF IInv, Undisturbed, Resting, Reading, Good
  <2>8. Holes' /\ LossNeedsDisturbance'
    BY <1>1, <1>3, <2>1 DEF IInv, Holes, LossNeedsDisturbance, Calm
  <2> QED
    BY <2>2, <2>3, <2>6, <2>7, <2>8 DEF IInv
<1> QED
  BY <1>4, <1>5, <1>6

LEMMA ReadCountIInv == ASSUME IInv, ReadCount PROVE IInv'
<1>1. /\ Types /\ sensor \in SensorStates /\ loop \in LoopStates /\ hist \in HistStates
      /\ event \in BOOLEAN /\ loop.pc = "count" /\ sensor' = sensor /\ event' = event
      /\ loop' = CASE sensor.count = 0 -> Goto("check")
                   [] sensor.count \in 1..BatchCapacity ->
                        [Goto("burst") EXCEPT !.available = sensor.count]
                   [] OTHER -> Goto("flush")
      /\ hist' = [Disturb(hist) EXCEPT !.counted = @ \/ sensor.count \notin 1..BatchCapacity]
  BY DEF IInv, Types, ReadCount
<1>2. i2c' \in I2cStates /\ i2c'.attempt = 1
  BY HalOkFact DEF ReadCount
<1>3. /\ sensor.count \in Nat /\ sensor.count <= DeviceCapacity
      /\ loop.age \in Nat /\ loop.age <= EventTimeout
      /\ loop.quiet \in Nat /\ loop.quiet <= EventTimeout
      /\ hist.lag \in Nat /\ hist.lag <= MaxLag + 1
      /\ BatchCapacity \in Nat /\ loop.available = 0 /\ loop.initialized
  BY <1>1, TypeFacts, ConstantFacts DEF IInv, Transactions, Powered
<1>4. /\ hist' \in HistStates /\ hist'.lag = hist.lag /\ hist'.lost = hist.lost
      /\ hist'.flushFailed = hist.flushFailed /\ hist'.missed = hist.missed
      /\ Calm' <=> Calm /\ Good
      /\ Untold' <=> Untold /\ sensor.count \in 1..BatchCapacity
  <2>1. /\ hist' \in HistStates /\ hist'.lag = hist.lag /\ hist'.lost = hist.lost
        /\ hist'.flushFailed = hist.flushFailed /\ hist'.missed = hist.missed
        /\ hist'.gaveUp = hist.gaveUp /\ hist'.refused = hist.refused
        /\ hist'.counted <=> (hist.counted \/ sensor.count \notin 1..BatchCapacity)
        /\ hist'.disturbed <=> (hist.disturbed \/ ~Good)
    BY <1>1 DEF Disturb, HistStates
  <2> QED
    BY <2>1 DEF Calm, Untold
<1>5. /\ Goto("check") = [loop EXCEPT !.pc = "check"] /\ Goto("check") \in LoopStates
      /\ Goto("burst") = [loop EXCEPT !.pc = "burst"] /\ Goto("burst") \in LoopStates
      /\ Goto("flush") = [loop EXCEPT !.pc = "flush"] /\ Goto("flush") \in LoopStates
  BY <1>1, GotoFact
<1>6. CASE sensor.count = 0
  <2>1. /\ loop' \in LoopStates /\ loop'.pc = "check" /\ loop'.silent = loop.silent
        /\ loop'.age = loop.age /\ loop'.quiet = loop.quiet /\ loop'.available = 0
        /\ loop'.failures = loop.failures /\ loop'.initialized = loop.initialized
    <3>1. loop' = Goto("check")
      BY <1>1, <1>6
    <3>2. loop' = [loop EXCEPT !.pc = "check"] /\ loop \in LoopStates /\ loop.available = 0
      BY <1>1, <1>3, <1>5, <3>1
    <3> QED
      BY <3>2 DEF LoopStates
  <2>2. ~Untold'
    BY <1>4, <1>6
  <2>3. Types' /\ Transactions' /\ Powered' /\ MisalignedOnlyByLostFlush'
    BY <1>1, <1>2, <1>3, <1>4, <2>1
       DEF IInv, Types, Transactions, Powered, MisalignedOnlyByLostFlush
  <2>4. ReadTimes' /\ BurstLeaves' /\ Holes' /\ LossNeedsDisturbance'
    BY <1>4, <2>1, <2>2
       DEF IInv, ReadTimes, BurstLeaves, Holes, LossNeedsDisturbance, Reading, Calm
  <2>5. Regular'
    <3> SUFFICES ASSUME Calm' PROVE Regular'
      BY <2>2 DEF Regular
    <3>1. Calm /\ ~loop.silent
      BY <1>1, <1>4, <1>6 DEF IInv, Undisturbed, Reading
    <3>2. 0 < Watermark /\ 0 <= loop.age
      BY <1>3, ConstantFacts
    <3> QED
      BY <1>1, <1>3, <1>6, <2>1, <3>1, <3>2 DEF IInv, Regular
  <2>6. Undisturbed'
    BY <1>1, <1>3, <1>4, <1>6, <2>1, ConstantFacts DEF IInv, Undisturbed, Reading, Resting, Good
  <2> QED
    BY <2>3, <2>4, <2>5, <2>6 DEF IInv
<1>7. CASE sensor.count \in 1..BatchCapacity
  <2>1. /\ loop' \in LoopStates /\ loop'.pc = "burst" /\ loop'.silent = loop.silent
        /\ loop'.age = loop.age /\ loop'.quiet = loop.quiet
        /\ loop'.available = sensor.count
        /\ loop'.failures = loop.failures /\ loop'.initialized = loop.initialized
    <3>1. loop' = [Goto("burst") EXCEPT !.available = sensor.count] /\ sensor.count \in 0..BatchCapacity
      BY <1>1, <1>3, <1>7
    <3> QED
      BY <1>1, <1>5, <3>1 DEF LoopStates
  <2>2. Untold' <=> Untold
    BY <1>4, <1>7
  <2>3. Types' /\ Transactions' /\ Powered' /\ MisalignedOnlyByLostFlush'
    <3>1. Types'
      BY <1>1, <1>2, <1>4, <2>1 DEF Types
    <3>2. Transactions'
      BY <1>1, <1>2, <1>3, <2>1 DEF IInv, Transactions
    <3>3. Powered' /\ MisalignedOnlyByLostFlush'
      BY <1>1, <1>4, <2>1 DEF IInv, Powered, MisalignedOnlyByLostFlush
    <3> QED
      BY <3>1, <3>2, <3>3
  <2>4. ReadTimes' /\ BurstLeaves'
    BY <1>1, <1>3, <1>4, <2>1, ConstantFacts DEF IInv, ReadTimes, BurstLeaves, Reading, Resting
  <2>5. Regular' /\ Undisturbed'
    BY <1>1, <1>4, <2>1, <2>2 DEF IInv, Regular, Undisturbed, Reading, Resting, Good
  <2>6. Holes' /\ LossNeedsDisturbance'
    BY <1>1, <1>3, <1>4, <1>7, <2>1, <2>2, ConstantFacts DEF IInv, Holes, LossNeedsDisturbance, Calm
  <2> QED
    BY <2>3, <2>4, <2>5, <2>6 DEF IInv
<1>8. CASE sensor.count > BatchCapacity
  <2>1. /\ loop' \in LoopStates /\ loop'.pc = "flush" /\ loop'.available = 0
        /\ loop'.initialized = loop.initialized
    <3>1. sensor.count # 0 /\ sensor.count \notin 1..BatchCapacity
      BY <1>3, <1>8
    <3> QED
      BY <1>1, <1>3, <1>5, <3>1 DEF LoopStates
  <2>2. ~Untold'
    BY <1>3, <1>4, <1>8
  <2>3. ~Calm
    BY <1>1, <1>3, <1>8, ConstantFacts DEF IInv, Undisturbed, Reading, HistStates
  <2>4. Types' /\ Transactions' /\ Powered' /\ MisalignedOnlyByLostFlush'
    BY <1>1, <1>2, <1>3, <1>4, <2>1
       DEF IInv, Types, Transactions, Powered, MisalignedOnlyByLostFlush
  <2>5. ReadTimes' /\ BurstLeaves'
    BY <2>1 DEF ReadTimes, BurstLeaves, Reading
  <2> QED
    BY <1>4, <2>2, <2>3, <2>4, <2>5, CountedStep
<1> QED
  BY <1>3, <1>6, <1>7, <1>8

LEMMA ReadBurstIInv == ASSUME IInv, ReadBurst PROVE IInv'
<1>1. PICK result \in Parses :
        /\ loop.pc = "burst" /\ HalOk /\ event' = event
        /\ sensor' = [sensor EXCEPT !.count = @ - loop.available]
        /\ loop' = CASE result \in {"samples", "garbage"} -> Published
                     [] result = "empty" -> [Goto("check") EXCEPT !.available = 0]
                     [] OTHER -> [Goto("flush") EXCEPT !.available = 0]
        /\ hist' = CASE result = "samples" ->
                          [hist EXCEPT !.published = "samples", !.lost = FALSE, !.counted = FALSE,
                                       !.refused = FALSE, !.gaveUp = FALSE,
                                       !.disturbed = ~Good \/ hist.lag > MaxLag \/ hist.missed]
                     [] result = "garbage" ->
                          [Disturb(hist) EXCEPT !.published = "garbage", !.lost = TRUE]
                     [] result = "refused" ->
                          [Disturb(hist) EXCEPT !.published = "refused", !.lost = TRUE,
                                                !.refused = TRUE, !.counted = TRUE]
                     [] OTHER -> [Disturb(hist) EXCEPT !.lost = TRUE, !.counted = TRUE]
  BY DEF ReadBurst
<1>2. /\ Types /\ sensor \in SensorStates /\ loop \in LoopStates /\ hist \in HistStates
      /\ event \in BOOLEAN /\ event' \in BOOLEAN /\ loop.initialized /\ sensor.streaming
  BY <1>1 DEF IInv, Types, Powered
<1>3. i2c' \in I2cStates /\ i2c'.attempt = 1
  BY <1>1, HalOkFact
<1>4. /\ sensor.count \in Nat /\ sensor.count <= DeviceCapacity
      /\ loop.available \in Nat /\ loop.available <= sensor.count
      /\ loop.age \in Nat /\ loop.age <= EventTimeout
      /\ hist.lag \in Nat /\ hist.lag <= MaxLag + 1
      /\ 0 \in 0..BatchCapacity /\ 0 \in 0..FailureThreshold /\ loop.age \in 0..EventTimeout
      /\ sensor.count - loop.available \in 0..DeviceCapacity
  BY <1>2, TypeFacts, ConstantFacts DEF IInv, Transactions
<1>5. /\ sensor' \in SensorStates /\ sensor'.count = sensor.count - loop.available
      /\ sensor'.world = sensor.world /\ sensor'.aligned = sensor.aligned
      /\ sensor'.streaming = sensor.streaming
  BY <1>1, <1>2, <1>4 DEF SensorStates
<1>6. /\ Goto("check") = [loop EXCEPT !.pc = "check"] /\ Goto("check") \in LoopStates
      /\ Goto("flush") = [loop EXCEPT !.pc = "flush"] /\ Goto("flush") \in LoopStates
  BY <1>2, GotoFact
<1>7. \/ result \in {"samples", "refused"} /\ sensor.aligned
      \/ result \in {"garbage", "empty", "malformed"} /\ ~sensor.aligned
  BY DEF Parses
<1>8. Published \in LoopStates /\ Published.pc = "check" /\ Published.quiet = loop.age
      /\ ~Published.silent /\ Published.failures = 0 /\ Published.available = 0
      /\ Published.age = loop.age /\ Published.initialized
  <2>1. /\ Published = [Goto("check") EXCEPT !.quiet = loop.age, !.silent = FALSE,
                                             !.failures = 0, !.available = 0]
        /\ Goto("check") = [loop EXCEPT !.pc = "check"]
    BY <1>6 DEF Published
  <2>2. /\ loop \in LoopStates /\ 0 \in 0..FailureThreshold /\ 0 \in 0..BatchCapacity
        /\ loop.age \in 0..EventTimeout /\ loop.initialized
    BY <1>2, <1>4, ConstantFacts DEF LoopStates
  <2>3. Published = [loop EXCEPT !.pc = "check", !.quiet = loop.age, !.silent = FALSE,
                                 !.failures = 0, !.available = 0]
    BY <2>1, <2>2 DEF LoopStates
  <2>4. Published \in LoopStates
    BY <2>2, <2>3 DEF LoopStates
  <2> QED
    BY <2>2, <2>3 DEF LoopStates
<1>9. ~sensor.aligned => ~Calm /\ ~Untold /\ hist.flushFailed
  BY <1>1 DEF IInv, Regular, MisalignedOnlyByLostFlush
<1>10. CASE result = "samples"
  <2>1. loop' = Published
    BY <1>1, <1>10
  <2>2. /\ hist' \in HistStates /\ hist'.lag = hist.lag /\ ~hist'.lost
        /\ hist'.flushFailed = hist.flushFailed /\ hist'.missed = hist.missed
        /\ Calm' <=> Good /\ hist.lag <= MaxLag /\ ~hist.missed
    <3> DEFINE disturbed == ~Good \/ hist.lag > MaxLag \/ hist.missed
    <3>1. /\ disturbed \in BOOLEAN
          /\ hist' = [hist EXCEPT !.published = "samples", !.lost = FALSE, !.counted = FALSE,
                                  !.refused = FALSE, !.gaveUp = FALSE, !.disturbed = disturbed]
      BY <1>1, <1>2, <1>10 DEF HistStates
    <3> HIDE DEF disturbed
    <3>2. /\ hist' \in HistStates /\ hist'.lag = hist.lag /\ ~hist'.lost /\ ~hist'.refused
          /\ hist'.flushFailed = hist.flushFailed /\ hist'.disturbed = disturbed
          /\ hist'.missed = hist.missed
      BY <1>2, <3>1 DEF HistStates
    <3>3. disturbed <=> ~(Good /\ hist.lag <= MaxLag /\ ~hist.missed)
      BY <1>4, ConstantFacts DEF disturbed
    <3> QED
      BY <3>2, <3>3 DEF Calm
  <2>3. Types'
    BY <1>2, <1>3, <1>5, <1>8, <2>1, <2>2 DEF Types
  <2>4. Transactions' /\ Powered' /\ MisalignedOnlyByLostFlush' /\ ReadTimes' /\ BurstLeaves'
    BY <1>2, <1>3, <1>4, <1>5, <1>7, <1>8, <1>10, <2>1
       DEF Transactions, Powered, MisalignedOnlyByLostFlush, ReadTimes, BurstLeaves, Reading
  <2>5. /\ loop.age < MinPeriod => sensor'.count <= loop.age
        /\ hist.lag <= MaxLag => sensor'.count <= hist.lag /\ loop.age <= hist.lag
        /\ ~event /\ ~hist.missed => sensor'.count < Watermark
    <3>1. /\ loop.age < MinPeriod => sensor'.count <= loop.age
          /\ hist.lag <= MaxLag => sensor'.count <= hist.lag /\ loop.age <= hist.lag
      BY <1>1, <1>5 DEF IInv, ReadTimes, BurstLeaves, Reading
    <3>2. ASSUME ~event, ~hist.missed PROVE sensor'.count < Watermark
      <4>1. CASE loop.age = 0
        BY <1>1, <1>4, <1>5, <4>1, ConstantFacts DEF IInv, BurstLeaves
      <4>2. CASE loop.age # 0
        BY <1>1, <1>4, <1>5, <3>2, <4>2, ConstantFacts DEF IInv, ReadTimes, Reading
      <4> QED
        BY <4>1, <4>2
    <3> QED
      BY <3>1, <3>2
  <2>6. Regular'
    BY <1>1, <1>5, <1>7, <1>8, <1>10, <2>1, <2>2, <2>5 DEF Regular
  <2>7. sensor'.count \in Nat
    BY <1>4, <1>5
  <2>8. Undisturbed'
    <3> SUFFICES ASSUME Calm' PROVE Undisturbed'
      BY DEF Undisturbed
    <3>1. /\ Good /\ hist.lag <= MaxLag
          /\ loop.age <= sensor'.count + MaxLag
          /\ sensor'.count <= Watermark - 1 + hist.lag
      BY <1>4, <2>2, <2>5, <2>7, ConstantFacts
    <3> QED
      BY <1>5, <1>8, <2>1, <2>2, <3>1 DEF Undisturbed, Reading, Resting, Good
  <2>9. Holes' /\ LossNeedsDisturbance'
    BY <2>2 DEF Holes, LossNeedsDisturbance
  <2> QED
    BY <2>3, <2>4, <2>6, <2>8, <2>9 DEF IInv
<1>11. CASE result = "garbage"
  <2>1. loop' = Published
    BY <1>1, <1>11
  <2>2. ~Calm /\ ~Untold /\ hist.flushFailed
    BY <1>7, <1>9, <1>11
  <2>3. hist' = [Disturb(hist) EXCEPT !.published = "garbage", !.lost = TRUE]
    BY <1>1, <1>11
  <2>4. hist' \in HistStates /\ ~Calm' /\ ~Untold' /\ hist'.flushFailed
    <3>1. /\ hist' \in HistStates /\ (hist.disturbed => hist'.disturbed)
          /\ hist'.refused = hist.refused /\ hist'.counted = hist.counted
          /\ hist'.gaveUp = hist.gaveUp /\ hist'.flushFailed = hist.flushFailed
      BY <1>2, <2>3 DEF Disturb, HistStates
    <3> QED
      BY <2>2, <3>1 DEF Calm, Untold
  <2>5. Types'
    BY <1>2, <1>3, <1>5, <1>8, <2>1, <2>4 DEF Types
  <2>6. Transactions' /\ Powered' /\ MisalignedOnlyByLostFlush' /\ ReadTimes' /\ BurstLeaves'
    BY <1>2, <1>3, <1>4, <1>5, <1>8, <2>1, <2>4
       DEF Transactions, Powered, MisalignedOnlyByLostFlush, ReadTimes, BurstLeaves, Reading
  <2> QED
    BY <2>4, <2>5, <2>6, CountedStep
<1>12. CASE result \in {"refused", "empty", "malformed"}
  <2>1. /\ loop' \in LoopStates /\ loop'.available = 0 /\ loop'.initialized
        /\ loop'.pc = IF result = "empty" THEN "check" ELSE "flush"
    <3>1. \/ result = "empty" /\ loop' = [Goto("check") EXCEPT !.available = 0]
          \/ result # "empty" /\ loop' = [Goto("flush") EXCEPT !.available = 0]
      BY <1>1, <1>12
    <3> QED
      BY <1>2, <1>4, <1>6, <3>1 DEF LoopStates
  <2>2. /\ hist' \in HistStates /\ hist'.counted /\ (hist.disturbed => hist'.disturbed)
        /\ hist'.flushFailed = hist.flushFailed
        /\ IF result = "refused" THEN hist'.refused ELSE hist'.refused = hist.refused
    <3>1. CASE result = "refused"
      <4>1. hist' = [Disturb(hist) EXCEPT !.published = "refused", !.lost = TRUE,
                                          !.refused = TRUE, !.counted = TRUE]
        BY <1>1, <3>1
      <4> QED
        BY <1>2, <3>1, <4>1 DEF Disturb, HistStates
    <3>2. CASE result # "refused"
      <4>1. hist' = [Disturb(hist) EXCEPT !.lost = TRUE, !.counted = TRUE]
        BY <1>1, <1>12, <3>2
      <4> QED
        BY <1>2, <3>2, <4>1 DEF Disturb, HistStates
    <3> QED
      BY <3>1, <3>2
  <2>3. ~Calm' /\ ~Untold'
    BY <1>7, <1>9, <1>12, <2>2 DEF Calm, Untold
  <2>4. Types'
    BY <1>2, <1>3, <1>5, <2>1, <2>2 DEF Types
  <2>5. Transactions' /\ Powered' /\ ReadTimes' /\ BurstLeaves'
    BY <1>2, <1>3, <1>4, <1>5, <2>1 DEF Transactions, Powered, ReadTimes, BurstLeaves, Reading
  <2>6. MisalignedOnlyByLostFlush'
    BY <1>5, <1>9, <2>2 DEF MisalignedOnlyByLostFlush
  <2> QED
    BY <2>3, <2>4, <2>5, <2>6, CountedStep
<1> QED
  BY <1>7, <1>10, <1>11, <1>12

LEMMA StepIInv == IInv /\ [Next]_vars => IInv'
<1> SUFFICES ASSUME IInv, [Next]_vars PROVE IInv'
  OBVIOUS
<1>1. CASE UNCHANGED vars
  BY <1>1 DEF vars, IInv, Types, Transactions, Powered, ReadTimes, BurstLeaves, Regular,
     Undisturbed, Holes, LossNeedsDisturbance, MisalignedOnlyByLostFlush,
     Resting, Reading, Good, Calm, Untold
<1> QED
  BY <1>1, PollIInv, ReadCountIInv, CountFailsIInv, ReadBurstIInv, BurstFailsIInv, FlushIInv,
     FlushFailsIInv, EndPollIInv, ReinitializeIInv, ReinitializeFailsIInv, TickIInv,
     WorldChangesIInv DEF Next, Step, ReadFifo

LEMMA Invariant == Spec => []IInv
<1>1. Init => IInv
  BY InitIInv
<1>2. IInv /\ [Next]_vars => IInv'
  BY StepIInv
<1> QED
  BY <1>1, <1>2, PTL DEF Spec
-----------------------------------------------------------------------------
(* The theorems.                                                           *)

\* The counters stay in their ranges, and a burst never asks for more records
\* than a batch holds or the FIFO has.
THEOREM TypeCorrect == Spec => []TypeOK
<1>1. ASSUME IInv PROVE TypeOK
  <2>1. /\ Types /\ sensor \in SensorStates /\ loop \in LoopStates /\ i2c \in I2cStates
        /\ Transactions
    BY <1>1 DEF IInv, Types
  <2> QED
    BY <2>1 DEF TypeOK, SensorStates, LoopStates, I2cStates, Transactions
<1> QED
  BY <1>1, Invariant, PTL

\* A prompt loop on a good bus loses no sample but with a burst the parser
\* refused, for every watermark, batch and pass of the loop that
\* FifoAssumption relates.
THEOREM LossCorrect == Spec => []LossNeedsDisturbance
<1>1. IInv => LossNeedsDisturbance
  BY DEF IInv
<1> QED
  BY <1>1, Invariant, PTL

\* Bytes from the middle of a record are read only behind a flush that was
\* given up.
THEOREM AlignmentCorrect == Spec => []MisalignedOnlyByLostFlush
<1>1. IInv => MisalignedOnlyByLostFlush
  BY DEF IInv
<1> QED
  BY <1>1, Invariant, PTL

\* A batch with a hole before it is published only after a counter told of
\* it, or Mock samples stood in it.
THEOREM GapsCorrect == Spec => GapsAreCounted
<1> DEFINE Told == hist'.published = "samples" /\ hist.published = "none" /\ hist.lost =>
                   hist.counted \/ hist.gaveUp
<1>1. ASSUME IInv, [Next]_vars PROVE [Told]_vars
  <2> SUFFICES ASSUME Next, hist'.published = "samples", hist.published = "none", hist.lost
               PROVE  hist.counted \/ hist.gaveUp
    BY <1>1
  <2>1. hist \in HistStates
    BY <1>1 DEF IInv, Types
  <2>2. ReadBurst
    BY <2>1 DEF Next, Step, ReadFifo, Poll, ReadCount, CountFails, BurstFails, Flush, FlushFails,
       EndPoll, Reinitialize, ReinitializeFails, Tick, WorldChanges, Disturb, GivenUp, HistStates
  <2> QED
    BY <1>1, <2>2 DEF ReadBurst, IInv, Holes, Untold
<1>2. [][Told]_vars <=> GapsAreCounted
  BY DEF GapsAreCounted
<1> QED
  BY <1>1, <1>2, Invariant, PTL DEF Spec
=============================================================================
