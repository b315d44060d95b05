-------------------------- MODULE SensorHubProofs --------------------------
(***************************************************************************)
(* Safety of the superloop and of the compass gate behind it, for all      *)
(* periods, tick widths, thresholds and lengths of a pass of the loop.     *)
(***************************************************************************)
EXTENDS CompassGate, TLAPS

Ticks == 0..(TickModulus - 1)
FrameKinds == {"heartbeat", "real", "mock", "mag", "baro"}

HubStates ==
  [status : SUBSET StatusBits, age : [Timers -> Ticks], failures : 0..FailureThreshold,
   realFilter : BOOLEAN, i2cFault : BOOLEAN, icm : BOOLEAN, mag : BOOLEAN, baro : BOOLEAN,
   announced : SUBSET StatusBits, sent : SUBSET FrameKinds]
SensorStates ==
  [bus : Buses, configured : BOOLEAN, pulse : 0..PulseTime, filled : 0..(BatchTime + 1)]
HistStates ==
  [healthy : 0..RecoveryTime, quiet : 0..Period["event"], silence : 0..SilenceCap]

Types == hub \in HubStates /\ sensor \in SensorStates /\ hist \in HistStates

Ready(h) == "ICM_READY" \in h.status

AuxCoherent(h) ==
  LET on(b) == b \in h.status IN
  ~IcmOnly => /\ on("MAG_READY") <=> ~on("MAG_ERROR")
              /\ on("BARO_READY") <=> ~on("BARO_ERROR")

\* StatusCoherent of any value of the hub's variables, between two stages too.
Coherent(h) ==
  LET on(b) == b \in h.status IN
  /\ on("ICM_READY") <=> ~on("FALLBACK")
  /\ on("IMU_ERROR") <=> on("FALLBACK")
  /\ on("INIT_ERROR") => on("FALLBACK")
  /\ h.failures = FailureThreshold => ~on("ICM_READY")
  /\ h.realFilter => on("ICM_READY")
  /\ AuxCoherent(h)

\* Since the FIFO was last emptied and its timers restarted the sensor worked:
\* it filled no longer than they run, and the read is late by no more than the
\* pulse that is missing.
Supplied ==
  /\ sensor.bus = "good" /\ sensor.configured /\ hub.icm
  /\ hub.age["fifo"] = hub.age["event"] /\ sensor.filled = hub.age["event"]
  /\ sensor.pulse < PulseTime
  /\ hub.age["fifo"] + 1 <= Period["fifo"] + sensor.pulse

\* While the source is real, the event and the fallback timer run together
\* and have run no shorter than the host waits; where the sensor has been
\* healthy for longer than that, its FIFO was emptied when they restarted.
ReadyTimes ==
  Ready(hub) =>
    /\ hub.icm
    /\ hub.age["event"] = hub.age["fallback"] /\ hub.age["event"] < Period["event"]
    /\ hist.silence <= hub.age["event"]
    /\ hist.healthy > hub.age["event"] /\ sensor.configured => Supplied

\* While it is not, the fallback timer has run no shorter than the host waits.
FallbackTimes ==
  ~Ready(hub) =>
    /\ hist.silence <= hub.age["fallback"]
    /\ hub.age["fallback"] < Period["fallback"] + MaxInitTime

Int1Times ==
  "INT1" \in hub.status =>
    hist.quiet <= hub.age["event"] /\ hub.age["event"] < Period["event"]

HealthyIsGood == hist.healthy > 0 => sensor.bus = "good"

IInv ==
  /\ Types
  /\ Coherent(hub)
  /\ FramesMatchStatus
  /\ ReadyTimes
  /\ FallbackTimes
  /\ Int1Times
  /\ HealthyIsGood
-----------------------------------------------------------------------------
(* What the stages of a poll do to the parts the invariant speaks of.      *)

\* Every stage behind the heartbeat leaves it as it was sent.
SameBeat(g, h) ==
  /\ g.announced = h.announced /\ g.age["heartbeat"] = h.age["heartbeat"]
  /\ "heartbeat" \in g.sent <=> "heartbeat" \in h.sent

SameFrames(g, h) == \A f \in {"real", "mock"} : f \in g.sent <=> f \in h.sent

SameImu(g, h) ==
  /\ Ready(g) <=> Ready(h)
  /\ "INT1" \in g.status <=> "INT1" \in h.status
  /\ g.icm = h.icm /\ g.failures = h.failures
  /\ \A t \in {"fifo", "event", "fallback", "reinit"} : g.age[t] = h.age[t]

LEMMA ConstantFacts ==
  /\ TickModulus \in Nat /\ FailureThreshold \in Nat \ {0}
  /\ MaxStep \in Nat \ {0} /\ MaxInitTime \in Nat /\ RecoveryTime \in Nat
  /\ ImuTimers \subseteq Timers
  /\ \A t \in ImuTimers : /\ Period[t] \in Nat \ {0}
                          /\ Period[t] + MaxStep + MaxInitTime <= TickModulus
  /\ Period["fallback"] <= Period["event"]
  /\ MaxInitTime < TickModulus /\ MaxStep < TickModulus
  /\ PromptStep \in Nat \ {0} /\ PromptStep <= MaxStep
  /\ PulseTime \in Nat \ {0} /\ BatchTime \in Nat /\ BatchTime <= Period["event"]
  /\ Period["fifo"] + PulseTime + PromptStep <= BatchTime + 2
<1>1. ImuTimers \subseteq Timers
  BY DEF Timers
<1>2. \A t \in ImuTimers : Period[t] \in 1..(TickModulus - 1)
                           /\ Period[t] + MaxStep + MaxInitTime <= TickModulus
  BY <1>1, HubAssumption
<1>3. "event" \in ImuTimers /\ "fifo" \in ImuTimers
  BY DEF ImuTimers
<1>4. Period["fifo"] + PulseTime + PromptStep <= BatchTime + 2
  BY <1>2, <1>3, HubAssumption
<1> QED
  BY <1>1, <1>2, <1>3, <1>4, HubAssumption

LEMMA ZeroTick == 0 \in Ticks
BY ConstantFacts DEF Ticks

LEMMA SetType ==
  ASSUME NEW h \in HubStates, NEW on \in SUBSET StatusBits, NEW off
  PROVE  /\ Set(h, on, off) \in HubStates
         /\ Set(h, on, off) = [h EXCEPT !.status = (h.status \ off) \cup on]
BY DEF Set, HubStates

LEMMA RestartType ==
  ASSUME NEW h \in HubStates, NEW t \in Timers
  PROVE  /\ Restart(h, t) \in HubStates
         /\ Restart(h, t) = [h EXCEPT !.age = [h.age EXCEPT ![t] = 0]]
BY ConstantFacts, HubAssumption DEF Restart, HubStates, Ticks

LEMMA SendType ==
  ASSUME NEW h \in HubStates, NEW frame \in FrameKinds
  PROVE  /\ Send(h, frame) \in HubStates
         /\ Send(h, frame) = [h EXCEPT !.sent = h.sent \cup {frame}]
BY DEF Send, HubStates

LEMMA LaterType ==
  ASSUME NEW h \in HubStates, NEW d \in Nat
  PROVE  /\ Later(h, d) \in HubStates
         /\ Later(h, d) = [h EXCEPT !.age = [t \in Timers |-> (h.age[t] + d) % TickModulus]]
         /\ \A t \in Timers : h.age[t] + d < TickModulus => Later(h, d).age[t] = h.age[t] + d
<1>1. TickModulus \in Nat \ {0} /\ \A t \in Timers : h.age[t] \in Ticks
  BY ConstantFacts DEF HubStates
<1>2. \A n \in Nat : n % TickModulus \in Ticks /\ (n < TickModulus => n % TickModulus = n)
  BY <1>1 DEF Ticks
<1>3. Later(h, d) = [h EXCEPT !.age = [t \in Timers |-> (h.age[t] + d) % TickModulus]]
  BY DEF Later, HubStates
<1>4. [t \in Timers |-> (h.age[t] + d) % TickModulus] \in [Timers -> Ticks]
  BY <1>1, <1>2 DEF Ticks
<1>5. \A t \in Timers : h.age[t] + d < TickModulus => (h.age[t] + d) % TickModulus = h.age[t] + d
  BY <1>1, <1>2 DEF Ticks
<1>6. [h EXCEPT !.age = [t \in Timers |-> (h.age[t] + d) % TickModulus]] \in HubStates
  BY <1>4 DEF HubStates
<1> QED
  BY <1>3, <1>5, <1>6 DEF HubStates

LEMMA WokenFacts ==
  ASSUME NEW h \in HubStates, Coherent(h), NEW d \in Nat
  PROVE  /\ Woken(h, d) \in HubStates /\ Coherent(Woken(h, d))
         /\ SameImu(Woken(h, d), Later(h, d))
         /\ Woken(h, d).sent \subseteq {"heartbeat"}
         /\ IF Later(h, d).age["heartbeat"] >= Period["heartbeat"]
            THEN /\ "heartbeat" \in Woken(h, d).sent /\ Woken(h, d).age["heartbeat"] = 0
                 /\ "ICM_READY" \in Woken(h, d).announced <=> Ready(h)
            ELSE /\ "heartbeat" \notin Woken(h, d).sent
                 /\ Woken(h, d).age["heartbeat"] = Later(h, d).age["heartbeat"]
<1> DEFINE l == Later(h, d)
           e == [l EXCEPT !.sent = {}, !.announced = {}]
           u == UpdateStatus(e)
           g == Heartbeat(u)
<1>1. /\ l \in HubStates /\ l.status = h.status /\ l.failures = h.failures
      /\ l.realFilter = h.realFilter
  BY LaterType DEF HubStates
<1> HIDE DEF l
<1>2. /\ e \in HubStates /\ e.sent = {} /\ e.status = h.status /\ e.age = l.age
      /\ e.failures = l.failures /\ e.realFilter = l.realFilter /\ e.icm = l.icm
  BY <1>1 DEF HubStates
<1> HIDE DEF e
<1>3. \E on \in SUBSET {"I2C_FAILURE"}, off \in SUBSET {"I2C_FAILURE"} : u = Set(e, on, off)
  BY DEF UpdateStatus
<1>4. /\ u \in HubStates /\ u.sent = {} /\ u.age = l.age
      /\ \A b \in StatusBits \ {"I2C_FAILURE"} : b \in u.status <=> b \in h.status
      /\ u.failures = h.failures /\ u.realFilter = h.realFilter /\ u.icm = l.icm
  <2>1. PICK on \in SUBSET {"I2C_FAILURE"}, off \in SUBSET {"I2C_FAILURE"} : u = Set(e, on, off)
    BY <1>3
  <2>2. u \in HubStates /\ u = [e EXCEPT !.status = (e.status \ off) \cup on]
    BY <1>2, <2>1, SetType DEF StatusBits
  <2> HIDE DEF u
  <2> QED
    BY <1>1, <1>2, <2>2 DEF HubStates
<1> HIDE DEF u
<1>5. CASE Elapsed(u, "heartbeat")
  <2>1. g = [u EXCEPT !.age = [u.age EXCEPT !["heartbeat"] = 0],
                      !.sent = u.sent \cup {"heartbeat"}, !.announced = u.status]
    <3>1. /\ Restart(u, "heartbeat") \in HubStates
          /\ Restart(u, "heartbeat") = [u EXCEPT !.age = [u.age EXCEPT !["heartbeat"] = 0]]
      BY <1>4, RestartType, ConstantFacts DEF ImuTimers
    <3>2. Send(Restart(u, "heartbeat"), "heartbeat")
            = [Restart(u, "heartbeat") EXCEPT !.sent = Restart(u, "heartbeat").sent \cup {"heartbeat"}]
      BY <3>1, SendType DEF FrameKinds
    <3> QED
      BY <1>4, <1>5, <3>1, <3>2 DEF Heartbeat, HubStates
  <2>2. g \in HubStates
    <3>1. [u.age EXCEPT !["heartbeat"] = 0] \in [Timers -> Ticks]
      BY <1>4, ZeroTick DEF HubStates
    <3>2. u.sent \cup {"heartbeat"} \in SUBSET FrameKinds /\ u.status \in SUBSET StatusBits
      BY <1>4 DEF HubStates, FrameKinds
    <3> QED
      BY <1>4, <2>1, <3>1, <3>2 DEF HubStates
  <2>3. Coherent(g) /\ SameImu(g, l) /\ g.sent \subseteq {"heartbeat"}
    BY <1>1, <1>4, <2>1 DEF HubStates, Coherent, AuxCoherent, SameImu, Ready, StatusBits
  <2>4. /\ "heartbeat" \in g.sent /\ g.age["heartbeat"] = 0
        /\ "ICM_READY" \in g.announced <=> Ready(h)
    BY <1>4, <2>1, ConstantFacts DEF HubStates, Ready, StatusBits, ImuTimers
  <2>5. l.age["heartbeat"] >= Period["heartbeat"]
    BY <1>4, <1>5 DEF Elapsed
  <2> QED
    BY <2>2, <2>3, <2>4, <2>5 DEF Woken, g, u, e, l
<1>6. CASE ~Elapsed(u, "heartbeat")
  <2>1. g = u
    BY <1>6 DEF Heartbeat
  <2>2. Coherent(g) /\ SameImu(g, l) /\ g.sent \subseteq {"heartbeat"}
    BY <1>1, <1>4, <2>1 DEF HubStates, Coherent, AuxCoherent, SameImu, Ready, StatusBits
  <2>3. ~(l.age["heartbeat"] >= Period["heartbeat"])
    BY <1>4, <1>6 DEF Elapsed
  <2>4. "heartbeat" \notin g.sent /\ g.age["heartbeat"] = l.age["heartbeat"]
    BY <1>4, <2>1
  <2> QED
    BY <1>4, <2>1, <2>2, <2>3, <2>4 DEF Woken, g, u, e, l
<1> QED
  BY <1>5, <1>6
-----------------------------------------------------------------------------
\* A batch of real samples makes the source real and restarts its timers.
LEMMA SamplesFacts ==
  ASSUME NEW h \in HubStates, Coherent(h)
  PROVE  /\ Samples(h) \in HubStates /\ Coherent(Samples(h)) /\ SameBeat(Samples(h), h)
         /\ Ready(Samples(h)) /\ Samples(h).icm = h.icm /\ Samples(h).failures = 0
         /\ Samples(h).sent = h.sent \cup {"real"}
         /\ Samples(h).age["event"] = 0 /\ Samples(h).age["fallback"] = 0
         /\ Samples(h).age["fifo"] = h.age["fifo"] /\ Samples(h).age["reinit"] = h.age["reinit"]
<1> DEFINE r == Restart(Restart(h, "event"), "fallback")
           s == [Send(r, "real") EXCEPT !.realFilter = TRUE, !.failures = 0]
           on == {"ICM_READY", "INT1", "FIFO"}
           off == {"FALLBACK", "IMU_ERROR", "INIT_ERROR", "FIFO_ERROR"}
           age == [[h.age EXCEPT !["event"] = 0] EXCEPT !["fallback"] = 0]
<1>1. r \in HubStates /\ r = [h EXCEPT !.age = age]
  <2>1. /\ Restart(h, "event") \in HubStates
        /\ Restart(h, "event") = [h EXCEPT !.age = [h.age EXCEPT !["event"] = 0]]
    BY RestartType, ConstantFacts DEF ImuTimers
  <2>2. /\ r \in HubStates
        /\ r = [Restart(h, "event") EXCEPT !.age = [Restart(h, "event").age EXCEPT !["fallback"] = 0]]
    BY <2>1, RestartType, ConstantFacts DEF ImuTimers
  <2> QED
    BY <2>1, <2>2 DEF HubStates
<1> HIDE DEF r
<1>2. s \in HubStates /\ s = [r EXCEPT !.sent = r.sent \cup {"real"}, !.realFilter = TRUE, !.failures = 0]
  <2>1. Send(r, "real") \in HubStates /\ Send(r, "real") = [r EXCEPT !.sent = r.sent \cup {"real"}]
    BY <1>1, SendType DEF FrameKinds
  <2>2. 0 \in 0..FailureThreshold
    BY ConstantFacts
  <2> QED
    BY <1>1, <2>1, <2>2 DEF HubStates
<1> HIDE DEF s
<1>3. SetReady(s) \in HubStates /\ SetReady(s) = [s EXCEPT !.status = (s.status \ off) \cup on]
  BY <1>2, SetType DEF SetReady, StatusBits
<1>4. Samples(h) = SetReady(s)
  BY DEF Samples, s, r
<1> DEFINE g == SetReady(s)
<1> HIDE DEF g
<1>5. /\ g \in HubStates /\ g.status = (h.status \ off) \cup on /\ g.age = age
      /\ g.sent = h.sent \cup {"real"} /\ g.realFilter = TRUE /\ g.failures = 0
      /\ g.icm = h.icm /\ g.announced = h.announced
  <2>1. r.status = h.status /\ r.age = age /\ r.sent = h.sent /\ r.icm = h.icm
        /\ r.announced = h.announced
    BY <1>1 DEF HubStates
  <2>2. /\ s.status = r.status /\ s.age = r.age /\ s.sent = r.sent \cup {"real"}
        /\ s.icm = r.icm /\ s.announced = r.announced /\ s.realFilter = TRUE /\ s.failures = 0
    BY <1>1, <1>2 DEF HubStates
  <2>3. /\ g \in HubStates /\ g.status = (s.status \ off) \cup on /\ g.age = s.age
        /\ g.sent = s.sent /\ g.icm = s.icm /\ g.announced = s.announced
        /\ g.realFilter = s.realFilter /\ g.failures = s.failures
    BY <1>2, <1>3 DEF HubStates, g
  <2> HIDE DEF on, off, age
  <2> QED
    BY <2>1, <2>2, <2>3
<1>6. /\ age["event"] = 0 /\ age["fallback"] = 0 /\ age["fifo"] = h.age["fifo"]
      /\ age["heartbeat"] = h.age["heartbeat"] /\ age["reinit"] = h.age["reinit"]
  BY ConstantFacts DEF HubStates, ImuTimers
<1> HIDE DEF age
<1>7. Coherent(g)
  BY <1>5, ConstantFacts DEF Coherent, AuxCoherent
<1> QED
  BY <1>4, <1>5, <1>6, <1>7 DEF SameBeat, Ready, g

\* What falling back does, whoever decides it.
LEMMA FallbackFacts ==
  ASSUME NEW h \in HubStates, AuxCoherent(h), NEW active \in BOOLEAN
  PROVE  LET g == ResetFilter(SetFallback(h, active)) IN
         /\ g \in HubStates /\ Coherent(g) /\ ~Ready(g)
         /\ g.age = h.age /\ g.sent = h.sent /\ g.announced = h.announced
         /\ g.failures = h.failures /\ g.icm = h.icm
         /\ "INT1" \in g.status => active /\ "INT1" \in h.status
         /\ "FALLBACK" \in g.status
<1> DEFINE off == {"ICM_READY"} \cup IF active THEN {} ELSE {"INT1", "FIFO"}
           on == {"FALLBACK", "IMU_ERROR"}
           s == SetFallback(h, active)
           g == ResetFilter(s)
<1>1. s \in HubStates /\ s = [h EXCEPT !.status = (h.status \ off) \cup on]
  <2>1. on \in SUBSET StatusBits
    BY DEF StatusBits
  <2>2. s = Set(h, on, off)
    BY DEF SetFallback
  <2> HIDE DEF on, off, s
  <2> QED
    BY <2>1, <2>2, SetType
<1>2. "ICM_READY" \in off /\ (~active => "INT1" \in off)
      /\ off \subseteq {"ICM_READY", "INT1", "FIFO"}
  OBVIOUS
<1> HIDE DEF s, off
<1>3. g \in HubStates /\ g = [s EXCEPT !.realFilter = FALSE]
  BY <1>1 DEF ResetFilter, HubStates
<1> HIDE DEF g
<1>4. /\ g.status = (h.status \ off) \cup on /\ g.realFilter = FALSE
      /\ g.age = h.age /\ g.sent = h.sent /\ g.announced = h.announced
      /\ g.failures = h.failures /\ g.icm = h.icm
  BY <1>1, <1>3 DEF HubStates
<1>5. Coherent(g)
  BY <1>2, <1>4 DEF Coherent, AuxCoherent
<1>6. ~Ready(g) /\ ("INT1" \in g.status => active /\ "INT1" \in h.status) /\ "FALLBACK" \in g.status
  BY <1>2, <1>4 DEF Ready
<1> QED
  BY <1>3, <1>4, <1>5, <1>6 DEF g, s

\* A failed read is counted; the last one tolerated gives the source up.
LEMMA FailureFacts ==
  ASSUME NEW h \in HubStates, Coherent(h), NEW result
  PROVE  LET g == Failure(h, result) IN
         /\ g \in HubStates /\ Coherent(g)
         /\ g.age = h.age /\ g.sent = h.sent /\ g.announced = h.announced /\ g.icm = h.icm
         /\ g.failures >= h.failures
         /\ Ready(g) => Ready(h)
         /\ "INT1" \in g.status => "INT1" \in h.status
<1> DEFINE n == IF h.failures < FailureThreshold THEN h.failures + 1 ELSE h.failures
           on == IF result \in {"stream", "refused"} THEN {"FIFO_ERROR"} ELSE {}
           s == Set(h, on, {})
           g == [s EXCEPT !.failures = n]
<1>1. s \in HubStates /\ s = [h EXCEPT !.status = h.status \cup on]
  <2>1. on \in SUBSET StatusBits /\ h.status \ {} = h.status
    BY DEF StatusBits
  <2> HIDE DEF on
  <2> QED
    BY <2>1, SetType
<1>2. n \in 0..FailureThreshold /\ n >= h.failures
  BY ConstantFacts DEF HubStates
<1>3. on \subseteq {"FIFO_ERROR"}
  OBVIOUS
<1> HIDE DEF s, n, on
<1>4. g \in HubStates /\ g = [s EXCEPT !.failures = n]
  BY <1>1, <1>2 DEF HubStates
<1> HIDE DEF g
<1>5. /\ g.status = h.status \cup on /\ g.failures = n /\ g.age = h.age /\ g.sent = h.sent
      /\ g.announced = h.announced /\ g.icm = h.icm /\ g.realFilter = h.realFilter
  BY <1>1, <1>4 DEF HubStates
<1>6. Failure(h, result) = IF n >= FailureThreshold THEN ResetFilter(SetFallback(g, TRUE)) ELSE g
  BY DEF Failure, g, s, n, on
<1>7. CASE n >= FailureThreshold
  <2>1. AuxCoherent(g)
    BY <1>3, <1>5 DEF Coherent, AuxCoherent
  <2>2. LET r == ResetFilter(SetFallback(g, TRUE)) IN
        /\ r \in HubStates /\ Coherent(r) /\ ~Ready(r)
        /\ r.age = g.age /\ r.sent = g.sent /\ r.announced = g.announced /\ r.icm = g.icm
        /\ r.failures = g.failures
        /\ "INT1" \in r.status => "INT1" \in g.status
    BY <1>4, <2>1, FallbackFacts
  <2> QED
    BY <1>2, <1>3, <1>5, <1>6, <1>7, <2>2
<1>8. CASE ~(n >= FailureThreshold)
  <2>1. Coherent(g)
    BY <1>2, <1>3, <1>5, <1>8, ConstantFacts DEF Coherent, AuxCoherent
  <2>2. (Ready(g) => Ready(h)) /\ ("INT1" \in g.status => "INT1" \in h.status)
    BY <1>3, <1>5 DEF Ready
  <2> QED
    BY <1>2, <1>4, <1>5, <1>6, <1>8, <2>1, <2>2
<1> QED
  BY <1>7, <1>8

\* A batch of samples is read.
BringsSamples(h, event, result) == ReadsFifo(h, event) /\ result = "samples"

LEMMA ReadFifoFacts ==
  ASSUME NEW h \in HubStates, Coherent(h), NEW event, NEW result, NEW fault \in BOOLEAN
  PROVE  LET g == ReadFifo(h, event, result, fault) IN
         /\ g \in HubStates /\ Coherent(g) /\ SameBeat(g, h) /\ g.icm = h.icm
         /\ IF BringsSamples(h, event, result)
            THEN /\ Ready(g) /\ g.failures = 0 /\ g.sent = h.sent \cup {"real"}
                 /\ \A t \in {"fifo", "event", "fallback"} : g.age[t] = 0
            ELSE /\ g.sent = h.sent /\ (Ready(g) => Ready(h))
                 /\ "INT1" \in g.status => "INT1" \in h.status
                 /\ g.age["event"] = h.age["event"] /\ g.age["fallback"] = h.age["fallback"]
                 /\ g.failures >= h.failures
         /\ g.age["reinit"] = h.age["reinit"]
         /\ ~ReadsFifo(h, event) => g = h
<1> DEFINE q == ReadFifo(h, event, result, fault)
           r == Restart(h, "fifo")
           g == [r EXCEPT !.i2cFault = fault]
<1>1. /\ r \in HubStates
      /\ r = [h EXCEPT !.age = [h.age EXCEPT !["fifo"] = 0]]
  BY RestartType, ConstantFacts DEF ImuTimers
<1> HIDE DEF r
<1>2. /\ g \in HubStates /\ g.status = h.status /\ g.sent = h.sent /\ g.failures = h.failures
      /\ g.realFilter = h.realFilter /\ g.icm = h.icm /\ g.announced = h.announced
      /\ g.age = [h.age EXCEPT !["fifo"] = 0]
  BY <1>1 DEF HubStates
<1>3. /\ g.age["event"] = h.age["event"] /\ g.age["fallback"] = h.age["fallback"]
      /\ g.age["heartbeat"] = h.age["heartbeat"] /\ g.age["fifo"] = 0
      /\ g.age["reinit"] = h.age["reinit"] /\ h.failures \in Nat
  BY <1>2, ConstantFacts DEF HubStates, ImuTimers
<1> HIDE DEF g
<1>4. Coherent(g) /\ SameBeat(g, h) /\ (Ready(g) <=> Ready(h))
  BY <1>2, <1>3 DEF Coherent, AuxCoherent, SameBeat, Ready
<1>5. CASE ~ReadsFifo(h, event)
  <2>1. q = h
    BY <1>5 DEF ReadFifo
  <2> QED
    BY <1>3, <1>5, <2>1 DEF SameBeat, BringsSamples
<1>6. CASE ReadsFifo(h, event) /\ result = "samples"
  <2>1. q = Samples(g)
    BY <1>6 DEF ReadFifo, g, r
  <2>2. /\ Samples(g) \in HubStates /\ Coherent(Samples(g)) /\ SameBeat(Samples(g), g)
        /\ Ready(Samples(g)) /\ Samples(g).icm = g.icm /\ Samples(g).failures = 0
        /\ Samples(g).sent = g.sent \cup {"real"}
        /\ Samples(g).age["event"] = 0 /\ Samples(g).age["fallback"] = 0
        /\ Samples(g).age["fifo"] = g.age["fifo"] /\ Samples(g).age["reinit"] = g.age["reinit"]
    BY <1>2, <1>4, SamplesFacts
  <2> QED
    BY <1>2, <1>3, <1>4, <1>6, <2>1, <2>2 DEF SameBeat, BringsSamples
<1>7. CASE ReadsFifo(h, event) /\ result = "empty"
  <2>1. q = g
    BY <1>7 DEF ReadFifo, g, r
  <2> QED
    <3>1. q.failures >= h.failures
      BY <1>2, <1>3, <2>1
    <3> QED
      BY <1>2, <1>3, <1>4, <1>7, <2>1, <3>1 DEF BringsSamples
<1>8. CASE ReadsFifo(h, event) /\ result \notin {"samples", "empty"}
  <2>1. q = Failure(g, result)
    BY <1>8 DEF ReadFifo, g, r
  <2>2. /\ q \in HubStates /\ Coherent(q)
        /\ q.age = g.age /\ q.sent = g.sent /\ q.announced = g.announced /\ q.icm = g.icm
        /\ q.failures >= g.failures
        /\ Ready(q) => Ready(g)
        /\ "INT1" \in q.status => "INT1" \in g.status
    BY <1>2, <1>4, <1>8, <2>1, FailureFacts
  <2> QED
    BY <1>2, <1>3, <1>4, <1>8, <2>2 DEF SameBeat, BringsSamples
<1> QED
  BY <1>5, <1>6, <1>7, <1>8

\* A source that is still real behind both has an event younger than the
\* timeout; so has the INT1 bit.
LEMMA ImuReadFacts ==
  ASSUME NEW h \in HubStates, Coherent(h), NEW event, NEW result, NEW fault \in BOOLEAN
  PROVE  LET g == ImuRead(h, event, result, fault) IN
         /\ g \in HubStates /\ Coherent(g) /\ SameBeat(g, h) /\ g.icm = h.icm
         /\ IF BringsSamples(h, event, result)
            THEN /\ Ready(g) /\ g.failures = 0 /\ g.sent = h.sent \cup {"real"}
                 /\ \A t \in {"fifo", "event", "fallback"} : g.age[t] = 0
            ELSE /\ g.sent = h.sent
                 /\ g.age["event"] = h.age["event"] /\ g.age["fallback"] = h.age["fallback"]
                 /\ Ready(g) => Ready(h) /\ g.age["event"] < Period["event"]
                 /\ "INT1" \in g.status => "INT1" \in h.status /\ g.age["event"] < Period["event"]
                 /\ Ready(h) /\ ~Ready(g) =>
                      ReadsFifo(h, event) \/ g.age["event"] >= Period["event"]
                 /\ g.failures >= h.failures
                 /\ g.failures < FailureThreshold => g.age["event"] < Period["event"]
                 /\ ~ReadsFifo(h, event) /\ g.age["event"] < Period["event"] => g.failures = h.failures
         /\ g.age["reinit"] = h.age["reinit"]
         /\ ~ReadsFifo(h, event) => g.age = h.age
<1> DEFINE r == ReadFifo(h, event, result, fault)
           g == ImuRead(h, event, result, fault)
<1>1. /\ r \in HubStates /\ Coherent(r) /\ SameBeat(r, h) /\ r.icm = h.icm
      /\ IF BringsSamples(h, event, result)
         THEN /\ Ready(r) /\ r.failures = 0 /\ r.sent = h.sent \cup {"real"}
              /\ \A t \in {"fifo", "event", "fallback"} : r.age[t] = 0
         ELSE /\ r.sent = h.sent /\ (Ready(r) => Ready(h))
              /\ "INT1" \in r.status => "INT1" \in h.status
              /\ r.age["event"] = h.age["event"] /\ r.age["fallback"] = h.age["fallback"]
              /\ r.failures >= h.failures
      /\ r.age["reinit"] = h.age["reinit"]
      /\ ~ReadsFifo(h, event) => r = h
  BY ReadFifoFacts
<1>2. g = CheckTimeout(r)
  BY DEF ImuRead
<1> HIDE DEF r, g
<1>3. /\ r.age["event"] \in Nat /\ Period["event"] \in Nat \ {0}
      /\ Elapsed(r, "event") <=> ~(r.age["event"] < Period["event"])
      /\ h.failures \in Nat /\ h.failures <= FailureThreshold /\ FailureThreshold \in Nat
  BY <1>1, ConstantFacts DEF Elapsed, HubStates, Ticks, ImuTimers
<1>4. CASE Elapsed(r, "event")
  <2> DEFINE s == ResetFilter(SetFallback(r, FALSE))
  <2>1. /\ s \in HubStates /\ Coherent(s) /\ ~Ready(s)
        /\ s.age = r.age /\ s.sent = r.sent /\ s.announced = r.announced
        /\ s.icm = r.icm /\ "INT1" \notin s.status
    BY <1>1, FallbackFacts DEF Coherent
  <2>2. g = [s EXCEPT !.failures = FailureThreshold]
    BY <1>2, <1>4 DEF CheckTimeout
  <2> HIDE DEF s
  <2>3. g \in HubStates
    BY <2>1, <2>2, ConstantFacts DEF HubStates
  <2>4. /\ g.status = s.status /\ g.age = r.age /\ g.sent = r.sent /\ g.announced = r.announced
        /\ g.icm = r.icm /\ g.realFilter = s.realFilter /\ g.failures = FailureThreshold
    BY <2>1, <2>2 DEF HubStates
  <2>5. Coherent(g) /\ ~Ready(g) /\ "INT1" \notin g.status
    BY <2>1, <2>4 DEF Coherent, AuxCoherent, Ready
  <2>6. ~BringsSamples(h, event, result)
    BY <1>1, <1>3, <1>4
  <2> QED
    BY <1>1, <1>3, <1>4, <2>3, <2>4, <2>5, <2>6 DEF SameBeat, g
<1>5. CASE ~Elapsed(r, "event")
  <2>1. g = r
    BY <1>2, <1>5 DEF CheckTimeout
  <2> QED
    BY <1>1, <1>3, <1>5, <2>1 DEF g
<1> QED
  BY <1>4, <1>5

\* A re-initialisation is tried only when the source is given up already,
\* and leaves the Mock source in charge whether it succeeds or not.
LEMMA ReinitializeFacts ==
  ASSUME NEW h \in HubStates, Coherent(h), NEW ok \in BOOLEAN, NEW time \in 0..MaxInitTime,
         NEW fault \in BOOLEAN
  PROVE  LET g == Reinitialize(h, ok, time, fault) IN
         /\ g \in HubStates /\ Coherent(g) /\ SameBeat(g, h)
         /\ g.sent = h.sent /\ (Ready(g) <=> Ready(h)) /\ g.age["fallback"] = h.age["fallback"]
         /\ IF Reinitializes(h)
            THEN /\ ~Ready(h) /\ "INT1" \notin g.status
                 /\ g.icm = ok /\ g.age["reinit"] = 0
                 /\ IF ok THEN /\ g.failures = 0
                              /\ g.age["event"] = (TickModulus - time) % TickModulus
                              /\ g.age["fifo"] = (TickModulus - time) % TickModulus
                         ELSE g.failures = h.failures
            ELSE g = h
<1> DEFINE g == Reinitialize(h, ok, time, fault)
<1>1. CASE ~Reinitializes(h)
  <2>1. g = h
    BY <1>1 DEF Reinitialize
  <2> QED
    BY <1>1, <2>1 DEF SameBeat
<1>2. CASE Reinitializes(h)
  <2> DEFINE r == Restart(h, "reinit")
             f == ResetFilter(SetFallback(r, FALSE))
             s == [f EXCEPT !.icm = ok, !.i2cFault = fault]
             ahead == (TickModulus - time) % TickModulus
  <2>1. ~Ready(h)
    <3>1. h.failures \in 0..FailureThreshold /\ h.failures >= FailureThreshold
      BY <1>2 DEF Reinitializes, HubStates
    <3>2. h.failures = FailureThreshold
      BY <3>1, ConstantFacts
    <3> QED
      BY <3>2 DEF Coherent, Ready
  <2>2. /\ r \in HubStates
        /\ r = [h EXCEPT !.age = [h.age EXCEPT !["reinit"] = 0]]
    BY RestartType, ConstantFacts DEF ImuTimers
  <2> HIDE DEF r
  <2>3. AuxCoherent(r) /\ r.failures = h.failures /\ r.sent = h.sent /\ r.announced = h.announced
        /\ r.age = [h.age EXCEPT !["reinit"] = 0]
    BY <2>2 DEF Coherent, AuxCoherent, HubStates
  <2>4. /\ f \in HubStates /\ Coherent(f) /\ ~Ready(f) /\ f.age = r.age /\ f.sent = r.sent
        /\ f.announced = r.announced /\ "INT1" \notin f.status /\ "FALLBACK" \in f.status
        /\ f.failures = r.failures
    BY <2>2, <2>3, FallbackFacts
  <2> HIDE DEF f
  <2>5. /\ s \in HubStates /\ s.status = f.status /\ s.age = f.age /\ s.sent = h.sent
        /\ s.announced = h.announced /\ s.failures = f.failures /\ s.realFilter = f.realFilter
        /\ s.failures = h.failures /\ s.icm = ok
    BY <2>3, <2>4 DEF HubStates
  <2>6. /\ s.age["fallback"] = h.age["fallback"] /\ s.age["heartbeat"] = h.age["heartbeat"]
        /\ s.age["reinit"] = 0
        /\ "INT1" \notin s.status /\ "ICM_READY" \notin s.status /\ "FALLBACK" \in s.status
        /\ Coherent(s)
    BY <2>3, <2>4, <2>5, ConstantFacts DEF HubStates, ImuTimers, Coherent, AuxCoherent, Ready
  <2>7. ahead \in Ticks
    BY ConstantFacts DEF Ticks
  <2>8. g = IF ok THEN [s EXCEPT !.age["event"] = ahead, !.age["fifo"] = ahead, !.failures = 0]
                  ELSE Set(s, {"INIT_ERROR"}, {})
    BY <1>2 DEF Reinitialize, s, f, r
  <2> HIDE DEF s, ahead, g
  <2>9. CASE ok
    <3>1. s.age \in [Timers -> Ticks]
      BY <2>5 DEF HubStates
    <3>2. /\ [[s.age EXCEPT !["event"] = ahead] EXCEPT !["fifo"] = ahead] \in [Timers -> Ticks]
          /\ [[s.age EXCEPT !["event"] = ahead] EXCEPT !["fifo"] = ahead]["fallback"] = s.age["fallback"]
          /\ [[s.age EXCEPT !["event"] = ahead] EXCEPT !["fifo"] = ahead]["heartbeat"] = s.age["heartbeat"]
          /\ [[s.age EXCEPT !["event"] = ahead] EXCEPT !["fifo"] = ahead]["reinit"] = s.age["reinit"]
          /\ [[s.age EXCEPT !["event"] = ahead] EXCEPT !["fifo"] = ahead]["event"] = ahead
          /\ [[s.age EXCEPT !["event"] = ahead] EXCEPT !["fifo"] = ahead]["fifo"] = ahead
      BY <2>7, <3>1, ConstantFacts DEF ImuTimers
    <3>3. g = [s EXCEPT !.age = [[s.age EXCEPT !["event"] = ahead] EXCEPT !["fifo"] = ahead],
                        !.failures = 0]
      BY <2>5, <2>8, <2>9 DEF HubStates
    <3>4. g \in HubStates
      <4>1. 0 \in 0..FailureThreshold
        BY ConstantFacts
      <4> DEFINE age == [[s.age EXCEPT !["event"] = ahead] EXCEPT !["fifo"] = ahead]
      <4>2. age \in [Timers -> Ticks] /\ g = [s EXCEPT !.age = age, !.failures = 0]
        BY <3>2, <3>3
      <4> HIDE DEF age
      <4> QED
        BY <2>5, <4>1, <4>2 DEF HubStates
    <3>5. /\ g.status = s.status /\ g.sent = s.sent /\ g.announced = s.announced /\ g.failures = 0
          /\ g.realFilter = s.realFilter
          /\ g.age["fallback"] = s.age["fallback"] /\ g.age["heartbeat"] = s.age["heartbeat"]
          /\ g.icm = ok /\ g.age["reinit"] = 0 /\ g.age["event"] = ahead /\ g.age["fifo"] = ahead
      BY <2>5, <2>6, <3>2, <3>3 DEF HubStates
    <3>6. Coherent(g) /\ ~Ready(g)
      BY <2>6, <3>5 DEF Coherent, AuxCoherent, Ready
    <3> QED
      BY <1>2, <2>1, <2>5, <2>6, <2>9, <3>4, <3>5, <3>6 DEF SameBeat, g, ahead
  <2>10. CASE ~ok
    <3>1. {"INIT_ERROR"} \in SUBSET StatusBits
      BY DEF StatusBits
    <3>2. g \in HubStates /\ g = [s EXCEPT !.status = (s.status \ {}) \cup {"INIT_ERROR"}]
      BY <2>5, <2>8, <2>10, <3>1, SetType
    <3>3. /\ g.status = s.status \cup {"INIT_ERROR"} /\ g.sent = s.sent /\ g.announced = s.announced
          /\ g.age = s.age /\ g.failures = s.failures /\ g.realFilter = s.realFilter
          /\ g.icm = s.icm
      BY <2>5, <3>2 DEF HubStates
    <3>4. Coherent(g) /\ ~Ready(g) /\ "INT1" \notin g.status
      BY <2>6, <3>3 DEF Coherent, AuxCoherent, Ready
    <3> QED
      BY <1>2, <2>1, <2>5, <2>6, <2>10, <3>2, <3>3, <3>4 DEF SameBeat, g
  <2> QED
    BY <2>9, <2>10
<1> QED
  BY <1>1, <1>2

\* Mock samples go out only while the source is not ready, when due.
LEMMA MockFacts ==
  ASSUME NEW h \in HubStates, Coherent(h)
  PROVE  LET g == MockFallback(h) IN
         /\ g \in HubStates /\ Coherent(g) /\ SameBeat(g, h)
         /\ Ready(g) <=> Ready(h)
         /\ "INT1" \in g.status <=> "INT1" \in h.status
         /\ g.icm = h.icm /\ g.age["event"] = h.age["event"] /\ g.age["fifo"] = h.age["fifo"]
         /\ g.failures = h.failures /\ g.age["reinit"] = h.age["reinit"]
         /\ IF ~Ready(h) /\ h.age["fallback"] >= Period["fallback"]
            THEN g.sent = h.sent \cup {"mock"} /\ g.age["fallback"] = 0
            ELSE g = h
<1> DEFINE g == MockFallback(h)
           r == Restart(h, "fallback")
<1>1. /\ r \in HubStates
      /\ r = [h EXCEPT !.age = [h.age EXCEPT !["fallback"] = 0]]
  BY RestartType, ConstantFacts DEF ImuTimers
<1>2. CASE ~Ready(h) /\ h.age["fallback"] >= Period["fallback"]
  <2>1. g = Send(r, "mock")
    BY <1>2 DEF MockFallback, Ready, Elapsed
  <2> HIDE DEF r, g
  <2>2. g \in HubStates /\ g = [r EXCEPT !.sent = r.sent \cup {"mock"}]
    BY <1>1, <2>1, SendType DEF FrameKinds
  <2>3. /\ g.status = h.status /\ g.failures = h.failures /\ g.realFilter = h.realFilter
        /\ g.announced = h.announced /\ g.icm = h.icm /\ g.sent = h.sent \cup {"mock"}
        /\ g.age = [h.age EXCEPT !["fallback"] = 0]
    BY <1>1, <2>2 DEF HubStates
  <2>4. /\ g.age["fallback"] = 0 /\ g.age["event"] = h.age["event"]
        /\ g.age["fifo"] = h.age["fifo"] /\ g.age["heartbeat"] = h.age["heartbeat"]
        /\ g.age["reinit"] = h.age["reinit"]
    BY <2>3, ConstantFacts DEF HubStates, ImuTimers
  <2> QED
    BY <1>2, <2>2, <2>3, <2>4 DEF Coherent, AuxCoherent, SameBeat, Ready, g
<1>3. CASE ~(~Ready(h) /\ h.age["fallback"] >= Period["fallback"])
  <2>1. g = h
    BY <1>3 DEF MockFallback, Ready, Elapsed
  <2> QED
    BY <1>3, <2>1 DEF SameBeat
<1> QED
  BY <1>2, <1>3

\* The other sensors do not touch what the IMU stages decided.
LEMMA AuxFacts ==
  ASSUME NEW h \in HubStates, Coherent(h), NEW ok \in BOOLEAN, NEW fault \in BOOLEAN,
         NEW timer \in {"mag", "baro"}, NEW frame \in {"mag", "baro"},
         NEW ready, NEW error,
         \/ (ready = "MAG_READY" /\ error = "MAG_ERROR")
         \/ (ready = "BARO_READY" /\ error = "BARO_ERROR")
  PROVE  LET g == ReadAux(h, timer, frame, ready, error, ok, fault) IN
         /\ g \in HubStates /\ Coherent(g) /\ SameBeat(g, h) /\ SameImu(g, h) /\ SameFrames(g, h)
<1> DEFINE g == ReadAux(h, timer, frame, ready, error, ok, fault)
           r == Restart(h, timer)
           s == [r EXCEPT !.i2cFault = fault]
<1>1. CASE timer \notin Timers \/ ~Elapsed(h, timer)
  <2>1. g = h
    BY <1>1 DEF ReadAux
  <2> QED
    BY <2>1 DEF SameBeat, SameImu, SameFrames
<1>2. CASE timer \in Timers /\ Elapsed(h, timer)
  <2>1. /\ r \in HubStates
        /\ r = [h EXCEPT !.age = [h.age EXCEPT ![timer] = 0]]
    BY <1>2, RestartType
  <2> HIDE DEF r
  <2>2. /\ s \in HubStates /\ s.status = h.status /\ s.sent = h.sent /\ s.failures = h.failures
        /\ s.realFilter = h.realFilter /\ s.icm = h.icm /\ s.announced = h.announced
        /\ s.age = [h.age EXCEPT ![timer] = 0]
    BY <2>1 DEF HubStates
  <2>3. \A t \in ImuTimers : s.age[t] = h.age[t]
    BY <2>2, ConstantFacts DEF HubStates, ImuTimers
  <2>4. g = IF ok THEN Set(Send(s, frame), {ready}, {error}) ELSE Set(s, {error}, {ready})
    BY <1>2 DEF ReadAux, s, r
  <2> HIDE DEF s, g
  <2>5. {ready} \in SUBSET StatusBits /\ {error} \in SUBSET StatusBits
    BY DEF StatusBits
  <2>6. \E on, off, sent :
          /\ (on = {ready} /\ off = {error}) \/ (on = {error} /\ off = {ready})
          /\ sent \in {{}, {frame}}
          /\ g \in HubStates
          /\ g = [s EXCEPT !.status = (s.status \ off) \cup on, !.sent = s.sent \cup sent]
    <3>1. CASE ok
      <4>1. Send(s, frame) \in HubStates /\ Send(s, frame) = [s EXCEPT !.sent = s.sent \cup {frame}]
        BY <2>2, SendType DEF FrameKinds
      <4>2. /\ g \in HubStates
            /\ g = [Send(s, frame) EXCEPT !.status = (Send(s, frame).status \ {error}) \cup {ready}]
        BY <2>4, <2>5, <3>1, <4>1, SetType
      <4>3. g = [s EXCEPT !.status = (s.status \ {error}) \cup {ready}, !.sent = s.sent \cup {frame}]
        BY <2>2, <4>1, <4>2 DEF HubStates
      <4> WITNESS {ready}, {error}, {frame}
      <4> QED
        BY <4>2, <4>3
    <3>2. CASE ~ok
      <4>1. g \in HubStates /\ g = [s EXCEPT !.status = (s.status \ {ready}) \cup {error}]
        BY <2>2, <2>4, <2>5, <3>2, SetType
      <4>2. g = [s EXCEPT !.status = (s.status \ {ready}) \cup {error}, !.sent = s.sent \cup {}]
        BY <2>2, <4>1 DEF HubStates
      <4> WITNESS {error}, {ready}, {}
      <4> QED
        BY <4>1, <4>2
    <3> QED
      BY <3>1, <3>2
  <2>7. PICK on, off, sent :
          /\ (on = {ready} /\ off = {error}) \/ (on = {error} /\ off = {ready})
          /\ sent \in {{}, {frame}}
          /\ g \in HubStates
          /\ g = [s EXCEPT !.status = (s.status \ off) \cup on, !.sent = s.sent \cup sent]
    BY <2>6
  <2>8. /\ g.status = (h.status \ off) \cup on /\ g.sent = h.sent \cup sent
        /\ g.age = s.age /\ g.failures = h.failures /\ g.realFilter = h.realFilter
        /\ g.icm = h.icm /\ g.announced = h.announced
    BY <2>2, <2>7 DEF HubStates
  <2>9. Coherent(g)
    BY <2>7, <2>8 DEF Coherent, AuxCoherent
  <2>10. SameBeat(g, h) /\ SameImu(g, h) /\ SameFrames(g, h)
    BY <2>3, <2>7, <2>8 DEF SameBeat, SameImu, SameFrames, Ready, ImuTimers
  <2> QED
    BY <2>7, <2>9, <2>10 DEF g
<1> QED
  BY <1>1, <1>2
-----------------------------------------------------------------------------
(* One poll as a whole.                                                    *)

LEMMA EnvironmentTypes ==
  ASSUME NEW h, h.icm \in BOOLEAN, h.i2cFault \in BOOLEAN
  PROVE  /\ \A d : Events(sensor, d) \subseteq BOOLEAN
         /\ \A initialised, ok \in BOOLEAN : Faults(h, sensor, initialised, ok) \subseteq BOOLEAN
         /\ InitResults(sensor) \subseteq BOOLEAN
         /\ \A initialised \in BOOLEAN : AuxResults(sensor, initialised) \subseteq BOOLEAN
<1>1. \A d : Events(sensor, d) \subseteq BOOLEAN
  BY DEF Events
<1>3. ASSUME NEW initialised \in BOOLEAN, NEW ok \in BOOLEAN
      PROVE  Faults(h, sensor, initialised, ok) \subseteq BOOLEAN
  BY DEF Faults
<1>4. InitResults(sensor) \subseteq BOOLEAN
  BY DEF InitResults
<1>5. ASSUME NEW initialised \in BOOLEAN PROVE AuxResults(sensor, initialised) \subseteq BOOLEAN
  BY DEF AuxResults
<1> QED
  BY <1>1, <1>3, <1>4, <1>5

\* The last two stages.
LEMMA AuxStagesFacts ==
  ASSUME NEW h \in HubStates, Coherent(h), hub \in HubStates,
         NEW d, NEW time, NEW event, NEW result, NEW tries, NEW ok,
         AuxStages(d, time, event, result, tries, ok, h)
  PROVE  \E g \in HubStates :
           /\ Coherent(g) /\ SameBeat(g, h) /\ SameImu(g, h) /\ SameFrames(g, h)
           /\ PollLeaves(d, time, event, result, tries, ok, g)
<1>1. hub.mag \in BOOLEAN /\ hub.baro \in BOOLEAN
  BY DEF HubStates
<1>2. PICK magOk \in AuxResults(sensor, hub.mag) : \E fault3 \in Faults(h, sensor, hub.mag, magOk) :
        LET h3 == ReadAux(h, "mag", "mag", "MAG_READY", "MAG_ERROR", magOk, fault3) IN
        \E baroOk \in AuxResults(sensor, hub.baro) : \E fault4 \in Faults(h3, sensor, hub.baro, baroOk) :
          PollLeaves(d, time, event, result, tries, ok,
                     ReadAux(h3, "baro", "baro", "BARO_READY", "BARO_ERROR", baroOk, fault4))
  BY DEF AuxStages
<1>3. h.icm \in BOOLEAN /\ h.i2cFault \in BOOLEAN
  BY DEF HubStates
<1>4. magOk \in BOOLEAN /\ Faults(h, sensor, hub.mag, magOk) \subseteq BOOLEAN
  BY <1>1, <1>2, <1>3, EnvironmentTypes
<1>5. PICK fault3 \in BOOLEAN :
        LET h3 == ReadAux(h, "mag", "mag", "MAG_READY", "MAG_ERROR", magOk, fault3) IN
        \E baroOk \in AuxResults(sensor, hub.baro) : \E fault4 \in Faults(h3, sensor, hub.baro, baroOk) :
          PollLeaves(d, time, event, result, tries, ok,
                     ReadAux(h3, "baro", "baro", "BARO_READY", "BARO_ERROR", baroOk, fault4))
  BY <1>2, <1>4
<1> DEFINE h3 == ReadAux(h, "mag", "mag", "MAG_READY", "MAG_ERROR", magOk, fault3)
<1>6. /\ h3 \in HubStates /\ Coherent(h3)
      /\ SameBeat(h3, h) /\ SameImu(h3, h) /\ SameFrames(h3, h)
  BY <1>4, AuxFacts
<1> HIDE DEF h3
<1>7. PICK baroOk \in AuxResults(sensor, hub.baro) : \E fault4 \in Faults(h3, sensor, hub.baro, baroOk) :
        PollLeaves(d, time, event, result, tries, ok,
                   ReadAux(h3, "baro", "baro", "BARO_READY", "BARO_ERROR", baroOk, fault4))
  BY <1>5 DEF h3
<1>8. h3.icm \in BOOLEAN /\ h3.i2cFault \in BOOLEAN
  BY <1>6 DEF HubStates
<1>9. baroOk \in BOOLEAN /\ Faults(h3, sensor, hub.baro, baroOk) \subseteq BOOLEAN
  BY <1>1, <1>7, <1>8, EnvironmentTypes
<1>10. PICK fault4 \in BOOLEAN :
        PollLeaves(d, time, event, result, tries, ok,
                   ReadAux(h3, "baro", "baro", "BARO_READY", "BARO_ERROR", baroOk, fault4))
  BY <1>7, <1>9
<1> DEFINE g == ReadAux(h3, "baro", "baro", "BARO_READY", "BARO_ERROR", baroOk, fault4)
<1>11. /\ g \in HubStates /\ Coherent(g)
       /\ SameBeat(g, h3) /\ SameImu(g, h3) /\ SameFrames(g, h3)
  BY <1>6, <1>9, AuxFacts
<1>12. PollLeaves(d, time, event, result, tries, ok, g)
  BY <1>10
<1> HIDE DEF g
<1>13. SameBeat(g, h) /\ SameImu(g, h) /\ SameFrames(g, h)
  BY <1>6, <1>11 DEF SameBeat, SameImu, SameFrames
<1> QED
  BY <1>11, <1>12, <1>13, Zenon

\* What a poll does to the counter and the timers the re-initialisation is
\* about, from the value h the hub has behind the timeout to g.
ReinitOutcome(h, g, time, tries, ok) ==
  /\ tries <=> Reinitializes(h)
  /\ ~tries => /\ time = 0 /\ g.failures = h.failures /\ g.icm = h.icm
               /\ \A t \in {"event", "fifo", "reinit"} : g.age[t] = h.age[t]
  /\ tries =>
       /\ ok \in InitResults(sensor) /\ g.icm = ok /\ g.age["reinit"] = 0
       /\ IF ok THEN /\ g.failures = 0
                    /\ \A t \in {"event", "fifo"} : g.age[t] = (TickModulus - time) % TickModulus
               ELSE g.failures = h.failures

\* Re-initialisation and Mock source in front of them.
LEMMA SourceStagesFacts ==
  ASSUME NEW h \in HubStates, Coherent(h), hub \in HubStates,
         NEW d, NEW time \in 0..MaxInitTime, NEW event, NEW result,
         SourceStages(d, time, event, result, h)
  PROVE  \E g \in HubStates : \E tries, ok :
           /\ PollLeaves(d, time, event, result, tries, ok, g)
           /\ Coherent(g) /\ SameBeat(g, h) /\ ReinitOutcome(h, g, time, tries, ok)
           /\ Ready(g) <=> Ready(h)
           /\ "real" \in g.sent <=> "real" \in h.sent
           /\ "INT1" \in g.status \/ Ready(g) =>
                /\ ~tries /\ time = 0 /\ g.icm = h.icm
                /\ "INT1" \in g.status <=> "INT1" \in h.status
                /\ g.age["event"] = h.age["event"] /\ g.age["fifo"] = h.age["fifo"]
           /\ IF ~Ready(h) /\ h.age["fallback"] >= Period["fallback"]
              THEN "mock" \in g.sent /\ g.age["fallback"] = 0
              ELSE /\ "mock" \in g.sent <=> "mock" \in h.sent
                   /\ g.age["fallback"] = h.age["fallback"]
<1> DEFINE tries == Reinitializes(h)
<1> SUFFICES ASSUME NEW ok \in CASE tries -> InitResults(sensor) [] ~tries /\ time = 0 -> {TRUE} [] OTHER -> {},
                    NEW fault \in Faults(h, sensor, TRUE, ok),
                    AuxStages(d, time, event, result, tries, ok, MockFallback(Reinitialize(h, ok, time, fault)))
             PROVE  \E g \in HubStates : \E tr, okk :
           /\ PollLeaves(d, time, event, result, tr, okk, g)
           /\ Coherent(g) /\ SameBeat(g, h) /\ ReinitOutcome(h, g, time, tr, okk)
           /\ Ready(g) <=> Ready(h)
           /\ "real" \in g.sent <=> "real" \in h.sent
           /\ "INT1" \in g.status \/ Ready(g) =>
                /\ ~tr /\ time = 0 /\ g.icm = h.icm
                /\ "INT1" \in g.status <=> "INT1" \in h.status
                /\ g.age["event"] = h.age["event"] /\ g.age["fifo"] = h.age["fifo"]
           /\ IF ~Ready(h) /\ h.age["fallback"] >= Period["fallback"]
              THEN "mock" \in g.sent /\ g.age["fallback"] = 0
              ELSE /\ "mock" \in g.sent <=> "mock" \in h.sent
                   /\ g.age["fallback"] = h.age["fallback"]
  BY DEF SourceStages
<1>1. /\ ok \in BOOLEAN /\ fault \in BOOLEAN /\ (tries \/ time = 0)
      /\ tries => ok \in InitResults(sensor)
  <2>1. h.icm \in BOOLEAN /\ h.i2cFault \in BOOLEAN
    BY DEF HubStates
  <2>2. ok \in BOOLEAN /\ (tries \/ time = 0)
    <3>1. CASE tries
      BY <2>1, <3>1, EnvironmentTypes
    <3>2. CASE ~tries /\ time = 0
      BY <3>2
    <3>3. CASE ~tries /\ time # 0
      BY <3>3
    <3> QED
      BY <3>1, <3>2, <3>3
  <2>3. Faults(h, sensor, TRUE, ok) \subseteq BOOLEAN
    BY <2>1, <2>2 DEF Faults
  <2> QED
    BY <2>2, <2>3
<1> DEFINE r == Reinitialize(h, ok, time, fault)
           m == MockFallback(r)
<1>2. /\ r \in HubStates /\ Coherent(r) /\ SameBeat(r, h)
      /\ r.sent = h.sent /\ (Ready(r) <=> Ready(h)) /\ r.age["fallback"] = h.age["fallback"]
      /\ IF tries THEN ~Ready(h) /\ "INT1" \notin r.status ELSE r = h
      /\ tries => /\ r.icm = ok /\ r.age["reinit"] = 0
                  /\ IF ok THEN /\ r.failures = 0
                               /\ r.age["event"] = (TickModulus - time) % TickModulus
                               /\ r.age["fifo"] = (TickModulus - time) % TickModulus
                          ELSE r.failures = h.failures
  <2>1. LET g == r IN
        /\ g \in HubStates /\ Coherent(g) /\ SameBeat(g, h)
        /\ g.sent = h.sent /\ (Ready(g) <=> Ready(h)) /\ g.age["fallback"] = h.age["fallback"]
        /\ IF Reinitializes(h)
           THEN /\ ~Ready(h) /\ "INT1" \notin g.status
                /\ g.icm = ok /\ g.age["reinit"] = 0
                /\ IF ok THEN /\ g.failures = 0
                             /\ g.age["event"] = (TickModulus - time) % TickModulus
                             /\ g.age["fifo"] = (TickModulus - time) % TickModulus
                        ELSE g.failures = h.failures
           ELSE g = h
    BY <1>1, ReinitializeFacts
  <2> HIDE DEF r
  <2> QED
    BY <2>1
<1>7. tries <=> Reinitializes(h)
  OBVIOUS
<1> HIDE DEF r, tries
<1>3. /\ m \in HubStates /\ Coherent(m) /\ SameBeat(m, r)
      /\ Ready(m) <=> Ready(r)
      /\ "INT1" \in m.status <=> "INT1" \in r.status
      /\ m.icm = r.icm /\ m.age["event"] = r.age["event"] /\ m.age["fifo"] = r.age["fifo"]
      /\ m.failures = r.failures /\ m.age["reinit"] = r.age["reinit"]
      /\ IF ~Ready(r) /\ r.age["fallback"] >= Period["fallback"]
         THEN m.sent = r.sent \cup {"mock"} /\ m.age["fallback"] = 0
         ELSE m = r
  BY <1>2, MockFacts
<1> HIDE DEF m
<1>4. PICK g \in HubStates :
        /\ Coherent(g) /\ SameBeat(g, m) /\ SameImu(g, m) /\ SameFrames(g, m)
        /\ PollLeaves(d, time, event, result, tries, ok, g)
  BY <1>3, AuxStagesFacts DEF m, r
<1>5. /\ SameBeat(g, h) /\ (Ready(g) <=> Ready(h))
      /\ "INT1" \in g.status \/ Ready(g) =>
           /\ ~tries /\ time = 0 /\ g.icm = h.icm
           /\ "INT1" \in g.status <=> "INT1" \in h.status
           /\ g.age["event"] = h.age["event"] /\ g.age["fifo"] = h.age["fifo"]
  BY <1>1, <1>2, <1>3, <1>4 DEF SameBeat, SameImu
<1>6. /\ "real" \in g.sent <=> "real" \in h.sent
      /\ IF ~Ready(h) /\ h.age["fallback"] >= Period["fallback"]
         THEN "mock" \in g.sent /\ g.age["fallback"] = 0
         ELSE /\ "mock" \in g.sent <=> "mock" \in h.sent
              /\ g.age["fallback"] = h.age["fallback"]
  BY <1>2, <1>3, <1>4 DEF SameFrames, SameImu
<1>8. /\ g.failures = r.failures /\ g.icm = r.icm
      /\ \A t \in {"event", "fifo", "reinit"} : g.age[t] = r.age[t]
  BY <1>3, <1>4 DEF SameImu
<1>9. ReinitOutcome(h, g, time, tries, ok)
  BY <1>1, <1>2, <1>7, <1>8 DEF ReinitOutcome
<1> WITNESS g \in HubStates
<1> WITNESS tries, ok
<1> QED
  BY <1>4, <1>5, <1>6, <1>9

\* What one poll leaves in the hub, from the ages `a` its timers have reached.
\* `reads` tells that the FIFO was read, `samples` that the read brought data.
PollSummary(d, time, a, g, reads, samples, tries) ==
  /\ g \in HubStates /\ Coherent(g)
  /\ "real" \in g.sent <=> samples
  /\ samples => reads /\ Ready(g) /\ hub.icm
                /\ g.age["event"] = 0 /\ g.age["fallback"] = 0 /\ g.age["fifo"] = 0
  /\ "INT1" \in g.status \/ Ready(g) => ~tries /\ time = 0 /\ g.icm = hub.icm
  /\ "INT1" \in g.status /\ ~samples =>
       "INT1" \in hub.status /\ g.age["event"] = a["event"] /\ a["event"] < Period["event"]
  /\ Ready(g) => "mock" \notin g.sent
  /\ Ready(g) /\ ~samples =>
       /\ Ready(hub) /\ a["event"] < Period["event"]
       /\ g.age["event"] = a["event"] /\ g.age["fallback"] = a["fallback"]
       /\ ~reads => g.age["fifo"] = a["fifo"]
  /\ ~Ready(g) => IF a["fallback"] >= Period["fallback"]
                  THEN "mock" \in g.sent /\ g.age["fallback"] = 0
                  ELSE "mock" \notin g.sent /\ g.age["fallback"] = a["fallback"]
  /\ Ready(hub) /\ ~Ready(g) => reads \/ a["event"] >= Period["event"]

\* What the poll saw of the sensor: the event and the result of the read.
SensorAnswers(d, a, event, result, reads, samples) ==
  /\ reads <=> event /\ a["fifo"] >= Period["fifo"]
  /\ samples => reads /\ result = "samples" /\ sensor.configured
  /\ ~reads => result = "none"
  /\ sensor.bus = "good" /\ sensor.configured /\ sensor.pulse + d >= PulseTime => event
  /\ sensor.bus = "good" /\ hub.icm /\ reads /\ sensor.filled + d <= BatchTime =>
       samples \/ result = "refused"

BeatSummary(a, g) ==
  IF a["heartbeat"] >= Period["heartbeat"]
  THEN /\ "heartbeat" \in g.sent /\ g.age["heartbeat"] = 0
       /\ "ICM_READY" \in g.announced <=> Ready(hub)
  ELSE "heartbeat" \notin g.sent /\ g.age["heartbeat"] = a["heartbeat"]

\* The same of what the recovery depends on: the failure counter, the timers
\* of event, FIFO and re-initialisation, the state of the driver.
RecoverySummary(time, a, g, reads, samples, tries, ok) ==
  /\ samples => ~tries /\ time = 0 /\ g.failures = 0
  /\ ~tries => time = 0
  /\ ~samples /\ ~tries =>
       /\ g.icm = hub.icm /\ g.age["event"] = a["event"] /\ g.age["reinit"] = a["reinit"]
       /\ ~reads => g.age["fifo"] = a["fifo"]
       /\ g.failures < FailureThreshold => hub.failures < FailureThreshold /\ a["event"] < Period["event"]
       /\ g.failures = FailureThreshold => a["reinit"] < Period["reinit"]
  /\ ~samples /\ (tries \/ g.failures = FailureThreshold) /\ hub.failures < FailureThreshold =>
       reads \/ a["event"] >= Period["event"]
  /\ tries =>
       /\ ok \in InitResults(sensor) /\ g.icm = ok /\ g.age["reinit"] = 0
       /\ IF ok THEN /\ g.failures = 0
                    /\ \A t \in {"event", "fifo"} : g.age[t] = (TickModulus - time) % TickModulus
               ELSE g.failures = FailureThreshold

LEMMA PollFacts ==
  ASSUME hub \in HubStates, sensor \in SensorStates, Coherent(hub),
         NEW d \in Nat, NEW time \in 0..MaxInitTime, PollTakes(d, time)
  PROVE  \E event, result, g, reads, samples, tries, ok :
           /\ PollLeaves(d, time, event, result, tries, ok, g)
           /\ PollSummary(d, time, Later(hub, d).age, g, reads, samples, tries)
           /\ SensorAnswers(d, Later(hub, d).age, event, result, reads, samples)
           /\ BeatSummary(Later(hub, d).age, g)
           /\ RecoverySummary(time, Later(hub, d).age, g, reads, samples, tries, ok)
<1> DEFINE l == Later(hub, d)
           a == l.age
           h0 == Woken(hub, d)
<1>1. l \in HubStates /\ l.status = hub.status /\ l.icm = hub.icm /\ l.failures = hub.failures
  BY LaterType DEF HubStates
<1>2. /\ h0 \in HubStates /\ Coherent(h0) /\ SameImu(h0, l) /\ h0.sent \subseteq {"heartbeat"}
      /\ BeatSummary(a, h0)
  BY WokenFacts DEF BeatSummary
<1> HIDE DEF l, h0
<1>3. PICK event \in Events(sensor, d) :
        \E result \in IF ReadsFifo(h0, event) THEN FifoResults(h0, sensor, d) ELSE {"none"} :
        \E fault1 \in Faults(h0, sensor, h0.icm, result \in {"samples", "empty", "refused", "none"}) :
          SourceStages(d, time, event, result, ImuRead(h0, event, result, fault1))
  BY DEF PollTakes, h0
<1>4. PICK result \in IF ReadsFifo(h0, event) THEN FifoResults(h0, sensor, d) ELSE {"none"} :
        \E fault1 \in Faults(h0, sensor, h0.icm, result \in {"samples", "empty", "refused", "none"}) :
          SourceStages(d, time, event, result, ImuRead(h0, event, result, fault1))
  BY <1>3
<1>5. h0.icm = hub.icm /\ h0.icm \in BOOLEAN /\ h0.i2cFault \in BOOLEAN
  BY <1>1, <1>2 DEF SameImu, HubStates
<1>7. Faults(h0, sensor, h0.icm, result \in {"samples", "empty", "refused", "none"}) \subseteq BOOLEAN
  BY <1>5 DEF Faults
<1>8. PICK fault1 \in BOOLEAN :
        SourceStages(d, time, event, result, ImuRead(h0, event, result, fault1))
  BY <1>4, <1>7
<1> DEFINE h1 == ImuRead(h0, event, result, fault1)
           reads == ReadsFifo(h0, event)
           samples == BringsSamples(h0, event, result)
<1>9. /\ h1 \in HubStates /\ Coherent(h1) /\ SameBeat(h1, h0) /\ h1.icm = h0.icm
      /\ IF samples
         THEN /\ Ready(h1) /\ h1.failures = 0 /\ h1.sent = h0.sent \cup {"real"}
              /\ \A t \in {"fifo", "event", "fallback"} : h1.age[t] = 0
         ELSE /\ h1.sent = h0.sent
              /\ h1.age["event"] = h0.age["event"] /\ h1.age["fallback"] = h0.age["fallback"]
              /\ Ready(h1) => Ready(h0) /\ h1.age["event"] < Period["event"]
              /\ "INT1" \in h1.status => "INT1" \in h0.status /\ h1.age["event"] < Period["event"]
              /\ Ready(h0) /\ ~Ready(h1) => reads \/ h1.age["event"] >= Period["event"]
              /\ h1.failures >= h0.failures
              /\ h1.failures < FailureThreshold => h1.age["event"] < Period["event"]
              /\ ~reads /\ h1.age["event"] < Period["event"] => h1.failures = h0.failures
      /\ h1.age["reinit"] = h0.age["reinit"]
      /\ ~reads => h1.age = h0.age
  BY <1>2, ImuReadFacts
<1>10. (samples => hub.icm) /\ SensorAnswers(d, a, event, result, reads, samples)
  <2>1. /\ event \in BOOLEAN /\ (event => sensor.configured)
        /\ sensor.bus = "good" /\ sensor.configured /\ sensor.pulse + d >= PulseTime => event
    BY <1>3 DEF Events
  <2>2. reads <=> event /\ a["fifo"] >= Period["fifo"]
    BY <1>2, <2>1 DEF ReadsFifo, Elapsed, SameImu
  <2>3. samples <=> reads /\ result = "samples"
    BY DEF BringsSamples
  <2>4. /\ ~reads => result = "none"
        /\ reads => result \in FifoResults(h0, sensor, d)
    BY <1>4
  <2>5. event \/ ~reads
    BY <2>2
  <2> HIDE DEF reads, samples
  <2>6. samples => hub.icm
    BY <1>5, <2>3, <2>4 DEF FifoResults
  <2>7. sensor.bus = "good" /\ hub.icm /\ reads /\ sensor.filled + d <= BatchTime =>
          samples \/ result = "refused"
    <3> SUFFICES ASSUME sensor.bus = "good", hub.icm, reads, sensor.filled + d <= BatchTime
                 PROVE  samples \/ result = "refused"
      OBVIOUS
    <3>1. ~(sensor.filled + d > BatchTime)
      BY ConstantFacts DEF SensorStates
    <3>2. FifoResults(h0, sensor, d) = {"samples", "refused"}
      BY <1>5, <3>1 DEF FifoResults
    <3> QED
      BY <2>3, <2>4, <3>2
  <2> QED
    BY <2>1, <2>2, <2>3, <2>4, <2>5, <2>6, <2>7 DEF SensorAnswers
<1>11. /\ \A t \in {"fifo", "event", "fallback", "reinit"} : h0.age[t] = a[t]
       /\ h0.failures = hub.failures
       /\ Ready(h0) <=> Ready(hub)
       /\ "INT1" \in h0.status <=> "INT1" \in hub.status
       /\ "real" \notin h0.sent /\ "mock" \notin h0.sent
  BY <1>1, <1>2 DEF SameImu, Ready
<1> HIDE DEF h1, reads, samples
<1>12. PICK g, tries, ok :
           /\ g \in HubStates
           /\ PollLeaves(d, time, event, result, tries, ok, g)
           /\ Coherent(g) /\ SameBeat(g, h1) /\ ReinitOutcome(h1, g, time, tries, ok)
           /\ Ready(g) <=> Ready(h1)
           /\ "real" \in g.sent <=> "real" \in h1.sent
           /\ "INT1" \in g.status \/ Ready(g) =>
                /\ ~tries /\ time = 0 /\ g.icm = h1.icm
                /\ "INT1" \in g.status <=> "INT1" \in h1.status
                /\ g.age["event"] = h1.age["event"] /\ g.age["fifo"] = h1.age["fifo"]
           /\ IF ~Ready(h1) /\ h1.age["fallback"] >= Period["fallback"]
              THEN "mock" \in g.sent /\ g.age["fallback"] = 0
              ELSE /\ "mock" \in g.sent <=> "mock" \in h1.sent
                   /\ g.age["fallback"] = h1.age["fallback"]
  BY <1>8, <1>9, SourceStagesFacts DEF h1, reads
<1>13. PollSummary(d, time, a, g, reads, samples, tries)
  <2>1. /\ "real" \in g.sent <=> samples
        /\ samples => reads /\ Ready(g) /\ hub.icm
                      /\ g.age["event"] = 0 /\ g.age["fallback"] = 0 /\ g.age["fifo"] = 0
        /\ "INT1" \in g.status \/ Ready(g) => ~tries /\ time = 0 /\ g.icm = hub.icm
    BY <1>5, <1>9, <1>10, <1>11, <1>12 DEF SensorAnswers
  <2>2. "INT1" \in g.status /\ ~samples =>
          "INT1" \in hub.status /\ g.age["event"] = a["event"] /\ a["event"] < Period["event"]
    BY <1>9, <1>11, <1>12
  <2>3. /\ Ready(g) => "mock" \notin g.sent
        /\ Ready(g) /\ ~samples =>
             /\ Ready(hub) /\ a["event"] < Period["event"]
             /\ g.age["event"] = a["event"] /\ g.age["fallback"] = a["fallback"]
             /\ ~reads => g.age["fifo"] = a["fifo"]
    BY <1>9, <1>11, <1>12
  <2>4. ~Ready(g) => IF a["fallback"] >= Period["fallback"]
                     THEN "mock" \in g.sent /\ g.age["fallback"] = 0
                     ELSE "mock" \notin g.sent /\ g.age["fallback"] = a["fallback"]
    BY <1>9, <1>11, <1>12
  <2>5. Ready(hub) /\ ~Ready(g) => reads \/ a["event"] >= Period["event"]
    BY <1>9, <1>11, <1>12
  <2> QED
    BY <1>12, <2>1, <2>2, <2>3, <2>4, <2>5 DEF PollSummary
<1>14. BeatSummary(a, g)
  BY <1>2, <1>9, <1>12 DEF BeatSummary, SameBeat
<1>15. PollLeaves(d, time, event, result, tries, ok, g)
  BY <1>12
<1>16. RecoverySummary(time, a, g, reads, samples, tries, ok)
  <2>1. /\ h1.failures \in Nat /\ h1.failures <= FailureThreshold
        /\ hub.failures \in Nat /\ hub.failures <= FailureThreshold
        /\ FailureThreshold \in Nat \ {0} /\ Period["reinit"] \in Nat /\ Period["event"] \in Nat
        /\ a["event"] \in Nat /\ a["reinit"] \in Nat
    BY <1>1, <1>9, ConstantFacts DEF HubStates, Ticks, ImuTimers
  <2>2. tries <=> h1.failures = FailureThreshold /\ a["reinit"] >= Period["reinit"]
    BY <1>9, <1>11, <1>12, <2>1 DEF ReinitOutcome, Reinitializes, Elapsed
  <2>3. samples => ~tries /\ time = 0 /\ g.failures = 0
    BY <1>9, <1>12, <2>1, <2>2 DEF ReinitOutcome
  <2>4. ~samples =>
          /\ h1.failures < FailureThreshold => hub.failures < FailureThreshold /\ a["event"] < Period["event"]
          /\ h1.failures = FailureThreshold /\ hub.failures < FailureThreshold =>
               reads \/ a["event"] >= Period["event"]
          /\ h1.age["event"] = a["event"] /\ h1.age["reinit"] = a["reinit"]
          /\ ~reads => h1.age["fifo"] = a["fifo"]
    BY <1>9, <1>11, <2>1
  <2>5. ~tries =>
          /\ time = 0 /\ g.failures = h1.failures /\ g.icm = hub.icm
          /\ \A t \in {"event", "fifo", "reinit"} : g.age[t] = h1.age[t]
    BY <1>5, <1>9, <1>12 DEF ReinitOutcome
  <2>6. ~samples /\ ~tries =>
          /\ g.icm = hub.icm /\ g.age["event"] = a["event"] /\ g.age["reinit"] = a["reinit"]
          /\ ~reads => g.age["fifo"] = a["fifo"]
          /\ g.failures < FailureThreshold => hub.failures < FailureThreshold /\ a["event"] < Period["event"]
          /\ g.failures = FailureThreshold => a["reinit"] < Period["reinit"]
    BY <2>1, <2>2, <2>4, <2>5
  <2>7. ~samples /\ (tries \/ g.failures = FailureThreshold) /\ hub.failures < FailureThreshold =>
          reads \/ a["event"] >= Period["event"]
    BY <2>2, <2>4, <2>5
  <2>8. tries =>
          /\ ok \in InitResults(sensor) /\ g.icm = ok /\ g.age["reinit"] = 0
          /\ IF ok THEN /\ g.failures = 0
                       /\ \A t \in {"event", "fifo"} : g.age[t] = (TickModulus - time) % TickModulus
                  ELSE g.failures = FailureThreshold
    BY <1>12, <2>2 DEF ReinitOutcome
  <2> QED
    BY <2>3, <2>5, <2>6, <2>7, <2>8 DEF RecoverySummary
<1> QED
  BY <1>10, <1>13, <1>14, <1>15, <1>16 DEF l
-----------------------------------------------------------------------------
(* The invariant.                                                          *)

LEMMA SilenceCapFact == SilenceCap \in Nat /\ SilenceCap > Period["event"] + MaxInitTime
BY ConstantFacts DEF SilenceCap, ImuTimers

LEMMA CappedFact ==
  ASSUME NEW n \in Nat, NEW cap \in Nat
  PROVE  Capped(n, cap) \in 0..cap /\ Capped(n, cap) <= n
BY DEF Capped

LEMMA InitIInv == Init => IInv /\ hub.age["heartbeat"] <= MaxInitTime
<1> SUFFICES ASSUME Init PROVE IInv /\ hub.age["heartbeat"] <= MaxInitTime
  OBVIOUS
<1>1. PICK bus \in Buses, mag, baro \in IF IcmOnly THEN {FALSE} ELSE BOOLEAN,
           configured \in BOOLEAN, time \in 0..MaxInitTime :
      \E icm \in InitResults([bus |-> bus]) :
        /\ bus = "dead" => ~mag /\ ~baro
        /\ icm => configured
        /\ sensor = [bus |-> bus, configured |-> configured, pulse |-> 0,
                     filled |-> IF bus = "good" THEN 0 ELSE BatchTime + 1]
        /\ hub = [status |->
                    (IF icm THEN {"ICM_READY"} ELSE {"FALLBACK", "IMU_ERROR", "INIT_ERROR"})
                    \cup (IF IcmOnly THEN {}
                          ELSE {IF mag THEN "MAG_READY" ELSE "MAG_ERROR",
                                IF baro THEN "BARO_READY" ELSE "BARO_ERROR"}),
                  age |-> [t \in Timers |->
                             IF icm /\ t \in {"event", "fifo", "fallback"} THEN 0 ELSE time],
                  failures |-> 0, realFilter |-> FALSE, i2cFault |-> FALSE,
                  icm |-> icm, mag |-> mag, baro |-> baro,
                  announced |-> {}, sent |-> {}]
        /\ hist = [healthy |-> 0, quiet |-> Period["event"], silence |-> 0]
  BY Zenon DEF Init
<1>2. PICK icm \in InitResults([bus |-> bus]) :
        /\ bus = "dead" => ~mag /\ ~baro
        /\ icm => configured
        /\ sensor = [bus |-> bus, configured |-> configured, pulse |-> 0,
                     filled |-> IF bus = "good" THEN 0 ELSE BatchTime + 1]
        /\ hub = [status |->
                    (IF icm THEN {"ICM_READY"} ELSE {"FALLBACK", "IMU_ERROR", "INIT_ERROR"})
                    \cup (IF IcmOnly THEN {}
                          ELSE {IF mag THEN "MAG_READY" ELSE "MAG_ERROR",
                                IF baro THEN "BARO_READY" ELSE "BARO_ERROR"}),
                  age |-> [t \in Timers |->
                             IF icm /\ t \in {"event", "fifo", "fallback"} THEN 0 ELSE time],
                  failures |-> 0, realFilter |-> FALSE, i2cFault |-> FALSE,
                  icm |-> icm, mag |-> mag, baro |-> baro,
                  announced |-> {}, sent |-> {}]
        /\ hist = [healthy |-> 0, quiet |-> Period["event"], silence |-> 0]
  BY <1>1, Zenon
<1>3. icm \in BOOLEAN
  BY DEF InitResults
<1> DEFINE status == (IF icm THEN {"ICM_READY"} ELSE {"FALLBACK", "IMU_ERROR", "INIT_ERROR"})
                     \cup (IF IcmOnly THEN {}
                           ELSE {IF mag THEN "MAG_READY" ELSE "MAG_ERROR",
                                 IF baro THEN "BARO_READY" ELSE "BARO_ERROR"})
           age == [t \in Timers |->
                     IF icm /\ t \in {"event", "fifo", "fallback"} THEN 0 ELSE time]
<1>4. /\ status \in SUBSET StatusBits /\ "INT1" \notin status
      /\ "ICM_READY" \in status <=> icm
      /\ "FALLBACK" \in status <=> ~icm
      /\ "IMU_ERROR" \in status <=> ~icm
      /\ "INIT_ERROR" \in status <=> ~icm
      /\ ~IcmOnly => /\ "MAG_READY" \in status <=> "MAG_ERROR" \notin status
                     /\ "BARO_READY" \in status <=> "BARO_ERROR" \notin status
  BY DEF StatusBits
<1>5. /\ age \in [Timers -> Ticks]
      /\ icm => age["event"] = 0 /\ age["fifo"] = 0 /\ age["fallback"] = 0
      /\ ~icm => age["fallback"] = time
      /\ age["heartbeat"] = time
  BY ConstantFacts DEF Ticks, ImuTimers
<1>6. mag \in BOOLEAN /\ baro \in BOOLEAN /\ icm \in BOOLEAN
  BY <1>3
<1>7. hub = [status |-> status, age |-> age, failures |-> 0, realFilter |-> FALSE,
             i2cFault |-> FALSE, icm |-> icm, mag |-> mag, baro |-> baro,
             announced |-> {}, sent |-> {}]
  BY <1>2, Zenon
<1> HIDE DEF status, age
<1>8. hub \in HubStates
  <2>1. 0 \in 0..FailureThreshold
    BY ConstantFacts
  <2> QED
    BY <1>4, <1>5, <1>6, <1>7, <2>1 DEF HubStates
<1>9. sensor \in SensorStates
  <2> DEFINE filled == IF bus = "good" THEN 0 ELSE BatchTime + 1
  <2>1. filled \in 0..(BatchTime + 1) /\ 0 \in 0..PulseTime
    BY ConstantFacts
  <2>2. sensor = [bus |-> bus, configured |-> configured, pulse |-> 0, filled |-> filled]
    BY <1>2
  <2> HIDE DEF filled
  <2> QED
    BY <2>1, <2>2 DEF SensorStates
<1>10. hist \in HistStates
  BY <1>2, ConstantFacts, SilenceCapFact DEF HistStates, ImuTimers
<1>11. Coherent(hub)
  BY <1>4, <1>7, ConstantFacts DEF Coherent, AuxCoherent
<1>12. FramesMatchStatus /\ HealthyIsGood /\ Int1Times
  BY <1>2, <1>4, <1>7 DEF FramesMatchStatus, HealthyIsGood, Int1Times
<1>13. ReadyTimes /\ FallbackTimes
  <2>1. CASE icm
    BY <1>2, <1>4, <1>5, <1>7, <2>1, ConstantFacts DEF ReadyTimes, FallbackTimes, Ready, ImuTimers
  <2>2. CASE ~icm
    <3>1. time \in Nat /\ time < Period["fallback"] + MaxInitTime
      BY ConstantFacts DEF ImuTimers
    <3>2. hub.age["fallback"] = time /\ hist.silence = 0 /\ ~Ready(hub)
      BY <1>2, <1>4, <1>5, <1>7, <2>2 DEF Ready
    <3> QED
      BY <3>1, <3>2 DEF ReadyTimes, FallbackTimes
  <2> QED
    BY <2>1, <2>2
<1>14. hub.age["heartbeat"] <= MaxInitTime
  BY <1>5, <1>7
<1> QED
  BY <1>8, <1>9, <1>10, <1>11, <1>12, <1>13, <1>14 DEF IInv, Types

LEMMA ReadyPollTimes ==
  ASSUME IInv, NEW d \in 1..MaxStep
  PROVE  /\ Ready(hub) =>
              /\ Later(hub, d).age["event"] = hub.age["event"] + d
              /\ Later(hub, d).age["fallback"] = hub.age["fallback"] + d
              /\ hub.age["fifo"] = hub.age["event"] =>
                   Later(hub, d).age["fifo"] = hub.age["fifo"] + d
         /\ ~Ready(hub) => Later(hub, d).age["fallback"] = hub.age["fallback"] + d
         /\ "INT1" \in hub.status => Later(hub, d).age["event"] = hub.age["event"] + d
         /\ hub.age["event"] \in Nat /\ hub.age["fallback"] \in Nat
<1>1. /\ hub \in HubStates /\ d \in Nat /\ d <= MaxStep
      /\ hub.age["event"] \in Nat /\ hub.age["fallback"] \in Nat /\ hub.age["fifo"] \in Nat
  BY ConstantFacts DEF IInv, Types, HubStates, Ticks, ImuTimers
<1>2. \A t \in ImuTimers : hub.age[t] + d < TickModulus => Later(hub, d).age[t] = hub.age[t] + d
  BY <1>1, LaterType, ConstantFacts
<1>3. \A t \in ImuTimers, n \in Nat : n < Period[t] + MaxInitTime => n + d < TickModulus
  BY <1>1, ConstantFacts
<1>4. Ready(hub) => /\ hub.age["event"] = hub.age["fallback"]
                    /\ hub.age["event"] < Period["event"] + MaxInitTime
  BY <1>1, ConstantFacts DEF IInv, ReadyTimes, ImuTimers
<1>5. "INT1" \in hub.status => hub.age["event"] < Period["event"] + MaxInitTime
  BY <1>1, ConstantFacts DEF IInv, Int1Times, ImuTimers
<1>6. ~Ready(hub) => hub.age["fallback"] < Period["fallback"] + MaxInitTime
  BY DEF IInv, FallbackTimes
<1> QED
  BY <1>1, <1>2, <1>3, <1>4, <1>5, <1>6 DEF ImuTimers

\* What the poll leaves of the hub is g, `time` ticks later.
Leaves(d, time, event, result, tries, ok, g) ==
  /\ Types'
  /\ Coherent(g) => Coherent(hub)'
  /\ Ready(hub)' <=> Ready(g)
  /\ "INT1" \in hub'.status <=> "INT1" \in g.status
  /\ hub'.icm = g.icm /\ hub'.sent = g.sent /\ hub'.failures = g.failures
  /\ \A t \in Timers : g.age[t] + time < TickModulus => hub'.age[t] = g.age[t] + time
  /\ \A t \in Timers : hub'.age[t] = (g.age[t] + time) % TickModulus
  /\ sensor'.bus = sensor.bus
  /\ tries /\ ok => sensor'.configured
  /\ ~tries => sensor'.configured = sensor.configured
  /\ sensor.bus = "good" =>
       /\ event \/ tries => sensor'.pulse = 0
       /\ ~event /\ ~tries /\ sensor.pulse + d <= PulseTime => sensor'.pulse = sensor.pulse + d
       /\ tries \/ result \in {"samples", "stream", "refused"} => sensor'.filled = 0
       /\ ~tries /\ result \notin {"samples", "stream", "refused"}
          /\ sensor.filled + d <= BatchTime + 1 => sensor'.filled = sensor.filled + d
  /\ hist'.healthy > 0 => sensor.bus = "good" /\ Undisturbed(d, result)
  /\ hist'.healthy <= hist.healthy + d + time
  /\ hist'.quiet <= (IF "real" \in g.sent THEN 0 ELSE hist.quiet + d) + time
  /\ hist'.silence <= (IF g.sent \cap {"real", "mock"} # {} THEN 0
                       ELSE hist.silence + d) + time

LEMMA LeavesFacts ==
  ASSUME NEW d \in Nat, NEW time \in 0..MaxInitTime, NEW event, NEW result, NEW tries, NEW ok,
         NEW g \in HubStates, IInv, PollLeaves(d, time, event, result, tries, ok, g)
  PROVE  Leaves(d, time, event, result, tries, ok, g)
<1>1. /\ hub' = Later(g, time)
      /\ Later(g, time) = [g EXCEPT !.age = [t \in Timers |-> (g.age[t] + time) % TickModulus]]
      /\ hub' \in HubStates
      /\ \A t \in Timers : g.age[t] + time < TickModulus => hub'.age[t] = g.age[t] + time
      /\ \A t \in Timers : hub'.age[t] = (g.age[t] + time) % TickModulus
  <2>1. hub' = Later(g, time)
    BY DEF PollLeaves
  <2> DEFINE age == [t \in Timers |-> (g.age[t] + time) % TickModulus]
  <2>2. /\ Later(g, time) = [g EXCEPT !.age = age] /\ Later(g, time) \in HubStates
        /\ \A t \in Timers : g.age[t] + time < TickModulus => Later(g, time).age[t] = g.age[t] + time
    BY LaterType
  <2>3. \A t \in Timers : age[t] = (g.age[t] + time) % TickModulus
    OBVIOUS
  <2> HIDE DEF age
  <2>4. Later(g, time).age = age
    BY <2>2 DEF HubStates
  <2> QED
    BY <2>1, <2>2, <2>3, <2>4 DEF age
<1>2. /\ hub'.status = g.status /\ hub'.failures = g.failures
      /\ hub'.realFilter = g.realFilter /\ hub'.icm = g.icm /\ hub'.sent = g.sent
  BY <1>1 DEF HubStates
<1>3. sensor \in SensorStates /\ hist \in HistStates
  BY DEF IInv, Types
<1> DEFINE pulse == IF sensor.bus # "good" \/ event \/ tries THEN 0 ELSE Capped(sensor.pulse + d, PulseTime)
           filled == CASE sensor.bus # "good" -> BatchTime + 1
                       [] sensor.bus = "good" /\ (tries \/ result \in {"samples", "stream", "refused"}) -> 0
                       [] OTHER -> Capped(sensor.filled + d, BatchTime + 1)
<1>4. PICK c \in BOOLEAN :
        /\ tries /\ ok => c
        /\ ~tries => c = sensor.configured
        /\ sensor' = [sensor EXCEPT !.configured = c, !.pulse = pulse, !.filled = filled]
  BY <1>3 DEF PollLeaves, ConfiguredAfterInit, SensorStates
<1>15. /\ sensor.pulse \in Nat /\ sensor.filled \in Nat /\ PulseTime \in Nat /\ BatchTime \in Nat
  BY <1>3, ConstantFacts DEF SensorStates
<1>12. /\ pulse \in 0..PulseTime
       /\ sensor.bus = "good" /\ (event \/ tries) => pulse = 0
       /\ sensor.bus = "good" /\ ~event /\ ~tries /\ sensor.pulse + d <= PulseTime =>
            pulse = sensor.pulse + d
  <2>1. CASE sensor.bus # "good" \/ event \/ tries
    BY <1>15, <2>1
  <2>2. CASE ~(sensor.bus # "good" \/ event \/ tries)
    <3>1. pulse = Capped(sensor.pulse + d, PulseTime)
      BY <2>2
    <3> HIDE DEF pulse
    <3> QED
      BY <1>15, <2>2, <3>1 DEF Capped
  <2> QED
    BY <2>1, <2>2
<1>13. /\ filled \in 0..(BatchTime + 1)
       /\ sensor.bus = "good" =>
            /\ tries \/ result \in {"samples", "stream", "refused"} => filled = 0
            /\ ~tries /\ result \notin {"samples", "stream", "refused"}
               /\ sensor.filled + d <= BatchTime + 1 => filled = sensor.filled + d
  <2>1. CASE sensor.bus # "good"
    BY <1>15, <2>1
  <2>2. CASE sensor.bus = "good" /\ (tries \/ result \in {"samples", "stream", "refused"})
    BY <1>15, <2>2
  <2>3. CASE sensor.bus = "good" /\ ~(tries \/ result \in {"samples", "stream", "refused"})
    <3>1. filled = Capped(sensor.filled + d, BatchTime + 1)
      BY <2>3
    <3> HIDE DEF filled
    <3> QED
      BY <1>15, <2>3, <3>1 DEF Capped
  <2> QED
    BY <2>1, <2>2, <2>3
<1> HIDE DEF pulse, filled
<1>5. /\ sensor' \in SensorStates /\ sensor'.bus = sensor.bus
      /\ tries /\ ok => sensor'.configured
      /\ ~tries => sensor'.configured = sensor.configured
      /\ sensor'.pulse = pulse /\ sensor'.filled = filled
  BY <1>3, <1>4, <1>12, <1>13 DEF SensorStates
<1>6. /\ RecoveryTime \in Nat /\ Period["event"] \in Nat /\ SilenceCap \in Nat /\ time \in Nat
      /\ hist.healthy \in Nat /\ hist.quiet \in Nat /\ hist.silence \in Nat
  BY <1>3, ConstantFacts, SilenceCapFact DEF HistStates, ImuTimers
<1> DEFINE quiet == (IF "real" \in g.sent THEN 0 ELSE hist.quiet + d) + time
           silence == (IF g.sent \cap {"real", "mock"} # {} THEN 0 ELSE hist.silence + d) + time
           healthy == hist.healthy + d + time
<1>7. quiet \in Nat /\ silence \in Nat /\ healthy \in Nat
  BY <1>6
<1> HIDE DEF quiet, silence, healthy
<1>8. /\ Capped(healthy, RecoveryTime) \in 0..RecoveryTime
      /\ Capped(healthy, RecoveryTime) <= healthy
      /\ Capped(quiet, Period["event"]) \in 0..Period["event"]
      /\ Capped(quiet, Period["event"]) <= quiet
      /\ Capped(silence, SilenceCap) \in 0..SilenceCap
      /\ Capped(silence, SilenceCap) <= silence
  BY <1>6, <1>7, CappedFact
<1>9. hist' = [healthy |-> IF sensor.bus = "good" /\ Undisturbed(d, result)
                           THEN Capped(healthy, RecoveryTime) ELSE 0,
               quiet |-> Capped(quiet, Period["event"]),
               silence |-> Capped(silence, SilenceCap)]
  BY DEF PollLeaves, quiet, silence, healthy
<1>10. /\ hist' \in HistStates
       /\ hist'.healthy > 0 => sensor.bus = "good" /\ Undisturbed(d, result)
       /\ hist'.healthy <= healthy
       /\ hist'.quiet <= quiet /\ hist'.silence <= silence
  <2>1. /\ hist'.quiet = Capped(quiet, Period["event"])
        /\ hist'.silence = Capped(silence, SilenceCap)
        /\ hist'.healthy = IF sensor.bus = "good" /\ Undisturbed(d, result)
                           THEN Capped(healthy, RecoveryTime) ELSE 0
    BY <1>9
  <2>2. hist'.healthy \in 0..RecoveryTime /\ hist'.healthy <= healthy
    BY <1>6, <1>7, <1>8, <2>1
  <2>3. hist' \in HistStates
    BY <1>8, <1>9, <2>1, <2>2, Zenon DEF HistStates
  <2> QED
    BY <1>8, <2>1, <2>2, <2>3
<1>11. Coherent(g) => Coherent(hub)'
  BY <1>2 DEF Coherent, AuxCoherent
<1>14. Types' /\ (Coherent(g) => Coherent(hub)')
  BY <1>1, <1>5, <1>10, <1>11 DEF Types
<1> QED
  BY <1>1, <1>2, <1>5, <1>10, <1>12, <1>13, <1>14 DEF Leaves, Ready, quiet, silence, healthy

\* A poll that brings no samples has not read the FIFO; it is not due yet, or
\* the pulse of INT1 is.
NotYetRead(d, event, result, reads, samples) ==
  ~samples =>
    /\ ~reads /\ result = "none"
    /\ hub.age["fifo"] + d < Period["event"] /\ hub.age["fifo"] + d <= BatchTime
    /\ event => hub.age["fifo"] + d + 1 <= Period["fifo"]
    /\ ~event => sensor.pulse + d < PulseTime

\* In a loop that keeps up, a read of the FIFO of such a sensor brings samples,
\* and is due before the events time out.
LEMMA SuppliedPoll ==
  ASSUME IInv, Supplied, NEW d \in 1..MaxStep,
         NEW event, NEW result, NEW reads, NEW samples,
         SensorAnswers(d, Later(hub, d).age, event, result, reads, samples),
         Undisturbed(d, result)
  PROVE  /\ Later(hub, d).age["event"] = hub.age["event"] + d
         /\ Later(hub, d).age["fifo"] = hub.age["fifo"] + d
         /\ NotYetRead(d, event, result, reads, samples)
<1> DEFINE a == Later(hub, d).age
           n == hub.age["fifo"]
<1>1. /\ hub \in HubStates /\ d \in Nat /\ d <= MaxStep /\ d <= PromptStep
      /\ n \in Nat /\ sensor.pulse \in Nat /\ n = hub.age["event"] /\ sensor.filled = n
      /\ sensor.pulse < PulseTime /\ n + 1 <= Period["fifo"] + sensor.pulse
      /\ PromptStep \in Nat \ {0} /\ PulseTime \in Nat /\ BatchTime \in Nat
      /\ Period["fifo"] \in Nat /\ Period["event"] \in Nat /\ TickModulus \in Nat
      /\ MaxStep \in Nat /\ MaxInitTime \in Nat
      /\ Period["fifo"] + PulseTime + PromptStep <= BatchTime + 2
      /\ BatchTime <= Period["event"] /\ Period["event"] + MaxStep + MaxInitTime <= TickModulus
  BY ConstantFacts
     DEF IInv, Types, HubStates, SensorStates, Ticks, ImuTimers, Supplied, Undisturbed
<1>2. a["event"] = n + d /\ a["fifo"] = n + d
  <2>1. n + d < TickModulus
    BY <1>1
  <2>2. "event" \in Timers /\ "fifo" \in Timers
    BY ConstantFacts DEF ImuTimers
  <2>3. \A t \in Timers : hub.age[t] + d < TickModulus => a[t] = hub.age[t] + d
    BY <1>1, LaterType
  <2> HIDE DEF a
  <2> QED
    BY <1>1, <2>1, <2>2, <2>3
<1> HIDE DEF a
<1>3. SensorAnswers(d, a, event, result, reads, samples)
  BY DEF a
<1>4. ASSUME ~samples PROVE ~reads
  <2>1. sensor.filled + d <= BatchTime
    BY <1>1
  <2> QED
    BY <1>3, <1>4, <2>1 DEF SensorAnswers, Supplied, Undisturbed
<1>5. ASSUME ~samples
      PROVE  /\ result = "none"
             /\ event => ~(n + d >= Period["fifo"])
             /\ ~event => ~(sensor.pulse + d >= PulseTime)
  BY <1>2, <1>3, <1>4, <1>5 DEF SensorAnswers, Supplied
<1> HIDE DEF n
<1>6. ASSUME ~samples
      PROVE  /\ n + d < Period["event"] /\ n + d <= BatchTime
             /\ event => n + d + 1 <= Period["fifo"]
             /\ ~event => sensor.pulse + d < PulseTime
  <2>1. CASE event
    BY <1>1, <1>5, <1>6, <2>1
  <2>2. CASE ~event
    BY <1>1, <1>5, <1>6, <2>2
  <2> QED
    BY <2>1, <2>2
<1> QED
  BY <1>1, <1>2, <1>4, <1>5, <1>6 DEF a, n, NotYetRead

\* So a poll that brings none leaves it supplied, ...
LEMMA SuppliedKept ==
  ASSUME IInv, Supplied, NEW d \in 1..MaxStep, NEW time,
         NEW event, NEW result, NEW reads, NEW samples, NEW tries, NEW ok, NEW g,
         SensorAnswers(d, Later(hub, d).age, event, result, reads, samples),
         Undisturbed(d, result), ~samples, ~tries,
         Leaves(d, time, event, result, tries, ok, g), hub'.icm = hub.icm,
         hub'.age["event"] = hub.age["event"] + d, hub'.age["fifo"] = hub.age["fifo"] + d
  PROVE  Supplied'
<1>1. /\ result = "none" /\ hub.age["fifo"] + d <= BatchTime
      /\ event => hub.age["fifo"] + d + 1 <= Period["fifo"]
      /\ ~event => sensor.pulse + d < PulseTime
  <2>1. NotYetRead(d, event, result, reads, samples)
    BY SuppliedPoll
  <2> QED
    BY <2>1 DEF NotYetRead
<1>2. /\ d \in Nat /\ hub.age["fifo"] \in Nat /\ sensor.pulse \in Nat /\ sensor.filled \in Nat
      /\ PulseTime \in Nat \ {0} /\ Period["fifo"] \in Nat /\ BatchTime \in Nat
  BY ConstantFacts DEF IInv, Types, HubStates, SensorStates, Ticks, ImuTimers
<1>3. /\ hub.age["fifo"] = hub.age["event"] /\ sensor.filled = hub.age["event"]
      /\ hub.age["fifo"] + 1 <= Period["fifo"] + sensor.pulse
      /\ sensor.bus = "good" /\ sensor.configured /\ hub.icm
  BY DEF Supplied
<1>4. sensor'.bus = "good" /\ sensor'.configured /\ hub'.icm
  BY <1>3 DEF Leaves
<1>5. sensor'.filled = sensor.filled + d
  <2>1. sensor.filled + d <= BatchTime + 1
    BY <1>1, <1>2, <1>3
  <2>2. result \notin {"samples", "stream", "refused"}
    BY <1>1
  <2> QED
    BY <1>3, <2>1, <2>2 DEF Leaves
<1>6. sensor'.pulse = IF event THEN 0 ELSE sensor.pulse + d
  <2>1. CASE event
    BY <1>3, <2>1 DEF Leaves
  <2>2. CASE ~event
    <3>1. sensor.pulse + d <= PulseTime
      BY <1>1, <1>2, <2>2
    <3> QED
      BY <1>3, <2>2, <3>1 DEF Leaves
  <2> QED
    BY <2>1, <2>2
<1>7. sensor'.pulse < PulseTime /\ hub'.age["fifo"] + 1 <= Period["fifo"] + sensor'.pulse
  <2>1. CASE event
    BY <1>1, <1>2, <1>6, <2>1
  <2>2. CASE ~event
    BY <1>1, <1>2, <1>3, <1>6, <2>2
  <2> QED
    BY <2>1, <2>2
<1> QED
  BY <1>3, <1>4, <1>5, <1>7 DEF Supplied

\* ... and one that empties the FIFO makes it so.
LEMMA SuppliedAnew ==
  ASSUME IInv, NEW d, NEW time, NEW event, NEW result, NEW tries, NEW ok, NEW g,
         Leaves(d, time, event, result, tries, ok, g), sensor.bus = "good",
         \/ event /\ result = "samples" /\ ~tries /\ sensor.configured
         \/ tries /\ ok,
         hub'.icm, hub'.age["event"] = 0, hub'.age["fifo"] = 0
  PROVE  Supplied'
<1>1. sensor'.bus = "good" /\ sensor'.configured
  BY DEF Leaves
<1>2. sensor'.pulse = 0 /\ sensor'.filled = 0
  BY DEF Leaves
<1>3. 0 < PulseTime /\ 0 + 1 <= Period["fifo"] + 0
  BY ConstantFacts DEF ImuTimers
<1> QED
  BY <1>1, <1>2, <1>3 DEF Supplied

LEMMA PollIInv == ASSUME IInv, Poll PROVE IInv'
<1>1. PICK d \in 1..MaxStep, time \in 0..MaxInitTime : PollTakes(d, time)
  BY DEF Poll
<1>2. /\ hub \in HubStates /\ Coherent(hub) /\ d \in Nat /\ time \in Nat /\ time <= MaxInitTime
      /\ sensor \in SensorStates /\ hist \in HistStates
  BY ConstantFacts DEF IInv, Types
<1> DEFINE a == Later(hub, d).age
<1>3. PICK event, result, g, reads, samples, tries, ok :
           /\ PollLeaves(d, time, event, result, tries, ok, g)
           /\ PollSummary(d, time, a, g, reads, samples, tries)
           /\ SensorAnswers(d, a, event, result, reads, samples)
  BY <1>1, <1>2, PollFacts
<1>4. g \in HubStates /\ Coherent(g)
  BY <1>3 DEF PollSummary
<1>5. /\ Types'
      /\ Coherent(g) => Coherent(hub)'
      /\ Ready(hub)' <=> Ready(g)
      /\ "INT1" \in hub'.status <=> "INT1" \in g.status
      /\ hub'.icm = g.icm /\ hub'.sent = g.sent
      /\ \A t \in Timers : g.age[t] + time < TickModulus => hub'.age[t] = g.age[t] + time
      /\ sensor'.bus = sensor.bus
      /\ hist'.healthy > 0 => sensor.bus = "good" /\ Undisturbed(d, result)
      /\ hist'.healthy <= hist.healthy + d + time
      /\ hist'.quiet <= (IF "real" \in g.sent THEN 0 ELSE hist.quiet + d) + time
      /\ hist'.silence <= (IF g.sent \cap {"real", "mock"} # {} THEN 0
                           ELSE hist.silence + d) + time
  <2>1. Leaves(d, time, event, result, tries, ok, g)
    BY <1>2, <1>3, <1>4, LeavesFacts
  <2> QED
    BY <2>1 DEF Leaves
<1>6. /\ hist.healthy \in Nat /\ hist.quiet \in Nat /\ hist.silence \in Nat
      /\ hist'.healthy \in Nat /\ hist'.quiet \in Nat /\ hist'.silence \in Nat
      /\ Period["event"] \in Nat \ {0} /\ Period["fallback"] \in Nat \ {0}
      /\ Period["fallback"] + MaxStep + MaxInitTime <= TickModulus
      /\ TickModulus \in Nat /\ MaxInitTime \in Nat /\ MaxStep \in Nat \ {0}
      /\ hub.age["fifo"] \in Nat
      /\ \A t \in ImuTimers : g.age[t] \in Ticks
  <2>1. hist \in HistStates /\ hist' \in HistStates
    BY <1>2, <1>5 DEF Types
  <2>2. hist.healthy \in Nat /\ hist.quiet \in Nat /\ hist.silence \in Nat
    BY <2>1, ConstantFacts, SilenceCapFact DEF HistStates, ImuTimers
  <2>3. hist'.healthy \in Nat /\ hist'.quiet \in Nat /\ hist'.silence \in Nat
    BY <2>1, ConstantFacts, SilenceCapFact DEF HistStates, ImuTimers
  <2>4. "fifo" \in ImuTimers /\ "event" \in ImuTimers /\ "fallback" \in ImuTimers
    BY DEF ImuTimers
  <2>5. hub.age["fifo"] \in Nat /\ \A t \in ImuTimers : g.age[t] \in Ticks
    BY <1>2, <1>4, <2>4, ConstantFacts DEF HubStates, Ticks
  <2> QED
    BY <2>2, <2>3, <2>4, <2>5, ConstantFacts
<1>7. time = 0 => \A t \in ImuTimers : hub'.age[t] = g.age[t]
  BY <1>5, <1>6, ConstantFacts DEF Ticks
<1>8. /\ Ready(hub) => a["event"] = hub.age["event"] + d /\ a["fallback"] = hub.age["fallback"] + d
      /\ ~Ready(hub) => a["fallback"] = hub.age["fallback"] + d
      /\ "INT1" \in hub.status => a["event"] = hub.age["event"] + d
      /\ hub.age["event"] \in Nat /\ hub.age["fallback"] \in Nat
  BY ReadyPollTimes
<1>15. Leaves(d, time, event, result, tries, ok, g)
  BY <1>2, <1>3, <1>4, LeavesFacts
<1>16. hist'.healthy > 0 /\ Supplied =>
         /\ a["event"] = hub.age["event"] + d /\ a["fifo"] = hub.age["fifo"] + d
         /\ NotYetRead(d, event, result, reads, samples)
  BY <1>3, <1>5, SuppliedPoll
<1>17. hist'.healthy > 0 /\ Supplied /\ ~samples /\ ~tries /\ hub'.icm = hub.icm
       /\ hub'.age["event"] = hub.age["event"] + d /\ hub'.age["fifo"] = hub.age["fifo"] + d =>
         Supplied'
  BY <1>3, <1>5, <1>15, SuppliedKept
<1> HIDE DEF a
<1>9. hist.silence <= hub.age["fallback"]
  BY DEF IInv, ReadyTimes, FallbackTimes
<1>10. FramesMatchStatus'
  BY <1>3, <1>5 DEF PollSummary, FramesMatchStatus, Ready
<1>11. HealthyIsGood'
  BY <1>5 DEF HealthyIsGood
<1>12. Int1Times'
  <2> SUFFICES ASSUME "INT1" \in g.status
               PROVE  hist'.quiet <= hub'.age["event"] /\ hub'.age["event"] < Period["event"]
    BY <1>5 DEF Int1Times
  <2>1. time = 0 /\ hub'.age["event"] = g.age["event"]
    BY <1>3, <1>7 DEF PollSummary, ImuTimers
  <2>2. CASE samples
    <3>1. "real" \in g.sent /\ g.age["event"] = 0
      BY <1>3, <2>2 DEF PollSummary
    <3> QED
      BY <1>5, <1>6, <2>1, <3>1
  <2>3. CASE ~samples
    <3>1. /\ "real" \notin g.sent /\ "INT1" \in hub.status
          /\ g.age["event"] = a["event"] /\ a["event"] < Period["event"]
      BY <1>3, <2>3 DEF PollSummary
    <3>2. hist.quiet <= hub.age["event"] /\ a["event"] = hub.age["event"] + d
      BY <1>8, <3>1 DEF IInv, Int1Times
    <3>3. hist'.quiet <= hist.quiet + d
      BY <1>2, <1>5, <1>6, <2>1, <3>1
    <3> QED
      BY <1>2, <1>6, <1>8, <2>1, <3>1, <3>2, <3>3
  <2> QED
    BY <2>2, <2>3
<1>13. ReadyTimes'
  <2> SUFFICES ASSUME Ready(g)
               PROVE  /\ hub'.icm
                      /\ hub'.age["event"] = hub'.age["fallback"]
                      /\ hub'.age["event"] < Period["event"]
                      /\ hist'.silence <= hub'.age["event"]
                      /\ hist'.healthy > hub'.age["event"] /\ sensor'.configured => Supplied'
    BY <1>5 DEF ReadyTimes
  <2>1. /\ time = 0 /\ hub'.icm = hub.icm /\ ~tries
        /\ \A t \in {"event", "fifo", "fallback"} : hub'.age[t] = g.age[t]
    BY <1>3, <1>5, <1>7 DEF PollSummary, ImuTimers
  <2>2. CASE samples
    <3>1. /\ "real" \in g.sent /\ reads /\ hub.icm
          /\ g.age["event"] = 0 /\ g.age["fallback"] = 0 /\ g.age["fifo"] = 0
      BY <1>3, <2>2 DEF PollSummary
    <3>2. hist'.silence <= 0
      BY <1>5, <1>6, <2>1, <3>1
    <3>3. hist'.healthy > 0 => Supplied'
      <4>1. event /\ result = "samples" /\ sensor.configured
        BY <1>3, <2>2 DEF SensorAnswers
      <4>2. hub'.icm /\ hub'.age["event"] = 0 /\ hub'.age["fifo"] = 0
        BY <2>1, <3>1
      <4> QED
        BY <1>5, <1>15, <2>1, <4>1, <4>2, SuppliedAnew
    <3> QED
      BY <1>6, <2>1, <3>1, <3>2, <3>3
  <2>3. CASE ~samples
    <3>1. /\ "real" \notin g.sent /\ "mock" \notin g.sent /\ Ready(hub)
          /\ g.age["event"] = a["event"] /\ g.age["fallback"] = a["fallback"]
          /\ a["event"] < Period["event"]
          /\ ~reads => g.age["fifo"] = a["fifo"]
      BY <1>3, <2>3 DEF PollSummary
    <3>2. /\ hub.icm /\ hub.age["event"] = hub.age["fallback"]
          /\ hist.silence <= hub.age["event"]
          /\ hist.healthy > hub.age["event"] /\ sensor.configured => Supplied
      BY <3>1 DEF IInv, ReadyTimes
    <3>3. hist'.silence <= hist.silence + d /\ hist'.healthy <= hist.healthy + d
      <4>1. g.sent \cap {"real", "mock"} = {}
        BY <3>1
      <4> QED
        BY <1>2, <1>5, <1>6, <2>1, <4>1
    <3>4. a["event"] = hub.age["event"] + d /\ a["fallback"] = hub.age["fallback"] + d
      BY <1>8, <3>1
    <3>5. ASSUME hist'.healthy > a["event"], sensor'.configured
          PROVE  Supplied'
      <4>1. hist.healthy > hub.age["event"] /\ hist'.healthy > 0
        BY <1>2, <1>6, <1>8, <3>3, <3>4, <3>5
      <4>2. sensor.configured
        BY <1>15, <2>1, <3>5 DEF Leaves
      <4>3. Supplied
        BY <3>2, <4>1, <4>2
      <4>4. ~reads /\ a["fifo"] = hub.age["fifo"] + d
        BY <1>16, <2>3, <4>1, <4>3 DEF NotYetRead
      <4>5. hub'.age["event"] = hub.age["event"] + d /\ hub'.age["fifo"] = hub.age["fifo"] + d
        BY <2>1, <3>1, <3>4, <4>4
      <4> QED
        BY <1>17, <2>1, <2>3, <4>1, <4>3, <4>5
    <3> QED
      BY <1>2, <1>6, <1>8, <2>1, <3>1, <3>2, <3>3, <3>4, <3>5
  <2> QED
    BY <2>2, <2>3
<1>14. FallbackTimes'
  <2> SUFFICES ASSUME ~Ready(g)
               PROVE  /\ hist'.silence <= hub'.age["fallback"]
                      /\ hub'.age["fallback"] < Period["fallback"] + MaxInitTime
    BY <1>5 DEF FallbackTimes
  <2>1. a["fallback"] = hub.age["fallback"] + d
    BY <1>8
  <2>2. "fallback" \in Timers
    BY ConstantFacts DEF ImuTimers
  <2>3. CASE a["fallback"] >= Period["fallback"]
    <3>1. "mock" \in g.sent /\ g.age["fallback"] = 0
      BY <1>3, <2>3 DEF PollSummary
    <3>2. hist'.silence <= 0 + time
      BY <1>5, <3>1
    <3>3. hub'.age["fallback"] = 0 + time
      BY <1>2, <1>5, <1>6, <2>2, <3>1
    <3> QED
      BY <1>2, <1>6, <3>2, <3>3
  <2>4. CASE ~(a["fallback"] >= Period["fallback"])
    <3>1. g.age["fallback"] = a["fallback"] /\ "mock" \notin g.sent /\ "real" \notin g.sent
      BY <1>3, <2>4 DEF PollSummary
    <3>2. hist'.silence <= hist.silence + d + time
      <4>1. g.sent \cap {"real", "mock"} = {}
        BY <3>1
      <4> QED
        BY <1>5, <4>1
    <3>3. hub'.age["fallback"] = hub.age["fallback"] + d + time
      <4>1. g.age["fallback"] = hub.age["fallback"] + d /\ g.age["fallback"] < Period["fallback"]
        BY <1>2, <1>6, <1>8, <2>1, <2>4, <3>1
      <4>2. g.age["fallback"] + time < TickModulus
        BY <1>2, <1>6, <1>8, <4>1
      <4> QED
        BY <1>5, <2>2, <4>1, <4>2
    <3> QED
      BY <1>2, <1>6, <1>8, <1>9, <2>1, <2>4, <3>2, <3>3
  <2> QED
    BY <2>3, <2>4
<1> QED
  BY <1>4, <1>5, <1>10, <1>11, <1>12, <1>13, <1>14 DEF IInv

LEMMA StepIInv == IInv /\ [Next]_vars => IInv'
<1> SUFFICES ASSUME IInv, [Next]_vars PROVE IInv'
  OBVIOUS
<1>1. CASE Poll
  BY <1>1, PollIInv
<1>2. CASE BusChanges
  <2>1. PICK bus \in Buses \ {sensor.bus}, c \in BOOLEAN :
          sensor' = [sensor EXCEPT !.bus = bus, !.configured = c, !.pulse = 0,
                                   !.filled = BatchTime + 1]
    BY <1>2 DEF BusChanges, IInv, Types, SensorStates
  <2>2. hist' = [hist EXCEPT !.healthy = 0] /\ hub' = hub
    BY <1>2 DEF BusChanges
  <2>3. sensor' \in SensorStates
    <3>1. BatchTime + 1 \in 0..(BatchTime + 1) /\ 0 \in 0..PulseTime
      BY ConstantFacts
    <3> QED
      BY <2>1, <3>1 DEF IInv, Types, SensorStates
  <2>4. /\ hist' \in HistStates /\ hist'.healthy = 0
        /\ hist'.quiet = hist.quiet /\ hist'.silence = hist.silence
    BY <2>2, ConstantFacts DEF IInv, Types, HistStates
  <2>5. hub \in HubStates /\ \A t \in ImuTimers : hub.age[t] \in Nat
    BY ConstantFacts DEF IInv, Types, HubStates, Ticks
  <2>6. ReadyTimes' /\ FallbackTimes'
    BY <2>2, <2>4, <2>5 DEF IInv, ReadyTimes, FallbackTimes, Ready, ImuTimers
  <2>7. Int1Times' /\ FramesMatchStatus' /\ HealthyIsGood'
    BY <2>2, <2>4 DEF IInv, Int1Times, FramesMatchStatus, HealthyIsGood
  <2> QED
    BY <2>2, <2>3, <2>4, <2>5, <2>6, <2>7 DEF IInv, Types, Coherent, AuxCoherent
<1>3. CASE UNCHANGED vars
  BY <1>3 DEF vars, IInv, Types, Coherent, AuxCoherent, FramesMatchStatus, ReadyTimes,
              FallbackTimes, Int1Times, HealthyIsGood, Ready, Supplied
<1> QED
  BY <1>1, <1>2, <1>3 DEF Next

LEMMA Invariant == Spec => []IInv
<1>1. Init => IInv
  BY InitIInv
<1>2. IInv /\ [Next]_vars => IInv'
  BY StepIInv
<1> QED
  BY <1>1, <1>2, PTL DEF Spec
-----------------------------------------------------------------------------
(* The recovery.  Of a sensor that has been healthy for a while the hub    *)
(* has given up what timed out, re-initialises it when that timer elapses  *)
(* again, and reads samples a FIFO period and a pulse of INT1 behind it.   *)

\* The counter is at its threshold by then, ...
GivenUpBy == Period["event"] + PromptStep - 1
\* ... the driver initialised by then, ...
InitializedBy == GivenUpBy + Period["reinit"] - 1 + PromptStep + MaxInitTime
\* ... and the sensor ready.
RecoveryDelay == InitializedBy + Period["fifo"] + PulseTime - 1

\* An age is true and not wrapped: each poll tests the timer, and only an
\* initialisation that blocked for long leaves it past its period.
TimerRuns(t) == hub.age[t] < Period[t] \/ (hist.healthy = 0 /\ hub.age[t] <= MaxInitTime)

\* The driver is initialised and the FIFO was emptied since, so the next read
\* brings samples, and it is due before the event timeout.
Serving ==
  Supplied /\ (~Ready(hub) => hist.healthy <= InitializedBy + hub.age["fifo"])

\* The sensor has been healthy no longer than the event timer has run.
Waiting == hist.healthy <= hub.age["event"] /\ hist.healthy < Period["event"]

Recovering ==
  IF hub.failures < FailureThreshold
  THEN TimerRuns("event") /\ (Waiting \/ Serving)
  ELSE TimerRuns("reinit") /\ hist.healthy <= GivenUpBy + hub.age["reinit"]

\* A poll behind which the read is due finds samples; else nothing happens
\* to a sensor that serves.
StillServes(d, g, reads, samples, tries) ==
  hub.failures < FailureThreshold /\ Serving =>
    \/ samples
    \/ /\ ~samples /\ ~reads /\ ~tries /\ g.failures < FailureThreshold /\ g.icm
       /\ g.age["event"] = hub.age["event"] + d /\ g.age["fifo"] = hub.age["fifo"] + d
       /\ Ready(hub) => Ready(g)

LEMMA ServingKept ==
  ASSUME IInv, NEW d \in 1..MaxStep, NEW time,
         NEW event, NEW result, NEW g, NEW reads, NEW samples, NEW tries, NEW ok,
         PollSummary(d, time, Later(hub, d).age, g, reads, samples, tries),
         SensorAnswers(d, Later(hub, d).age, event, result, reads, samples),
         Undisturbed(d, result),
         RecoverySummary(time, Later(hub, d).age, g, reads, samples, tries, ok)
  PROVE  StillServes(d, g, reads, samples, tries)
<1> SUFFICES ASSUME hub.failures < FailureThreshold, Serving
             PROVE  \/ samples
                    \/ /\ ~samples /\ ~reads /\ ~tries /\ g.failures < FailureThreshold /\ g.icm
                       /\ g.age["event"] = hub.age["event"] + d
                       /\ g.age["fifo"] = hub.age["fifo"] + d
                       /\ Ready(hub) => Ready(g)
  BY DEF StillServes
<1> DEFINE a == Later(hub, d).age
<1>1. /\ a["event"] = hub.age["event"] + d /\ a["fifo"] = hub.age["fifo"] + d
      /\ NotYetRead(d, event, result, reads, samples)
  BY SuppliedPoll DEF Serving
<1> HIDE DEF a
<1>2. PollSummary(d, time, a, g, reads, samples, tries)
      /\ RecoverySummary(time, a, g, reads, samples, tries, ok)
  BY DEF a
<1>3. CASE samples
  BY <1>3
<1>4. CASE ~samples
  <2>1. /\ ~reads /\ a["event"] < Period["event"] /\ ~(a["event"] >= Period["event"]) /\ hub.icm
    <3>1. ~reads /\ a["event"] < Period["event"] /\ hub.icm
      BY <1>1, <1>4 DEF NotYetRead, Serving, Supplied
    <3>2. a["event"] \in Nat /\ Period["event"] \in Nat
      BY <1>1, ConstantFacts DEF IInv, Types, HubStates, Ticks, ImuTimers
    <3> QED
      BY <3>1, <3>2
  <2>2. ~tries /\ g.failures # FailureThreshold
    BY <1>2, <1>4, <2>1 DEF RecoverySummary
  <2>3. g.failures < FailureThreshold
    BY <1>2, <2>2, ConstantFacts DEF PollSummary, HubStates
  <2>4. /\ g.icm = hub.icm /\ g.age["event"] = a["event"] /\ g.age["fifo"] = a["fifo"]
    BY <1>2, <1>4, <2>1, <2>2 DEF RecoverySummary
  <2>5. Ready(hub) => Ready(g)
    BY <1>2, <2>1 DEF PollSummary
  <2> QED
    BY <1>1, <1>4, <2>1, <2>2, <2>3, <2>4, <2>5
<1> QED
  BY <1>3, <1>4

\* The hub gives the sensor up or schedules it again no later than claimed.
GivesUpInTime(d, a, g, samples, tries) ==
  ~samples /\ (tries \/ g.failures = FailureThreshold) =>
    /\ hist.healthy + d <= InitializedBy - MaxInitTime
    /\ ~tries => hist.healthy + d <= GivenUpBy + a["reinit"]

LEMMA GivingUp ==
  ASSUME IInv, Recovering, NEW d \in 1..MaxStep, NEW time,
         NEW event, NEW result, NEW g, NEW reads, NEW samples, NEW tries, NEW ok,
         PollSummary(d, time, Later(hub, d).age, g, reads, samples, tries),
         SensorAnswers(d, Later(hub, d).age, event, result, reads, samples),
         Undisturbed(d, result),
         RecoverySummary(time, Later(hub, d).age, g, reads, samples, tries, ok)
  PROVE  GivesUpInTime(d, Later(hub, d).age, g, samples, tries)
<1> SUFFICES ASSUME ~samples, tries \/ g.failures = FailureThreshold
             PROVE  /\ hist.healthy + d <= InitializedBy - MaxInitTime
                    /\ ~tries => hist.healthy + d <= GivenUpBy + Later(hub, d).age["reinit"]
  BY DEF GivesUpInTime
<1> DEFINE a == Later(hub, d).age
<1>1. /\ hub \in HubStates /\ d \in Nat /\ d <= PromptStep /\ d <= MaxStep
      /\ hist.healthy \in Nat
      /\ hub.age["event"] \in Nat /\ hub.age["reinit"] \in Nat
      /\ hub.failures \in Nat /\ hub.failures <= FailureThreshold
      /\ FailureThreshold \in Nat /\ PromptStep \in Nat \ {0} /\ MaxStep \in Nat \ {0} /\ MaxInitTime \in Nat
      /\ Period["event"] \in Nat \ {0} /\ Period["reinit"] \in Nat \ {0} /\ TickModulus \in Nat
      /\ Period["reinit"] + MaxStep + MaxInitTime <= TickModulus
  BY ConstantFacts DEF IInv, Types, HubStates, HistStates, Ticks, ImuTimers, Undisturbed
<1>2. a["reinit"] \in Nat
  BY <1>1, LaterType, ConstantFacts DEF HubStates, Ticks, ImuTimers
<1>3. CASE hub.failures < FailureThreshold
  <2>1. ~Serving
    <3>1. StillServes(d, g, reads, samples, tries)
      BY ServingKept
    <3> QED
      BY <1>1, <1>3, <3>1 DEF StillServes
  <2>2. hist.healthy <= Period["event"] - 1
    BY <1>1, <1>3, <2>1 DEF Recovering, Waiting
  <2> HIDE DEF a
  <2> QED
    BY <1>1, <1>2, <2>2 DEF InitializedBy, GivenUpBy, a
<1>4. CASE ~(hub.failures < FailureThreshold)
  <2>1. TimerRuns("reinit") /\ hist.healthy <= GivenUpBy + hub.age["reinit"]
    BY <1>4 DEF Recovering
  <2>2. hub.age["reinit"] + d < TickModulus
    BY <1>1, <2>1 DEF TimerRuns
  <2>3. a["reinit"] = hub.age["reinit"] + d
    BY <1>1, <2>2, LaterType, ConstantFacts DEF ImuTimers
  <2>4. hist.healthy <= GivenUpBy + Period["reinit"] - 1
    BY <1>1, <2>1 DEF TimerRuns, GivenUpBy
  <2>5. hist.healthy + d <= InitializedBy - MaxInitTime
    BY <1>1, <2>4 DEF InitializedBy, GivenUpBy
  <2>6. hist.healthy + d <= GivenUpBy + a["reinit"]
    BY <1>1, <2>1, <2>3 DEF GivenUpBy
  <2> QED
    BY <2>5, <2>6
<1> QED
  BY <1>3, <1>4

LEMMA InitRecovering == Init => Recovering
<1> SUFFICES ASSUME Init PROVE Recovering
  OBVIOUS
<1>1. PICK icm \in BOOLEAN, time \in 0..MaxInitTime :
        /\ hub.age = [t \in Timers |->
                        IF icm /\ t \in {"event", "fifo", "fallback"} THEN 0 ELSE time]
        /\ hub.failures = 0 /\ hist.healthy = 0
  <2>1. PICK bus \in Buses, mag, baro \in IF IcmOnly THEN {FALSE} ELSE BOOLEAN,
             configured \in BOOLEAN, time \in 0..MaxInitTime :
      \E icm \in InitResults([bus |-> bus]) :
        /\ bus = "dead" => ~mag /\ ~baro
        /\ icm => configured
        /\ sensor = [bus |-> bus, configured |-> configured, pulse |-> 0,
                     filled |-> IF bus = "good" THEN 0 ELSE BatchTime + 1]
        /\ hub = [status |->
                    (IF icm THEN {"ICM_READY"} ELSE {"FALLBACK", "IMU_ERROR", "INIT_ERROR"})
                    \cup (IF IcmOnly THEN {}
                          ELSE {IF mag THEN "MAG_READY" ELSE "MAG_ERROR",
                                IF baro THEN "BARO_READY" ELSE "BARO_ERROR"}),
                  age |-> [t \in Timers |->
                             IF icm /\ t \in {"event", "fifo", "fallback"} THEN 0 ELSE time],
                  failures |-> 0, realFilter |-> FALSE, i2cFault |-> FALSE,
                  icm |-> icm, mag |-> mag, baro |-> baro,
                  announced |-> {}, sent |-> {}]
        /\ hist = [healthy |-> 0, quiet |-> Period["event"], silence |-> 0]
    BY Zenon DEF Init
  <2>2. PICK icm \in InitResults([bus |-> bus]) :
        /\ hub.age = [t \in Timers |->
                        IF icm /\ t \in {"event", "fifo", "fallback"} THEN 0 ELSE time]
        /\ hub.failures = 0 /\ hist.healthy = 0
    BY <2>1
  <2>3. icm \in BOOLEAN
    BY DEF InitResults
  <2> QED
    BY <2>2, <2>3
<1>2. hub.age["event"] \in 0..MaxInitTime
  BY <1>1, ConstantFacts DEF ImuTimers
<1>3. TimerRuns("event") /\ Waiting /\ hub.failures < FailureThreshold
  BY <1>1, <1>2, ConstantFacts DEF TimerRuns, Waiting, ImuTimers
<1> QED
  BY <1>3 DEF Recovering

\* One poll.
LEMMA PollRecovering == ASSUME IInv, Recovering, Poll PROVE Recovering'
<1>1. PICK d \in 1..MaxStep, time \in 0..MaxInitTime : PollTakes(d, time)
  BY DEF Poll
<1> DEFINE a == Later(hub, d).age
<1>2. /\ hub \in HubStates /\ Coherent(hub) /\ d \in Nat /\ d <= MaxStep
      /\ time \in Nat /\ time <= MaxInitTime
  BY ConstantFacts DEF IInv, Types
<1>3. PICK event, result, g, reads, samples, tries, ok :
           /\ PollLeaves(d, time, event, result, tries, ok, g)
           /\ PollSummary(d, time, a, g, reads, samples, tries)
           /\ SensorAnswers(d, a, event, result, reads, samples)
           /\ RecoverySummary(time, a, g, reads, samples, tries, ok)
  BY <1>1, <1>2, PollFacts DEF IInv, Types
<1>4. g \in HubStates /\ Coherent(g)
  BY <1>3 DEF PollSummary
<1>18. Leaves(d, time, event, result, tries, ok, g)
  BY <1>2, <1>3, <1>4, LeavesFacts
<1>5. /\ Types' /\ (Ready(hub)' <=> Ready(g))
      /\ hub'.icm = g.icm /\ hub'.failures = g.failures
      /\ \A t \in Timers : g.age[t] + time < TickModulus => hub'.age[t] = g.age[t] + time
      /\ \A t \in Timers : hub'.age[t] = (g.age[t] + time) % TickModulus
      /\ sensor'.bus = sensor.bus
      /\ tries /\ ok => sensor'.configured
      /\ ~tries => sensor'.configured = sensor.configured
      /\ hist'.healthy > 0 => sensor.bus = "good" /\ Undisturbed(d, result)
      /\ hist'.healthy <= hist.healthy + d + time
  BY <1>18 DEF Leaves
<1>6. /\ hist.healthy \in Nat /\ hist'.healthy \in Nat
      /\ \A t \in ImuTimers : /\ hub.age[t] \in Nat /\ a[t] \in Nat
                              /\ g.age[t] \in Ticks /\ hub'.age[t] \in Ticks
  <2>1. Later(hub, d) \in HubStates /\ hub' \in HubStates /\ hist \in HistStates /\ hist' \in HistStates
    BY <1>2, <1>5, LaterType DEF IInv, Types
  <2>2. hist.healthy \in Nat /\ hist'.healthy \in Nat
    BY <2>1, ConstantFacts DEF HistStates
  <2>3. \A t \in ImuTimers : /\ hub.age[t] \in Nat /\ a[t] \in Nat
                             /\ g.age[t] \in Ticks /\ hub'.age[t] \in Ticks
    BY <1>2, <1>4, <2>1, ConstantFacts DEF HubStates, Ticks
  <2> QED
    BY <2>2, <2>3
<1>7. time = 0 => \A t \in ImuTimers : hub'.age[t] = g.age[t]
  BY <1>5, <1>6, ConstantFacts DEF Ticks
<1>8. /\ hub.failures \in Nat /\ hub.failures <= FailureThreshold
      /\ g.failures \in Nat /\ g.failures <= FailureThreshold
      /\ FailureThreshold \in Nat \ {0} /\ MaxStep \in Nat \ {0} /\ MaxInitTime \in Nat
      /\ PromptStep \in Nat \ {0}
      /\ Period["event"] \in Nat \ {0} /\ Period["reinit"] \in Nat \ {0} /\ Period["fifo"] \in Nat \ {0}
      /\ TickModulus \in Nat \ {0}
      /\ Period["event"] + MaxStep <= TickModulus
  BY <1>2, <1>4, ConstantFacts DEF HubStates, ImuTimers
<1>9. {"event", "fifo", "reinit"} \subseteq ImuTimers /\ ImuTimers \subseteq Timers
  BY ConstantFacts DEF ImuTimers
<1>10. PollSummary(d, time, a, g, reads, samples, tries)
       /\ RecoverySummary(time, a, g, reads, samples, tries, ok)
  BY <1>3
<1>11. hist'.healthy > 0 => GivesUpInTime(d, a, g, samples, tries)
  BY <1>3, <1>5, GivingUp
<1>12. hist'.healthy > 0 => StillServes(d, g, reads, samples, tries)
  BY <1>3, <1>5, ServingKept
<1>19. hist'.healthy > 0 /\ Supplied /\ ~samples /\ ~tries /\ hub'.icm = hub.icm
       /\ hub'.age["event"] = hub.age["event"] + d /\ hub'.age["fifo"] = hub.age["fifo"] + d =>
         Supplied'
  <2> SUFFICES ASSUME hist'.healthy > 0, Supplied, ~samples, ~tries, hub'.icm = hub.icm,
                      hub'.age["event"] = hub.age["event"] + d,
                      hub'.age["fifo"] = hub.age["fifo"] + d
               PROVE  Supplied'
    OBVIOUS
  <2>1. Undisturbed(d, result) /\ SensorAnswers(d, Later(hub, d).age, event, result, reads, samples)
    BY <1>3, <1>5
  <2> QED
    BY <1>18, <2>1, SuppliedKept
<1>20. InitializedBy \in Nat /\ GivenUpBy \in Nat
  BY <1>2, <1>8 DEF InitializedBy, GivenUpBy
<1>21. hist'.healthy = 0 \/ hist'.healthy > 0
  BY <1>6
<1> HIDE DEF a
<1>13. CASE samples
  <2>1. /\ reads /\ Ready(g) /\ hub.icm /\ g.age["event"] = 0 /\ g.age["fifo"] = 0
        /\ ~tries /\ time = 0 /\ g.failures = 0 /\ g.icm = hub.icm
        /\ event /\ result = "samples" /\ sensor.configured
    BY <1>3, <1>10, <1>13 DEF PollSummary, RecoverySummary, SensorAnswers
  <2>2. hub'.age["event"] = 0 /\ hub'.age["fifo"] = 0 /\ hub'.failures = 0 /\ Ready(hub)'
    BY <1>5, <1>7, <1>9, <2>1
  <2>3. CASE sensor.bus = "good"
    <3>1. Supplied'
      BY <1>5, <1>18, <2>1, <2>2, <2>3, SuppliedAnew
    <3>2. Serving'
      BY <2>2, <3>1 DEF Serving
    <3> QED
      BY <1>8, <2>2, <3>2 DEF Recovering, TimerRuns
  <2>4. CASE sensor.bus # "good"
    BY <1>5, <1>6, <1>8, <2>2, <2>4 DEF Recovering, TimerRuns, Waiting
  <2> QED
    BY <2>3, <2>4
<1>14. CASE tries /\ ok
  <2>1. /\ ~samples /\ g.icm /\ g.failures = 0
        /\ \A t \in {"event", "fifo"} : g.age[t] = (TickModulus - time) % TickModulus
    BY <1>10, <1>14 DEF RecoverySummary
  <2>2. hub'.age["event"] = 0 /\ hub'.age["fifo"] = 0
    <3>1. (((TickModulus - time) % TickModulus) + time) % TickModulus = 0
      <4>1. time < TickModulus /\ TickModulus \in Nat \ {0}
        BY <1>2, ConstantFacts
      <4>2. CASE time = 0
        BY <4>1, <4>2
      <4>3. CASE time # 0
        <5>1. TickModulus - time \in 0..(TickModulus - 1)
          BY <1>2, <4>1, <4>3
        <5>2. (TickModulus - time) % TickModulus = TickModulus - time
          BY <4>1, <5>1
        <5> QED
          BY <1>2, <4>1, <5>2
      <4> QED
        BY <4>2, <4>3
    <3> QED
      BY <1>5, <1>9, <2>1, <3>1
  <2>3. hist'.healthy <= InitializedBy
    <3>1. CASE hist'.healthy > 0
      BY <1>2, <1>5, <1>6, <1>8, <1>11, <1>14, <2>1, <3>1 DEF GivesUpInTime, InitializedBy, GivenUpBy
    <3> QED
      BY <1>20, <1>21, <3>1
  <2>4. CASE sensor.bus = "good"
    <3>1. Supplied'
      BY <1>5, <1>14, <1>18, <2>1, <2>2, <2>4, SuppliedAnew
    <3>2. Serving'
      BY <1>20, <2>2, <2>3, <3>1 DEF Serving
    <3> QED
      BY <1>5, <1>8, <2>1, <2>2, <3>2 DEF Recovering, TimerRuns
  <2>5. CASE sensor.bus # "good"
    BY <1>5, <1>6, <1>8, <2>1, <2>2, <2>5 DEF Recovering, TimerRuns, Waiting
  <2> QED
    BY <2>4, <2>5
<1>15. CASE tries /\ ~ok
  <2>1. ok \in InitResults(sensor) /\ g.failures = FailureThreshold /\ g.age["reinit"] = 0
    BY <1>10, <1>15 DEF RecoverySummary
  <2>2. hist'.healthy = 0
    <3>1. sensor.bus # "good"
      BY <1>15, <2>1 DEF InitResults
    <3> QED
      BY <1>5, <1>6, <3>1
  <2>3. hub'.age["reinit"] = time
    BY <1>2, <1>5, <1>9, <2>1, ConstantFacts
  <2> QED
    BY <1>2, <1>5, <1>8, <2>1, <2>2, <2>3 DEF Recovering, TimerRuns, GivenUpBy
<1>16. CASE ~samples /\ ~tries /\ g.failures = FailureThreshold
  <2>1. time = 0 /\ g.age["reinit"] = a["reinit"] /\ a["reinit"] < Period["reinit"]
    BY <1>10, <1>16 DEF RecoverySummary
  <2>2. hub'.age["reinit"] = a["reinit"] /\ hub'.failures = FailureThreshold
    BY <1>5, <1>7, <1>9, <1>16, <2>1
  <2>3. hist'.healthy <= GivenUpBy + a["reinit"]
    <3>1. a["reinit"] \in Nat /\ hist'.healthy <= hist.healthy + d
      BY <1>2, <1>5, <1>6, <1>9, <2>1
    <3>2. hist'.healthy > 0 => hist.healthy + d <= GivenUpBy + a["reinit"]
      BY <1>11, <1>16 DEF GivesUpInTime
    <3> QED
      BY <1>2, <1>6, <1>20, <1>21, <3>1, <3>2
  <2> QED
    BY <1>8, <2>1, <2>2, <2>3 DEF Recovering, TimerRuns
<1>17. CASE ~samples /\ ~tries /\ g.failures < FailureThreshold
  <2>1. /\ time = 0 /\ g.age["event"] = a["event"] /\ a["event"] < Period["event"]
        /\ g.icm = hub.icm /\ hub.failures < FailureThreshold
    BY <1>10, <1>17 DEF RecoverySummary
  <2>2. /\ hub'.age["event"] = a["event"] /\ hub'.age["fifo"] = g.age["fifo"]
        /\ hub'.failures < FailureThreshold /\ hist'.healthy <= hist.healthy + d
        /\ a["event"] \in Nat
    BY <1>2, <1>5, <1>6, <1>7, <1>9, <1>17, <2>1
  <2>3. TimerRuns("event") /\ (Waiting \/ Serving)
    BY <2>1 DEF Recovering
  <2>4. (TimerRuns("event"))'
    BY <2>1, <2>2 DEF TimerRuns
  <2>7. CASE hist'.healthy = 0
    <3>1. Waiting'
      BY <1>8, <2>2, <2>7 DEF Waiting
    <3> QED
      BY <2>2, <2>4, <3>1 DEF Recovering
  <2>5. CASE Waiting
    <3>1. a["event"] = hub.age["event"] + d
      <4>1. hub.age["event"] + d < TickModulus
        BY <1>2, <1>6, <1>9, <2>3, ConstantFacts DEF TimerRuns, ImuTimers
      <4> QED
        BY <1>2, <1>9, <4>1, LaterType DEF a
    <3>2. Waiting'
      BY <1>2, <1>6, <1>8, <1>9, <2>1, <2>2, <2>5, <3>1 DEF Waiting
    <3> QED
      BY <2>2, <2>4, <3>2 DEF Recovering
  <2>6. CASE Serving /\ hist'.healthy > 0
    <3>1. /\ ~reads /\ g.icm
          /\ g.age["event"] = hub.age["event"] + d /\ g.age["fifo"] = hub.age["fifo"] + d
          /\ Ready(hub) => Ready(g)
      BY <1>12, <1>17, <2>1, <2>6 DEF StillServes
    <3>2. hub'.icm = hub.icm /\ hub'.age["event"] = hub.age["event"] + d
          /\ hub'.age["fifo"] = hub.age["fifo"] + d
      BY <1>5, <2>1, <2>2, <3>1
    <3>3. Supplied'
      BY <1>17, <1>19, <2>6, <3>2 DEF Serving
    <3>4. ~Ready(hub)' => hist'.healthy <= InitializedBy + hub'.age["fifo"]
      BY <1>2, <1>5, <1>6, <1>8, <1>9, <2>2, <2>6, <3>1 DEF Serving, InitializedBy, GivenUpBy
    <3>5. Serving'
      BY <3>3, <3>4 DEF Serving
    <3> QED
      BY <2>2, <2>4, <3>5 DEF Recovering
  <2> QED
    BY <1>21, <2>3, <2>5, <2>6, <2>7
<1> QED
  BY <1>8, <1>13, <1>14, <1>15, <1>16, <1>17

LEMMA RecoveringAlways == Spec => []Recovering
<1>1. IInv /\ Recovering /\ [Next]_vars => Recovering'
  <2> SUFFICES ASSUME IInv, Recovering, [Next]_vars PROVE Recovering'
    OBVIOUS
  <2>1. CASE Poll
    BY <2>1, PollRecovering
  <2>2. CASE BusChanges
    <3>1. hub' = hub /\ hist'.healthy = 0
      BY <2>2 DEF BusChanges, IInv, Types, HistStates
    <3>2. /\ hub.age["event"] \in Nat /\ hub.age["reinit"] \in Nat /\ hub.failures \in Nat
          /\ Period["event"] \in Nat \ {0} /\ PromptStep \in Nat \ {0}
      BY ConstantFacts DEF IInv, Types, HubStates, Ticks, ImuTimers
    <3>3. Waiting' /\ (TimerRuns("event") => (TimerRuns("event"))')
          /\ (TimerRuns("reinit") => (TimerRuns("reinit"))')
      BY <3>1, <3>2 DEF Waiting, TimerRuns
    <3>4. 0 <= GivenUpBy + hub.age["reinit"]
      BY <3>2 DEF GivenUpBy
    <3> QED
      BY <3>1, <3>3, <3>4 DEF Recovering
  <2>3. CASE UNCHANGED vars
    BY <2>3 DEF vars, Recovering, TimerRuns, Waiting, Serving, Supplied, Ready
  <2> QED
    BY <2>1, <2>2, <2>3 DEF Next
<1> QED
  BY <1>1, InitRecovering, Invariant, PTL DEF Spec
-----------------------------------------------------------------------------
(* The theorems of the hub.                                                *)

\* Of the states of the poll's five writers of the status none leaves bits
\* that contradict each other or the source the next poll will use.
THEOREM StatusCorrect == Spec => []StatusCoherent
<1>1. IInv => StatusCoherent
  BY DEF IInv, Coherent, AuxCoherent, StatusCoherent
<1> QED
  BY <1>1, Invariant, PTL

\* No poll publishes real and Mock samples together or against its ready bit.
THEOREM FramesCorrect == Spec => []FramesMatchStatus
<1>1. IInv => FramesMatchStatus
  BY DEF IInv
<1> QED
  BY <1>1, Invariant, PTL

\* Bit 7 means an interrupt within the timeout in true time, although the
\* code can only compare ages in the wrapping tick.
THEOREM Int1Correct == Spec => []Int1BitIsFresh
<1>1. ASSUME IInv PROVE Int1BitIsFresh
  <2>1. hist.quiet \in Nat /\ hub.age["event"] \in Nat /\ Period["event"] \in Nat
    BY <1>1, ConstantFacts DEF IInv, Types, HistStates, HubStates, Ticks, ImuTimers
  <2> QED
    BY <1>1, <2>1 DEF IInv, Int1Times, Int1BitIsFresh
<1> QED
  BY <1>1, Invariant, PTL

\* The host gets IMU data, real or Mock, within the event timeout and one
\* pass of the loop, whatever the bus does.
THEOREM NeverSilent == Spec => []ImuNeverSilent
<1>1. ASSUME IInv PROVE ImuNeverSilent
  <2>1. /\ hist.silence \in Nat /\ hub.age["event"] \in Nat /\ hub.age["fallback"] \in Nat
        /\ Period["event"] \in Nat /\ Period["fallback"] \in Nat
        /\ Period["fallback"] <= Period["event"] /\ MaxInitTime \in Nat
    BY <1>1, ConstantFacts, SilenceCapFact
       DEF IInv, Types, HistStates, HubStates, Ticks, ImuTimers
  <2>2. hist.silence < Period["event"] + MaxInitTime
    BY <1>1, <2>1 DEF IInv, ReadyTimes, FallbackTimes
  <2> QED
    BY <2>1, <2>2, SilenceCapFact DEF ImuNeverSilent
<1> QED
  BY <1>1, Invariant, PTL

\* A sensor that stays healthy is the source again within an event timeout, a
\* re-initialisation, a FIFO period and a pulse of INT1, whatever state of
\* timers, counter, driver and FIFO the fault left, whenever the pulses come
\* and wherever the tick wraps.  The bound is RecoveryDelay, and the run of
\* SensorHubApp checks it where it is tight.
THEOREM RecoveryCorrect ==
  ASSUME RecoveryTime >= RecoveryDelay
  PROVE  Spec => []RecoveryBound
<1>1. ASSUME IInv, Recovering PROVE RecoveryBound
  <2> SUFFICES ASSUME hist.healthy >= RecoveryTime, ~Ready(hub) PROVE FALSE
    BY DEF RecoveryBound, Ready
  <2>1. /\ hist.healthy \in Nat /\ hub.age["fifo"] \in Nat /\ hub.age["reinit"] \in Nat
        /\ RecoveryTime \in Nat /\ PromptStep \in Nat \ {0} /\ MaxInitTime \in Nat
        /\ Period["event"] \in Nat \ {0} /\ Period["reinit"] \in Nat \ {0}
        /\ Period["fifo"] \in Nat \ {0} /\ PulseTime \in Nat \ {0} /\ sensor.pulse \in Nat
    BY <1>1, ConstantFacts DEF IInv, Types, HistStates, HubStates, SensorStates, Ticks, ImuTimers
  <2>2. hist.healthy >= RecoveryDelay /\ hist.healthy > 0
    <3>1. RecoveryDelay \in Nat /\ RecoveryDelay > 0
      <4>1. GivenUpBy \in Nat
        BY <2>1 DEF GivenUpBy
      <4>2. InitializedBy \in Nat
        BY <2>1, <4>1 DEF InitializedBy
      <4> QED
        BY <2>1, <4>2 DEF RecoveryDelay
    <3> QED
      BY <2>1, <3>1
  <2>3. CASE hub.failures < FailureThreshold
    BY <1>1, <2>1, <2>2, <2>3
       DEF Recovering, Waiting, Serving, Supplied, RecoveryDelay, InitializedBy, GivenUpBy
  <2>4. CASE ~(hub.failures < FailureThreshold)
    <3>1. hub.age["reinit"] < Period["reinit"] /\ hist.healthy <= GivenUpBy + hub.age["reinit"]
      BY <1>1, <2>1, <2>2, <2>4 DEF Recovering, TimerRuns
    <3> QED
      BY <2>1, <2>2, <3>1 DEF RecoveryDelay, InitializedBy, GivenUpBy
  <2> QED
    BY <2>3, <2>4
<1> QED
  BY <1>1, Invariant, RecoveringAlways, PTL

\* A poll of a loop that keeps up never gives up a sensor that has been healthy
\* for the event timeout and answers this read too: such a sensor filled its
\* FIFO no longer than the timers of FIFO and event run, so that INT1 pulses
\* and the read is due before the FIFO holds more than a batch and before the
\* events time out.
THEOREM HealthyCorrect == Spec => HealthyStaysReady
<1> DEFINE Stays == hist.healthy >= Period["event"] /\ "ICM_READY" \in hub.status
                      /\ sensor.configured /\ hist'.healthy > 0 => "ICM_READY" \in hub'.status
<1>1. ASSUME IInv, [Next]_vars PROVE [Stays]_vars
  <2> SUFFICES ASSUME Poll \/ BusChanges, hist.healthy >= Period["event"], Ready(hub),
                      sensor.configured, hist'.healthy > 0
               PROVE  Ready(hub)'
    BY <1>1 DEF Ready, Next
  <2>1. CASE BusChanges
    BY <2>1 DEF BusChanges, Ready
  <2>2. CASE Poll
    <3>1. PICK d \in 1..MaxStep, time \in 0..MaxInitTime : PollTakes(d, time)
      BY <2>2 DEF Poll
    <3>2. /\ hub \in HubStates /\ sensor \in SensorStates /\ Coherent(hub)
          /\ d \in Nat /\ time \in Nat
          /\ hist.healthy \in Nat /\ hub.age["event"] \in Nat /\ Period["event"] \in Nat
      BY <1>1, ConstantFacts DEF IInv, Types, HistStates, HubStates, Ticks, ImuTimers
    <3> DEFINE a == Later(hub, d).age
    <3>3. PICK event, result, g, reads, samples, tries, ok :
               /\ PollLeaves(d, time, event, result, tries, ok, g)
               /\ PollSummary(d, time, a, g, reads, samples, tries)
               /\ SensorAnswers(d, a, event, result, reads, samples)
      BY <3>1, <3>2, PollFacts
    <3>4. Leaves(d, time, event, result, tries, ok, g)
      BY <1>1, <3>2, <3>3, LeavesFacts DEF PollSummary
    <3>5. Undisturbed(d, result) /\ (Ready(hub)' <=> Ready(g))
      BY <3>4 DEF Leaves
    <3>6. Supplied
      BY <1>1, <3>2 DEF IInv, ReadyTimes
    <3>7. a["event"] = hub.age["event"] + d /\ NotYetRead(d, event, result, reads, samples)
      BY <1>1, <3>3, <3>5, <3>6, SuppliedPoll
    <3> HIDE DEF a
    <3>8. samples => Ready(g)
      BY <3>3 DEF PollSummary
    <3>9. ~samples => Ready(g)
      <4>1. ~samples => ~reads /\ a["event"] < Period["event"]
        BY <3>6, <3>7 DEF NotYetRead, Supplied
      <4>2. a["event"] < Period["event"] => ~(a["event"] >= Period["event"])
        BY <3>2, <3>7
      <4> QED
        BY <3>3, <4>1, <4>2 DEF PollSummary
    <3> QED
      BY <3>5, <3>8, <3>9
  <2> QED
    BY <2>1, <2>2
<1>2. [][Stays]_vars <=> HealthyStaysReady
  BY DEF HealthyStaysReady
<1> QED
  BY <1>1, <1>2, Invariant, PTL DEF Spec
-----------------------------------------------------------------------------
(* The gate.  A Mock heading is confirmed by the last heartbeat that was   *)
(* not lost; while it says ready and the hub is not, the hub has fallen    *)
(* back since, or has sent heartbeats that were lost.                      *)

IsBeat(f) == f.type = "heartbeat"
SaysReady(f) == IsBeat(f) /\ "ICM_READY" \in f.flags

Frames == [type : {"heartbeat"}, flags : SUBSET StatusBits]
          \cup [type : {"imu"}, source : {"real", "mock"}] \cup [type : {"mag"}]

\* The last heartbeat of the first k frames of s is the i-th and says ready.
BeatAt(s, k, i) ==
  i \in 1..k /\ SaysReady(s[i]) /\ \A j \in 1..k : j > i => ~IsBeat(s[j])

LastSaysReady(s) == \E i \in 1..Len(s) : BeatAt(s, Len(s), i)

\* t is p and behind it s, of which only the first may be a heartbeat.
Appended(n, m, p, s, t) ==
  /\ \A i \in 1..n : t[i] = p[i]
  /\ \A i \in 1..m : t[n + i] = s[i]
  /\ \A i \in 1..m : IsBeat(s[i]) => i = 1

\* The last heartbeat not lost, on its way or applied, says ready.
Confirmed ==
  \/ LastSaysReady(link)
  \/ /\ \A i \in 1..Len(link) : ~IsBeat(link[i])
     /\ mcu.heartbeatSeen /\ "ICM_READY" \in mcu.flags

GateInv ==
  /\ link \in Seq(Frames) /\ unheard \in 0..FallbackCap
  /\ mcu \in [heartbeatSeen : BOOLEAN, flags : SUBSET StatusBits,
              imu : {"none", "real", "mock"}, magSeen : BOOLEAN]
  /\ hub.age["heartbeat"] < Period["heartbeat"] + MaxInitTime
  /\ Ready(hub) => unheard = 0
  /\ Confirmed => unheard <= hub.age["heartbeat"]

LEMMA FramesFact ==
  ASSUME NEW h \in HubStates
  PROVE  /\ FramesOf(h) \in Seq(Frames)
         /\ \A i \in 1..Len(FramesOf(h)) :
              IsBeat(FramesOf(h)[i]) => i = 1 /\ "heartbeat" \in h.sent
         /\ "heartbeat" \in h.sent =>
              /\ Len(FramesOf(h)) > 0 /\ IsBeat(FramesOf(h)[1])
              /\ SaysReady(FramesOf(h)[1]) <=> "ICM_READY" \in h.announced
<1> DEFINE beat == [type |-> "heartbeat", flags |-> h.announced \cap (Required \cup Rejected)]
           real == [type |-> "imu", source |-> "real"]
           mock == [type |-> "imu", source |-> "mock"]
           mag == [type |-> "mag"]
           s1 == IF "heartbeat" \in h.sent THEN <<beat>> ELSE <<>>
           s2 == IF "real" \in h.sent THEN <<real>> ELSE <<>>
           s3 == IF "mock" \in h.sent THEN <<mock>> ELSE <<>>
           s4 == IF "mag" \in h.sent THEN <<mag>> ELSE <<>>
<1>1. /\ beat \in Frames /\ real \in Frames /\ mock \in Frames /\ mag \in Frames
      /\ IsBeat(beat) /\ ~IsBeat(real) /\ ~IsBeat(mock) /\ ~IsBeat(mag)
      /\ SaysReady(beat) <=> "ICM_READY" \in h.announced
  BY DEF Frames, IsBeat, SaysReady, HubStates, Required
<1> HIDE DEF beat, real, mock, mag
<1>2. /\ s1 \in Seq(Frames) /\ s2 \in Seq(Frames) /\ s3 \in Seq(Frames) /\ s4 \in Seq(Frames)
      /\ \A i \in 1..Len(s2) : ~IsBeat(s2[i])
      /\ \A i \in 1..Len(s3) : ~IsBeat(s3[i])
      /\ \A i \in 1..Len(s4) : ~IsBeat(s4[i])
  BY <1>1
<1>3. IF "heartbeat" \in h.sent THEN Len(s1) = 1 /\ s1[1] = beat ELSE Len(s1) = 0
  OBVIOUS
<1>4. FramesOf(h) = s1 \o s2 \o s3 \o s4
  BY DEF FramesOf, beat, real, mock, mag
<1> HIDE DEF s1, s2, s3, s4
<1>5. /\ s1 \o s2 \in Seq(Frames) /\ Len(s1 \o s2) = Len(s1) + Len(s2)
      /\ \A i \in 1..Len(s1 \o s2) : i <= Len(s1) => (s1 \o s2)[i] = s1[i]
      /\ \A i \in 1..Len(s1 \o s2) : i > Len(s1) => ~IsBeat((s1 \o s2)[i])
  BY <1>2
<1> DEFINE t2 == s1 \o s2
<1> HIDE DEF t2
<1>6. /\ t2 \o s3 \in Seq(Frames) /\ Len(t2 \o s3) >= Len(s1)
      /\ \A i \in 1..Len(t2 \o s3) : i <= Len(s1) => (t2 \o s3)[i] = s1[i]
      /\ \A i \in 1..Len(t2 \o s3) : i > Len(s1) => ~IsBeat((t2 \o s3)[i])
  <2>1. /\ t2 \in Seq(Frames) /\ Len(t2) = Len(s1) + Len(s2)
        /\ \A i \in 1..Len(t2) : i <= Len(s1) => t2[i] = s1[i]
        /\ \A i \in 1..Len(t2) : i > Len(s1) => ~IsBeat(t2[i])
    BY <1>5 DEF t2
  <2> QED
    BY <1>2, <2>1
<1> DEFINE t3 == t2 \o s3
<1> HIDE DEF t3
<1>7. /\ t3 \o s4 \in Seq(Frames) /\ Len(t3 \o s4) >= Len(s1)
      /\ \A i \in 1..Len(t3 \o s4) : i <= Len(s1) => (t3 \o s4)[i] = s1[i]
      /\ \A i \in 1..Len(t3 \o s4) : i > Len(s1) => ~IsBeat((t3 \o s4)[i])
  <2>1. /\ t3 \in Seq(Frames) /\ Len(t3) >= Len(s1)
        /\ \A i \in 1..Len(t3) : i <= Len(s1) => t3[i] = s1[i]
        /\ \A i \in 1..Len(t3) : i > Len(s1) => ~IsBeat(t3[i])
    BY <1>6 DEF t3
  <2> QED
    BY <1>2, <2>1
<1>8. FramesOf(h) = t3 \o s4
  BY <1>4 DEF t3, t2
<1> DEFINE s == t3 \o s4
<1> HIDE DEF s, t3
<1>9. /\ s \in Seq(Frames) /\ Len(s) >= Len(s1) /\ Len(s1) \in Nat
      /\ \A i \in 1..Len(s) : i <= Len(s1) => s[i] = s1[i]
      /\ \A i \in 1..Len(s) : i > Len(s1) => ~IsBeat(s[i])
  BY <1>2, <1>7 DEF s
<1>10. CASE "heartbeat" \in h.sent
  <2>1. Len(s1) = 1 /\ s1[1] = beat /\ Len(s) >= 1 /\ Len(s) \in Nat
    <3>1. Len(s1) = 1 /\ s1[1] = beat
      BY <1>3, <1>10, Zenon
    <3>2. Len(s) \in Nat
      BY <1>9
    <3> QED
      BY <1>9, <3>1, <3>2
  <2>2. s[1] = beat
    BY <1>9, <2>1
  <2>3. \A i \in 1..Len(s) : IsBeat(s[i]) => i = 1
    BY <1>9, <2>1
  <2> QED
    BY <1>1, <1>8, <1>9, <1>10, <2>1, <2>2, <2>3 DEF s
<1>11. CASE "heartbeat" \notin h.sent
  <2>1. Len(s1) = 0
    BY <1>3, <1>11
  <2>2. \A i \in 1..Len(s) : ~IsBeat(s[i])
    BY <1>9, <2>1
  <2> QED
    BY <1>8, <1>9, <1>11, <2>2 DEF s
<1> QED
  BY <1>10, <1>11

LEMMA GateSteps == IInv /\ [GateNext]_gateVars => IInv'
<1>1. [GateNext]_gateVars => [Next]_vars
  BY Zenon DEF GateNext, HubPoll, BusFault, ApplyFrame, LoseFrame, gateVars, Next, Poll
<1> QED
  BY <1>1, StepIInv

LEMMA GateBase == GateSpec => []IInv
<1>1. GateInit => IInv
  BY InitIInv DEF GateInit
<1> QED
  BY <1>1, GateSteps, PTL DEF GateSpec

LEMMA CapFact == FallbackCap \in Nat \ {0} /\ Period["heartbeat"] \in Nat \ {0}
BY ConstantFacts DEF FallbackCap, ImuTimers

LEMMA GateInitInv == GateInit => GateInv
<1> SUFFICES ASSUME GateInit PROVE GateInv
  OBVIOUS
<1>1. IInv /\ hub.age["heartbeat"] <= MaxInitTime
  BY InitIInv DEF GateInit
<1>2. hub.age["heartbeat"] \in Nat
  BY <1>1, ConstantFacts DEF IInv, Types, HubStates, Ticks, ImuTimers
<1>3. /\ link = <<>> /\ unheard = 0
      /\ mcu = [heartbeatSeen |-> FALSE, flags |-> {}, imu |-> "none", magSeen |-> FALSE]
  BY DEF GateInit
<1>4. link \in Seq(Frames) /\ unheard \in 0..FallbackCap
  BY <1>3, CapFact
<1>5. mcu \in [heartbeatSeen : BOOLEAN, flags : SUBSET StatusBits,
               imu : {"none", "real", "mock"}, magSeen : BOOLEAN]
  BY <1>3
<1>6. hub.age["heartbeat"] < Period["heartbeat"] + MaxInitTime
  BY <1>1, <1>2, CapFact, ConstantFacts
<1> QED
  BY <1>2, <1>3, <1>4, <1>5, <1>6 DEF GateInv

\* Behind s, in which only the first frame may be a heartbeat, what the last
\* heartbeat says is up to that one, or unchanged.
LEMMA LastBeatAppended ==
  ASSUME NEW n \in Nat, NEW m \in Nat, NEW p, NEW s, NEW t,
         Appended(n, m, p, s, t),
         NEW i, BeatAt(t, n + m, i)
  PROVE  IF m > 0 /\ IsBeat(s[1]) THEN SaysReady(s[1]) ELSE BeatAt(p, n, i)
<1>0. /\ i \in 1..(n + m) /\ SaysReady(t[i])
      /\ \A j \in 1..(n + m) : j > i => ~IsBeat(t[j])
  BY DEF BeatAt
<1>1. i > n => i = n + 1 /\ SaysReady(s[1]) /\ m > 0 /\ IsBeat(s[1])
  <2> SUFFICES ASSUME i > n PROVE i = n + 1 /\ SaysReady(s[1]) /\ m > 0 /\ IsBeat(s[1])
    OBVIOUS
  <2>1. i - n \in 1..m /\ n + (i - n) = i
    BY <1>0
  <2>2. SaysReady(s[i - n]) /\ IsBeat(s[i - n])
    BY <1>0, <2>1 DEF SaysReady, Appended
  <2>3. i - n = 1
    BY <2>1, <2>2 DEF Appended
  <2> QED
    BY <2>1, <2>2, <2>3
<1>2. m > 0 /\ IsBeat(s[1]) => i > n
  <2> SUFFICES ASSUME m > 0, IsBeat(s[1]) PROVE i > n
    OBVIOUS
  <2>1. 1 \in 1..m /\ n + 1 \in 1..(n + m)
    OBVIOUS
  <2>2. IsBeat(t[n + 1])
    BY <2>1 DEF Appended
  <2>3. ~(n + 1 > i)
    BY <1>0, <2>1, <2>2
  <2> QED
    BY <1>0, <2>3
<1>3. i <= n => BeatAt(p, n, i)
  <2>1. \A j \in 1..n : j \in 1..(n + m)
    OBVIOUS
  <2>2. \A j \in 1..n : j > i => ~IsBeat(p[j])
    BY <1>0, <2>1 DEF Appended
  <2> QED
    BY <1>0, <2>2 DEF BeatAt, Appended
<1> QED
  BY <1>0, <1>1, <1>2, <1>3

\* What a poll sends changes what the last heartbeat says only by a heartbeat.
LEMMA ConfirmedAfterPoll ==
  ASSUME link \in Seq(Frames), NEW h \in HubStates, link' = link \o FramesOf(h), mcu' = mcu,
         Confirmed'
  PROVE  IF "heartbeat" \in h.sent THEN "ICM_READY" \in h.announced ELSE Confirmed
<1> DEFINE s == FramesOf(h)
           n == Len(link)
           m == Len(s)
           t == link'
<1>1. /\ n \in Nat /\ m \in Nat
      /\ \A i \in 1..m : IsBeat(s[i]) => i = 1 /\ "heartbeat" \in h.sent
      /\ "heartbeat" \in h.sent =>
           m > 0 /\ IsBeat(s[1]) /\ (SaysReady(s[1]) <=> "ICM_READY" \in h.announced)
  BY FramesFact
<1>2. s \in Seq(Frames) /\ t = link \o s
  BY FramesFact
<1> HIDE DEF s
<1>3. /\ Len(t) = n + m
      /\ \A i \in 1..n : t[i] = link[i]
      /\ \A i \in 1..m : t[n + i] = s[i]
  BY <1>1, <1>2
<1>4. CASE LastSaysReady(t)
  <2>1. PICK i : BeatAt(t, n + m, i)
    BY <1>3, <1>4 DEF LastSaysReady
  <2> HIDE DEF n, m, t
  <2>2. IF m > 0 /\ IsBeat(s[1]) THEN SaysReady(s[1]) ELSE BeatAt(link, n, i)
    <3>1. Appended(n, m, link, s, t)
      BY <1>1, <1>3 DEF Appended
    <3> QED
      BY <1>1, <2>1, <3>1, LastBeatAppended, Zenon
  <2>3. CASE "heartbeat" \in h.sent
    BY <1>1, <2>2, <2>3
  <2>4. CASE "heartbeat" \notin h.sent
    <3>1. ~(m > 0 /\ IsBeat(s[1]))
      BY <1>1, <2>4
    <3> QED
      <4>1. BeatAt(link, n, i) /\ i \in 1..n
        BY <2>2, <3>1 DEF BeatAt
      <4> QED
        BY <2>4, <4>1 DEF Confirmed, LastSaysReady, n
  <2> QED
    BY <2>3, <2>4
<1>5. CASE ~LastSaysReady(t)
  <2>1. /\ \A i \in 1..(n + m) : ~IsBeat(t[i])
        /\ mcu.heartbeatSeen /\ "ICM_READY" \in mcu.flags
    BY <1>3, <1>5 DEF Confirmed
  <2> HIDE DEF n, m, t
  <2>2. \A i \in 1..n : ~IsBeat(link[i])
    BY <1>1, <1>3, <2>1
  <2>3. "heartbeat" \notin h.sent
    <3> SUFFICES ASSUME m > 0, IsBeat(s[1]) PROVE FALSE
      BY <1>1
    <3>1. 1 \in 1..m /\ n + 1 \in 1..(n + m)
      BY <1>1
    <3> QED
      BY <1>3, <2>1, <3>1
  <2> QED
    BY <2>1, <2>2, <2>3 DEF Confirmed, n
<1> QED
  BY <1>4, <1>5

LEMMA HubPollGateInv == ASSUME IInv, GateInv, HubPoll PROVE GateInv'
<1>1. PICK d \in 1..MaxStep, time \in 0..MaxInitTime, kept \in SUBSET hub'.sent :
        /\ PollTakes(d, time)
        /\ link' = link \o FramesOf([hub' EXCEPT !.sent = kept])
        /\ unheard' =
             CASE "ICM_READY" \in hub.status \cup hub'.status -> 0
               [] "heartbeat" \in hub'.sent \ kept /\ "ICM_READY" \notin hub.status \cup hub'.status -> time
               [] OTHER -> Capped(unheard + d + time, FallbackCap)
        /\ mcu' = mcu
  BY DEF HubPoll
<1>2. /\ hub \in HubStates /\ sensor \in SensorStates /\ Coherent(hub)
      /\ d \in Nat /\ time \in Nat /\ time <= MaxInitTime
  BY ConstantFacts DEF IInv, Types
<1> DEFINE a == Later(hub, d).age
           h == [hub' EXCEPT !.sent = kept]
<1>3. PICK event, result, g, reads, samples, tries, ok :
           /\ PollLeaves(d, time, event, result, tries, ok, g)
           /\ PollSummary(d, time, a, g, reads, samples, tries)
           /\ BeatSummary(a, g)
  BY <1>1, <1>2, PollFacts
<1>4. /\ hub' \in HubStates /\ "heartbeat" \in Timers
      /\ hub'.sent = g.sent /\ hub'.announced = g.announced
      /\ g.age["heartbeat"] + time < TickModulus =>
           hub'.age["heartbeat"] = g.age["heartbeat"] + time
  <2>1. g \in HubStates /\ hub' = Later(g, time)
    BY <1>3 DEF PollSummary, PollLeaves
  <2>2. "heartbeat" \in Timers
    BY ConstantFacts DEF ImuTimers
  <2>3. /\ Later(g, time) \in HubStates
        /\ Later(g, time) = [g EXCEPT !.age = [t \in Timers |-> (g.age[t] + time) % TickModulus]]
        /\ g.age["heartbeat"] + time < TickModulus =>
             Later(g, time).age["heartbeat"] = g.age["heartbeat"] + time
    BY <1>2, <2>1, <2>2, LaterType
  <2> QED
    BY <2>1, <2>2, <2>3 DEF HubStates
<1>12. h \in HubStates /\ h.sent = kept /\ h.announced = hub'.announced /\ link' = link \o FramesOf(h)
  BY <1>1, <1>4 DEF HubStates
<1> HIDE DEF h
<1>5. /\ MaxStep \in Nat /\ MaxInitTime \in Nat /\ TickModulus \in Nat
      /\ Period["heartbeat"] \in Nat \ {0} /\ FallbackCap \in Nat
      /\ FallbackCap = Period["heartbeat"] + MaxInitTime
      /\ Period["heartbeat"] + MaxStep + MaxInitTime <= TickModulus
      /\ unheard \in Nat /\ hub.age["heartbeat"] \in Nat
      /\ hub.age["heartbeat"] < Period["heartbeat"] + MaxInitTime
      /\ d <= MaxStep
  <2>1. unheard \in 0..FallbackCap /\ FallbackCap \in Nat /\ d <= MaxStep
    BY CapFact DEF GateInv
  <2>2. hub.age["heartbeat"] \in Nat
    BY <1>2, <1>4, ConstantFacts DEF HubStates, Ticks
  <2>3. hub.age["heartbeat"] < Period["heartbeat"] + MaxInitTime
    BY DEF GateInv
  <2>4. "heartbeat" \in ImuTimers
    BY DEF ImuTimers
  <2> QED
    BY <2>1, <2>2, <2>3, <2>4, ConstantFacts DEF FallbackCap
<1>6. a["heartbeat"] = hub.age["heartbeat"] + d
  <2>1. hub.age["heartbeat"] + d < TickModulus
    BY <1>2, <1>5
  <2> QED
    BY <1>2, <1>4, <2>1, LaterType
<1> HIDE DEF a
<1>7. IF a["heartbeat"] >= Period["heartbeat"]
      THEN hub'.age["heartbeat"] = time
      ELSE hub'.age["heartbeat"] = hub.age["heartbeat"] + d + time
  <2>1. CASE a["heartbeat"] >= Period["heartbeat"]
    <3>1. g.age["heartbeat"] = 0
      BY <1>3, <2>1 DEF BeatSummary
    <3> QED
      BY <1>2, <1>4, <1>5, <2>1, <3>1
  <2>2. CASE ~(a["heartbeat"] >= Period["heartbeat"])
    <3>1. g.age["heartbeat"] = hub.age["heartbeat"] + d
      BY <1>3, <1>6, <2>2 DEF BeatSummary
    <3> QED
      BY <1>2, <1>4, <1>5, <1>6, <2>2, <3>1
  <2> QED
    BY <2>1, <2>2
<1>8. hub'.age["heartbeat"] < Period["heartbeat"] + MaxInitTime /\ hub'.age["heartbeat"] \in Nat
  BY <1>2, <1>5, <1>6, <1>7
<1>9. /\ unheard' \in 0..FallbackCap
      /\ Ready(hub) \/ Ready(hub)' => unheard' = 0
      /\ unheard' <= unheard + d + time
      /\ "heartbeat" \in hub'.sent \ kept => unheard' <= time
  <2> DEFINE n == unheard + d + time
  <2>1. n \in Nat
    BY <1>2, <1>5
  <2> HIDE DEF n
  <2>2. Capped(n, FallbackCap) \in 0..FallbackCap /\ Capped(n, FallbackCap) <= n
    BY <1>5, <2>1, CappedFact
  <2>3. unheard' = CASE Ready(hub) \/ Ready(hub)' -> 0
                     [] "heartbeat" \in hub'.sent \ kept /\ ~(Ready(hub) \/ Ready(hub)') -> time
                     [] OTHER -> Capped(n, FallbackCap)
    BY <1>1 DEF Ready, n
  <2>4. CASE Ready(hub) \/ Ready(hub)'
    BY <1>2, <1>5, <2>1, <2>3, <2>4 DEF n
  <2>5. CASE ~(Ready(hub) \/ Ready(hub)') /\ "heartbeat" \in hub'.sent \ kept
    BY <1>2, <1>5, <2>1, <2>3, <2>5 DEF n
  <2>6. CASE ~(Ready(hub) \/ Ready(hub)') /\ "heartbeat" \notin hub'.sent \ kept
    BY <1>2, <1>5, <2>1, <2>2, <2>3, <2>6 DEF n
  <2> QED
    BY <2>4, <2>5, <2>6
<1>10. link' \in Seq(Frames)
  <2>1. FramesOf(h) \in Seq(Frames) /\ link \in Seq(Frames)
    BY <1>12, FramesFact DEF GateInv
  <2> QED
    BY <1>12, <2>1
<1>11. Confirmed' => unheard' <= hub'.age["heartbeat"]
  <2> SUFFICES ASSUME Confirmed' PROVE unheard' <= hub'.age["heartbeat"]
    OBVIOUS
  <2>1. IF "heartbeat" \in kept THEN "ICM_READY" \in hub'.announced ELSE Confirmed
    <3>1. IF "heartbeat" \in h.sent THEN "ICM_READY" \in h.announced ELSE Confirmed
      BY <1>1, <1>12, ConfirmedAfterPoll DEF GateInv
    <3> QED
      BY <1>12, <3>1
  <2>2. CASE a["heartbeat"] >= Period["heartbeat"] /\ "heartbeat" \in kept
    <3>1. Ready(hub)
      BY <1>3, <1>4, <2>1, <2>2 DEF BeatSummary
    <3> QED
      BY <1>8, <1>9, <3>1
  <2>3. CASE a["heartbeat"] >= Period["heartbeat"] /\ "heartbeat" \notin kept
    <3>1. "heartbeat" \in hub'.sent
      BY <1>3, <1>4, <2>3 DEF BeatSummary
    <3> QED
      BY <1>7, <1>9, <2>3, <3>1
  <2>4. CASE ~(a["heartbeat"] >= Period["heartbeat"])
    <3>1. Confirmed
      <4>1. "heartbeat" \notin hub'.sent
        BY <1>3, <1>4, <2>4 DEF BeatSummary
      <4> QED
        BY <1>1, <2>1, <4>1
    <3>2. unheard <= hub.age["heartbeat"]
      BY <3>1 DEF GateInv
    <3> QED
      BY <1>2, <1>5, <1>7, <1>9, <2>4, <3>2
  <2> QED
    BY <2>2, <2>3, <2>4
<1> QED
  BY <1>1, <1>8, <1>9, <1>10, <1>11 DEF GateInv

\* What the last heartbeat of the rest of the link says it says of the link
\* too, when the first one is applied, or lost and says nothing new.
LEMMA ConfirmedBefore ==
  ASSUME link \in Seq(Frames), link # <<>>, link' = Tail(link),
         IF IsBeat(Head(link))
         THEN \/ mcu'.heartbeatSeen = TRUE /\ mcu'.flags = Head(link).flags
              \/ "ICM_READY" \in Head(link).flags
         ELSE mcu'.heartbeatSeen = mcu.heartbeatSeen /\ mcu'.flags = mcu.flags
  PROVE  Confirmed' => Confirmed
<1> DEFINE f == Head(link)
           n == Len(link)
           t == link'
<1>2. f = link[1] /\ n \in Nat \ {0}
  OBVIOUS
<1>3. Len(t) = n - 1 /\ \A i \in 1..(n - 1) : t[i] = link[i + 1]
  OBVIOUS
<1>8. IF IsBeat(f) THEN (mcu'.heartbeatSeen = TRUE /\ mcu'.flags = f.flags) \/ "ICM_READY" \in f.flags
      ELSE mcu'.heartbeatSeen = mcu.heartbeatSeen /\ mcu'.flags = mcu.flags
  OBVIOUS
<1> HIDE DEF f, n, t
<1>9. Confirmed' => Confirmed
  <2>1. \A i \in 1..(n - 1) : i + 1 \in 1..n
    BY <1>2
  <2>2. \A j \in 1..n : j > 1 => j - 1 \in 1..(n - 1) /\ t[j - 1] = link[j]
    BY <1>2, <1>3
  <2>3. CASE LastSaysReady(t)
    <3>1. PICK i \in 1..(n - 1) : BeatAt(t, n - 1, i)
      BY <1>3, <2>3 DEF LastSaysReady
    <3>2. SaysReady(link[i + 1])
      BY <1>3, <3>1 DEF BeatAt
    <3>3. \A j \in 1..n : j > i + 1 => ~IsBeat(link[j])
      <4> SUFFICES ASSUME NEW j \in 1..n, j > i + 1 PROVE ~IsBeat(link[j])
        OBVIOUS
      <4>1. j - 1 \in 1..(n - 1) /\ j - 1 > i /\ t[j - 1] = link[j]
        BY <1>2, <2>2
      <4> QED
        BY <3>1, <4>1 DEF BeatAt
    <3>4. BeatAt(link, n, i + 1) /\ i + 1 \in 1..n
      BY <2>1, <3>2, <3>3 DEF BeatAt
    <3> QED
      BY <3>4, Zenon DEF Confirmed, LastSaysReady, n
  <2>4. CASE ~LastSaysReady(t) /\ Confirmed'
    <3>1. /\ \A i \in 1..(n - 1) : ~IsBeat(t[i])
          /\ mcu'.heartbeatSeen /\ "ICM_READY" \in mcu'.flags
      BY <1>3, <2>4 DEF Confirmed, t
    <3>2. \A j \in 1..n : j > 1 => ~IsBeat(link[j])
      BY <2>2, <3>1
    <3>3. CASE IsBeat(f)
      <4>1. SaysReady(link[1]) /\ 1 \in 1..n
        BY <1>2, <1>8, <3>1, <3>3 DEF SaysReady
      <4>2. BeatAt(link, n, 1)
        BY <3>2, <4>1 DEF BeatAt
      <4> QED
        BY <4>1, <4>2, Zenon DEF Confirmed, LastSaysReady, n
    <3>4. CASE ~IsBeat(f)
      <4>1. \A j \in 1..n : ~IsBeat(link[j])
        BY <1>2, <3>2, <3>4
      <4>2. mcu.heartbeatSeen /\ "ICM_READY" \in mcu.flags
        BY <1>8, <3>1, <3>4
      <4> QED
        BY <4>1, <4>2 DEF Confirmed, n
    <3> QED
      BY <3>3, <3>4
  <2> QED
    BY <2>3, <2>4 DEF t
<1> QED
  BY <1>9

LEMMA ApplyFrameGateInv == ASSUME IInv, GateInv, ApplyFrame PROVE GateInv'
<1>1. link \in Seq(Frames) /\ link # <<>> /\ link' = Tail(link)
  BY DEF GateInv, ApplyFrame
<1> DEFINE f == Head(link)
           n == Len(link)
           t == link'
<1>2. f \in Frames /\ f = link[1] /\ n \in Nat \ {0} /\ t \in Seq(Frames)
  BY <1>1
<1>3. Len(t) = n - 1 /\ \A i \in 1..(n - 1) : t[i] = link[i + 1]
  BY <1>1
<1>4. /\ mcu' = CASE f.type = "heartbeat" -> [mcu EXCEPT !.heartbeatSeen = TRUE, !.flags = f.flags]
                  [] f.type = "imu" -> [mcu EXCEPT !.imu = f.source]
                  [] f.type = "mag" -> [mcu EXCEPT !.magSeen = TRUE]
      /\ hub' = hub /\ unheard' = unheard
  BY DEF ApplyFrame, vars
<1>5. mcu \in [heartbeatSeen : BOOLEAN, flags : SUBSET StatusBits,
               imu : {"none", "real", "mock"}, magSeen : BOOLEAN]
  BY DEF GateInv
<1> HIDE DEF f, n, t
<1>6. /\ IsBeat(f) => /\ f.flags \in SUBSET StatusBits
                      /\ mcu' = [mcu EXCEPT !.heartbeatSeen = TRUE, !.flags = f.flags]
      /\ ~IsBeat(f) => \/ f.source \in {"real", "mock"} /\ mcu' = [mcu EXCEPT !.imu = f.source]
                       \/ mcu' = [mcu EXCEPT !.magSeen = TRUE]
  BY <1>2, <1>4 DEF IsBeat, Frames
<1>7. mcu' \in [heartbeatSeen : BOOLEAN, flags : SUBSET StatusBits,
                imu : {"none", "real", "mock"}, magSeen : BOOLEAN]
  BY <1>5, <1>6
<1>8. IF IsBeat(f) THEN mcu'.heartbeatSeen = TRUE /\ mcu'.flags = f.flags
      ELSE mcu'.heartbeatSeen = mcu.heartbeatSeen /\ mcu'.flags = mcu.flags
  BY <1>5, <1>6
<1>9. Confirmed' => Confirmed
  BY <1>1, <1>2, <1>4, <1>8, ConfirmedBefore DEF f
<1>10. t = link'
  BY DEF t
<1>11. /\ unheard' \in 0..FallbackCap
       /\ hub'.age["heartbeat"] < Period["heartbeat"] + MaxInitTime
       /\ Ready(hub)' => unheard' = 0
       /\ Confirmed' => unheard' <= hub'.age["heartbeat"]
  BY <1>4, <1>9 DEF GateInv, Ready
<1> QED
  BY <1>2, <1>7, <1>10, <1>11 DEF GateInv

LEMMA LoseFrameGateInv == ASSUME IInv, GateInv, LoseFrame PROVE GateInv'
<1>1. /\ link \in Seq(Frames) /\ link # <<>> /\ link' = Tail(link) /\ link' \in Seq(Frames)
      /\ mcu' = mcu /\ hub' = hub
      /\ unheard' = IF IsBeat(Head(link)) /\ "ICM_READY" \notin Head(link).flags THEN 0 ELSE unheard
  BY DEF GateInv, LoseFrame, vars, IsBeat
<1>2. unheard' \in {0, unheard} /\ unheard' \in 0..FallbackCap /\ hub.age["heartbeat"] \in Nat
  BY <1>1, CapFact, ConstantFacts DEF GateInv, IInv, Types, HubStates, Ticks, ImuTimers
<1>3. Confirmed' => unheard' <= hub'.age["heartbeat"]
  <2>1. CASE IsBeat(Head(link)) /\ "ICM_READY" \notin Head(link).flags
    BY <1>1, <1>2, <2>1
  <2>2. CASE ~(IsBeat(Head(link)) /\ "ICM_READY" \notin Head(link).flags)
    <3>1. Confirmed' => Confirmed
      BY <1>1, <2>2, ConfirmedBefore
    <3> QED
      BY <1>1, <2>2, <3>1 DEF GateInv
  <2> QED
    BY <2>1, <2>2
<1> QED
  BY <1>1, <1>2, <1>3 DEF GateInv, Ready

\* A heading computed from a Mock sample ends within one heartbeat period and
\* the time one initialisation of the driver blocks the loop; the period runs
\* anew behind a heartbeat that was lost.
THEOREM MockHeadingCorrect == GateSpec => []MockHeadingEnds
<1>1. IInv /\ GateInv /\ [GateNext]_gateVars => GateInv'
  <2> SUFFICES ASSUME IInv, GateInv, [GateNext]_gateVars PROVE GateInv'
    OBVIOUS
  <2>1. CASE BusFault
    BY <2>1 DEF BusFault, BusChanges, GateInv, Confirmed, LastSaysReady, BeatAt, Ready
  <2>2. CASE UNCHANGED gateVars
    BY <2>2 DEF gateVars, vars, GateInv, Confirmed, LastSaysReady, BeatAt, Ready
  <2> QED
    BY <2>1, <2>2, HubPollGateInv, ApplyFrameGateInv, LoseFrameGateInv DEF GateNext
<1>2. ASSUME IInv, GateInv PROVE MockHeadingEnds
  <2> SUFFICES ASSUME link = <<>>, SourcesHealthy(mcu) PROVE unheard < FallbackCap
    BY DEF MockHeadingEnds, HeadingValid
  <2>1. Confirmed
    BY DEF Confirmed, SourcesHealthy, Required
  <2>2. unheard <= hub.age["heartbeat"] /\ hub.age["heartbeat"] < FallbackCap
    BY <1>2, <2>1 DEF GateInv, FallbackCap
  <2>3. unheard \in Nat /\ hub.age["heartbeat"] \in Nat /\ FallbackCap \in Nat
    BY <1>2, CapFact, ConstantFacts DEF IInv, GateInv, Types, HubStates, Ticks, ImuTimers
  <2> QED
    BY <2>2, <2>3
<1> QED
  BY <1>1, <1>2, GateInitInv, GateBase, PTL DEF GateSpec

\* The status stays coherent behind the link as well, for the gate's run.
THEOREM GateStatusCorrect == GateSpec => []StatusCoherent
<1>1. IInv => StatusCoherent
  BY DEF IInv, Coherent, AuxCoherent, StatusCoherent
<1> QED
  BY <1>1, GateBase, PTL
=============================================================================
