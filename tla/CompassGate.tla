---------------------------- MODULE CompassGate ----------------------------
(***************************************************************************)
(* The sensor hub and the compass of the MP157 together: the hub publishes *)
(* heartbeats and samples on UART4, the MP157 applies them to its          *)
(* McuStatus one frame at a time and accepts a heading only while the      *)
(* status bits of the last heartbeat confirm the sources (main.cpp,        *)
(* updateCompassStatus).                                                   *)
(***************************************************************************)
EXTENDS SensorHubApp, Sequences

CONSTANT LinkBound   \* bound: frames on the way

VARIABLES
  link,         \* frames between the two boards, in order
  mcu,          \* McuStatus: heartbeatSeen, statusFlags, imuSample, magnetometerSeen
  unheard       \* history: ticks since the hub left the real source or since a heartbeat
                \* that told so was lost, whichever is later

gateVars == <<vars, link, mcu, unheard>>

\* kCompassRequiredMcuFlags 0x0009 and kCompassRejectedMcuFlags 0x5216.
Required == {"ICM_READY", "MAG_READY"}
Rejected == {"FALLBACK", "IMU_ERROR", "MAG_ERROR", "FIFO_ERROR", "INIT_ERROR", "I2C_FAILURE"}

FallbackCap == Period["heartbeat"] + MaxInitTime

\* Fault: any heartbeat confirms the sources.
AnyHeartbeat(m) == m.heartbeatSeen

\* compassSourcesHealthy.
SourcesHealthy(m) ==
  m.heartbeatSeen /\ Required \subseteq m.flags /\ m.flags \cap Rejected = {}

\* CompassEstimator::estimate, up to the checks of the samples themselves.
HeadingValid(m) == m.imu # "none" /\ m.magSeen /\ SourcesHealthy(m)

\* The frames of one poll in the order the stages send them; a batch of real
\* samples counts as one frame, a heartbeat carries the bits the compass asks
\* for and the barometer is of no concern here.
FramesOf(h) ==
  (IF "heartbeat" \in h.sent THEN <<[type |-> "heartbeat", flags |-> h.announced \cap (Required \cup Rejected)]>> ELSE <<>>)
  \o (IF "real" \in h.sent THEN <<[type |-> "imu", source |-> "real"]>> ELSE <<>>)
  \o (IF "mock" \in h.sent THEN <<[type |-> "imu", source |-> "mock"]>> ELSE <<>>)
  \o (IF "mag" \in h.sent THEN <<[type |-> "mag"]>> ELSE <<>>)

GateInit ==
  /\ Init
  /\ link = <<>>
  /\ mcu = [heartbeatSeen |-> FALSE, flags |-> {}, imu |-> "none", magSeen |-> FALSE]
  /\ unheard = 0

\* One poll of the hub puts its frames on the line; those the transmit queue has
\* no room for are lost, the hub ignores the answer of the enqueue.
HubPoll ==
  \E d \in 1..MaxStep, time \in 0..MaxInitTime :
    /\ Len(link) < LinkBound
    /\ PollTakes(d, time)
    /\ \E kept \in SUBSET hub'.sent :
         /\ link' = link \o FramesOf([hub' EXCEPT !.sent = kept])
         /\ unheard' =
              CASE "ICM_READY" \in hub.status \cup hub'.status -> 0
                [] "heartbeat" \in hub'.sent \ kept /\ "ICM_READY" \notin hub.status \cup hub'.status -> time
                [] OTHER -> Capped(unheard + d + time, FallbackCap)
    /\ UNCHANGED mcu

BusFault == BusChanges /\ UNCHANGED <<link, mcu, unheard>>

\* applyFrame, and updateCompassStatus behind it.
ApplyFrame ==
  /\ link # <<>>
  /\ LET f == Head(link) IN
       mcu' = CASE f.type = "heartbeat" -> [mcu EXCEPT !.heartbeatSeen = TRUE, !.flags = f.flags]
                [] f.type = "imu" -> [mcu EXCEPT !.imu = f.source]
                [] f.type = "mag" -> [mcu EXCEPT !.magSeen = TRUE]
  /\ link' = Tail(link)
  /\ UNCHANGED <<vars, unheard>>

\* The line spoils a frame and the receiver drops it for its CRC.
LoseFrame ==
  /\ link # <<>>
  /\ unheard' = IF Head(link).type = "heartbeat" /\ "ICM_READY" \notin Head(link).flags
                THEN 0 ELSE unheard
  /\ link' = Tail(link)
  /\ UNCHANGED <<vars, mcu>>

GateNext == HubPoll \/ BusFault \/ ApplyFrame \/ LoseFrame

GateSpec == GateInit /\ [][GateNext]_gateVars
-----------------------------------------------------------------------------
(* Properties. *)

\* ADR-0022 wants headings from real samples only.  What the gate achieves:
\* the hub falls back between two heartbeats, so a heading from a Mock sample
\* lasts until the next heartbeat arrives.  Nobody times the heartbeat out: one
\* that is lost prolongs it, by no more than to the heartbeat behind it.
MockHeadingEnds ==
  link = <<>> /\ HeadingValid(mcu) /\ mcu.imu = "mock" => unheard < FallbackCap
=============================================================================
