----------------------------- MODULE CommandLink -----------------------------
(***************************************************************************)
(* The ping of the MP157 and its answer: McuSerialService with its         *)
(* command, deadline and status flags, the command decoder of the hub with *)
(* process_uart_commands, and a line that loses and changes bytes.  The    *)
(* process on the MP157 may die anywhere and is started again; the hub     *)
(* runs on and keeps what its decoder holds.                               *)
(*                                                                         *)
(* Bytes travel down.  Up travel whole acknowledgements: the decoder of    *)
(* the MP157 is checked by itself in FrameDecoders, and the other frames   *)
(* of the hub matter only as the first of them that is read.               *)
(***************************************************************************)
EXTENDS FrameDecoders

CONSTANTS
  DownCapacity,  \* bound: bytes on the way to the hub
  UpCapacity,    \* bound: acknowledgements on the way from the hub
  MaxNoise,      \* bound: bytes of noise at the start
  MaxFaults      \* bound: bytes lost or changed on the way to the hub, pings cut short

ASSUME LinkAssumption ==
  /\ DownCapacity \in Nat \ {0} /\ UpCapacity \in Nat \ {0}
  /\ MaxNoise \in 0..DownCapacity /\ MaxFaults \in Nat

VARIABLES
  svc,     \* McuSerialService and the fields of McuStatus it decides with
  hubBuf,  \* g_command_decoder: buffer and length
  down,    \* bytes from the MP157 to the hub
  up,      \* acknowledgements under way to the MP157, the hub's queue included
  hist     \* history, see Started
linkVars == <<svc, hubBuf, down, up, hist>>

Off == [state |-> "off", ping |-> FALSE, written |-> 0, capture |-> FALSE, late |-> FALSE,
        heartbeatSeen |-> FALSE, ackSeen |-> FALSE]
Running == svc.state = "running"

\* The process is gone, and of its fields only how it ended is kept.
Ended(state) == [Off EXCEPT !.state = state]

\* faults: see MaxFaults.  clean: since the start nothing was
\* lost, nothing older was under way to the hub, and the hub held no
\* unfinished frame when the first byte of this process came.  fresh: at the
\* start nothing older was under way in either direction.
Started(faults, clean, fresh) == [faults |-> faults, clean |-> clean, fresh |-> fresh]

\* What the line carries before the first process opens the port is noise.
LinkInit ==
  /\ svc = Off /\ hubBuf = <<>> /\ up = 0
  /\ down \in NoiseSeqs(MaxNoise)
  /\ hist = Started(0, TRUE, TRUE)
-----------------------------------------------------------------------------
(* The hub.                                                                *)

\* One byte of process_uart_commands; an acknowledgement that does not fit
\* the transmit queue is dropped.
Processed(byte) ==
  LET fed == Fed(hubBuf, byte)
      room == up < UpCapacity IN
  /\ hubBuf' = fed.buffer
  /\ up' = IF fed.ping /\ room THEN up + 1 ELSE up
  /\ hist' = [hist EXCEPT !.clean = @ /\ (byte.place = 1 => Len(hubBuf) <= 1)
                                      /\ (fed.ping => room)]

HubReceives ==
  /\ down # <<>>
  /\ Processed(Head(down))
  /\ down' = Tail(down)
  /\ UNCHANGED svc
-----------------------------------------------------------------------------
(* The line.                                                               *)

\* A byte for the hub is lost, or another arrives in its place.
Damaged == {<<>>} \cup {<<Noise(v)>> : v \in NoiseValues}

DownlinkFails ==
  /\ hist.faults < MaxFaults /\ down # <<>>
  /\ \E bytes \in Damaged :
       hubBuf' = IF bytes = <<>> THEN hubBuf ELSE Fed(hubBuf, Head(bytes)).buffer
  /\ down' = Tail(down)
  /\ hist' = Started(hist.faults + 1, FALSE, hist.fresh)
  /\ UNCHANGED <<svc, up>>

\* An acknowledgement is damaged, swallowed, cut by a start or, when nobody
\* has the port open, dropped.
UplinkFails ==
  /\ up > 0
  /\ up' = up - 1
  /\ hist' = [hist EXCEPT !.clean = FALSE]
  /\ UNCHANGED <<svc, hubBuf, down>>
-----------------------------------------------------------------------------
(* The MP157.                                                              *)

CommandSent(s) == ~s.ping \/ s.written = PingSize

\* start() of a new process, with or without a ping and a capture time.
\* The input is flushed, what is still under way comes later.
Start ==
  /\ ~Running
  /\ \E ping, capture \in BOOLEAN, late \in 0..up :
       /\ svc' = [Off EXCEPT !.state = "running", !.ping = ping, !.capture = capture]
       /\ up' = late
       /\ hist' = Started(hist.faults, down = <<>>, down = <<>> /\ late = 0)
  /\ UNCHANGED <<hubBuf, down>>

\* Fault: a command that was cut short is written again from its start.
WrittenAgain(n) == SubSeq(Ping, 1, n)

\* pollConfiguredCommand: write() takes n bytes of what is left.
Written(n) == SubSeq(Ping, svc.written + 1, svc.written + n)

\* Fault: a capture without a heartbeat does not end.
LateAndSeen == svc.late /\ svc.heartbeatSeen

DeadlineReached == svc.late

\* How a capture ends.
Verdict(s) == IF s.heartbeatSeen /\ (s.ping => s.ackSeen) THEN "completed" ELSE "failed"

\* Fault: an acknowledgement counts only behind the first heartbeat.
AppliedBehindHeartbeat(s, heartbeat, acks) ==
  [s EXCEPT !.heartbeatSeen = @ \/ heartbeat, !.ackSeen = @ \/ (acks > 0 /\ s.heartbeatSeen)]

\* applyHeartbeat or applySensorImu, and applyCommandAck: an acknowledgement
\* counts whichever ping it answers.
Applied(s, heartbeat, acks) ==
  [s EXCEPT !.heartbeatSeen = @ \/ heartbeat, !.ackSeen = @ \/ acks > 0]

\* poll(): the rest of the command, then the deadline, then what has come.
PollWith(heartbeat) ==
  /\ Running
  /\ \E n \in 0..(IF CommandSent(svc) THEN 0 ELSE PingSize - svc.written) :
       /\ Len(down) + n <= DownCapacity
       /\ down' = down \o Written(n)
       /\ LET s == [svc EXCEPT !.written = @ + n] IN
          \/ /\ ~CommandSent(s)
             /\ svc' = s /\ UNCHANGED up
          \/ /\ CommandSent(s) /\ DeadlineReached
             /\ svc' = Ended(Verdict(s)) /\ UNCHANGED up
          \/ /\ CommandSent(s) /\ ~DeadlineReached
             /\ \E acks \in 0..up :
                  svc' = Applied(s, heartbeat, acks) /\ up' = up - acks
  /\ UNCHANGED <<hubBuf, hist>>

Poll == \E heartbeat \in BOOLEAN : PollWith(heartbeat)

\* captureSeconds_ elapse; without a capture time there is no deadline.
TimePasses ==
  /\ Running /\ svc.capture /\ ~svc.late
  /\ svc' = [svc EXCEPT !.late = TRUE]
  /\ UNCHANGED <<hubBuf, down, up, hist>>

\* read(), write() or the status callback fails, or the process is killed.
\* A ping may be left cut short.
Dies ==
  LET cut == svc.written \in 1..(PingSize - 1) IN
  /\ Running
  /\ cut => hist.faults < MaxFaults
  /\ svc' = Ended("failed")
  /\ hist' = [hist EXCEPT !.faults = IF cut THEN @ + 1 ELSE @]
  /\ UNCHANGED <<hubBuf, down, up>>
-----------------------------------------------------------------------------
LinkNext ==
  \/ HubReceives \/ DownlinkFails \/ UplinkFails
  \/ Start \/ Poll \/ TimePasses \/ Dies

\* The scheduler polls the service, a UART without flow control takes in the
\* end what is written to it, the hub polls for ever, time passes.
\* Nothing says that a heartbeat comes.
LinkSpec ==
  /\ LinkInit /\ [][LinkNext]_linkVars
  /\ WF_linkVars(PollWith(FALSE)) /\ WF_linkVars(HubReceives) /\ WF_linkVars(TimePasses)
-----------------------------------------------------------------------------
(* Properties. *)

LinkTypeOK ==
  /\ svc \in [state : {"off", "running", "completed", "failed"}, ping : BOOLEAN,
             written : 0..PingSize, capture : BOOLEAN, late : BOOLEAN,
             heartbeatSeen : BOOLEAN, ackSeen : BOOLEAN]
  /\ hubBuf \in Seq(Bytes) /\ Len(hubBuf) < MaxFrameSize
  /\ down \in Seq(Bytes) /\ Len(down) <= DownCapacity
  /\ up \in 0..UpCapacity
  /\ hist \in [faults : 0..MaxFaults, clean : BOOLEAN, fresh : BOOLEAN]

\* Whatever the line carries while no process writes, noise, remains of pings
\* and damage, each decoder finds every ping that starts Swallowed bytes
\* behind it, and all where nothing looked like a header: of Enough pings
\* never none.  How the reads of the MP157 cut the stream makes no difference,
\* and no size that noise announces overruns the buffer of the hub.
DecodersResynchronize ==
  LET stream == hubBuf \o down IN
  /\ Len(hubBuf) < MaxFrameSize
  /\ ~Running /\ up = 0 =>
       /\ Enough \in Due(stream, Enough)
       /\ HubFinds(stream, Enough) /\ HostFinds(stream, Enough)

\* On a clean line no byte of a ping gets lost between its writer and its
\* acknowledgement, in whatever pieces it is written: until the acknowledgement
\* is on its way or seen, the hub holds exactly the bytes it has received, and
\* the line carries the others that were written.
PingNeverLost ==
  LET received == svc.written - Len(down) IN
  Running /\ svc.ping /\ hist.clean /\ ~svc.ackSeen /\ up = 0 =>
    /\ received \in 0..(PingSize - 1)
    /\ down = SubSeq(Ping, received + 1, svc.written)
    /\ received > 0 => hubBuf = SubSeq(Ping, 1, received)

\* Its nonce is not compared, yet an acknowledgement tells the truth where no
\* older one was under way at the start: the hub has got the ping this process
\* has written to its end, whatever remains of older pings it held, and
\* answers it once.
AckProvesPing ==
  Running /\ hist.fresh /\ (svc.ackSeen \/ up > 0) =>
    /\ svc.ping /\ svc.written = PingSize /\ down = <<>>
    /\ ~(svc.ackSeen /\ up > 0) /\ up <= 1

\* A capture ends behind its deadline, however much the hub sends, unless the
\* process is killed.
CaptureEnds == Running /\ svc.capture ~> ~Running

\* However its bytes are split over polls, a ping written on a clean line is
\* answered and the answer seen, provided the hub's decoder does not hold the
\* remains of a process that died half-way through its own ping.
PingAnswered ==
  Running /\ svc.ping ~> svc.ackSeen \/ ~Running \/ svc.late \/ ~hist.clean
=============================================================================
