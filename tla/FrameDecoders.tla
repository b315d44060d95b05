--------------------------- MODULE FrameDecoders ---------------------------
(***************************************************************************)
(* The two decoders of the serial protocol as functions of what they are   *)
(* fed: mcu_command_decoder_feed_byte of the hub, one byte at a time, and  *)
(* McuFrameStreamDecoder::feed of the MP157, a chunk at a time.            *)
(*                                                                         *)
(* A frame is scaled down to SOF0 SOF1 size payload crc; the size byte     *)
(* stands for version, type and size.  A byte remembers its place in the   *)
(* frame it was sent in: a CRC holds exactly for the bytes of one frame.   *)
(***************************************************************************)
EXTENDS Integers, Sequences, FiniteSetsExt, SequencesExt

CONSTANT MaxPayload  \* kMaxPayloadSize, MCU_FRAME_MAX_PAYLOAD_SIZE

HeaderSize == 3
CrcSize == 1
PingPayload == 1
FrameSize(payload) == HeaderSize + payload + CrcSize
MaxFrameSize == FrameSize(MaxPayload)
PingSize == FrameSize(PingPayload)

ASSUME DecoderAssumption == MaxPayload \in Nat /\ MaxPayload >= PingPayload

\* Values of a byte: the sizes, one of them too large, and three others.
Oversized == MaxPayload + 1
SOF0 == MaxPayload + 2
SOF1 == MaxPayload + 3
Other == MaxPayload + 4
Values == 0..Other
\* bound: what noise may look like.
NoiseValues == {0, MaxPayload, Oversized, SOF0, SOF1}

\* place is 0 in a byte that was not sent so, size the size of its frame.
Bytes == [value : Values, place : 0..MaxFrameSize, size : 0..MaxFrameSize]
Noise(value) == [value |-> value, place |-> 0, size |-> 0]

\* buildFrame; the last byte of the CRC looks like the start of a frame.
Frame(payload) ==
  [i \in 1..FrameSize(payload) |->
     [value |-> CASE i = 1 -> SOF0 [] i = 2 -> SOF1 [] i = 3 -> payload
                  [] i = FrameSize(payload) -> SOF0 [] OTHER -> Other,
      place |-> i, size |-> FrameSize(payload)]]

Ping == Frame(PingPayload)

\* Fault: the CRC is not compared.
IntactButCrc(s) == \A i \in 1..(Len(s) - CrcSize) : s[i].place = i /\ s[i].size = Len(s)

\* The CRC of a cut-out frame holds.
Intact(s) == \A i \in 1..Len(s) : s[i].place = i /\ s[i].size = Len(s)

From(s, j) == SubSeq(s, j, Len(s))
Starts(s) == {j \in 1..(Len(s) - 1) : s[j].value = SOF0 /\ s[j + 1].value = SOF1}

\* Version or size of the header is not acceptable.
BadHeader(s) == s[3].value >= Oversized
-----------------------------------------------------------------------------
(* The hub.                                                                *)

\* Fault: a byte that does not continue a SOF is dropped with it.
DropPairs(s) ==
  IF Len(s) < 2 THEN s ELSE IF Starts(s) = {} THEN <<>> ELSE From(s, Min(Starts(s)))

\* Bytes are dropped until the buffer starts with a SOF or has one byte left.
DropToSof(s) == From(s, Min(Starts(s) \cup {Len(s)}))

\* What the decoder keeps and whether it found a ping.  Every refusal, of
\* version, size, CRC, type, drops all it holds.
Fed(buffer, byte) ==
  LET kept == IF Len(buffer) >= MaxFrameSize THEN <<>> ELSE buffer
      b == DropToSof(Append(kept, byte))
      waits == [buffer |-> b, ping |-> FALSE]
      refused == [buffer |-> <<>>, ping |-> FALSE] IN
  CASE Len(b) < HeaderSize -> waits
    [] Len(b) >= HeaderSize /\ BadHeader(b) -> refused
    [] OTHER -> IF Len(b) < FrameSize(b[3].value) THEN waits
                ELSE [buffer |-> <<>>, ping |-> Intact(b) /\ Len(b) = PingSize]

\* What the decoder holds behind each byte of s, from an empty buffer on.
HubBuffer(s) ==
  LET held[i \in 0..Len(s)] == IF i = 0 THEN <<>> ELSE Fed(held[i - 1], s[i]).buffer
  IN held
-----------------------------------------------------------------------------
(* The MP157.                                                              *)

\* Fault: without a SOF all is dropped.
NothingKept(s) == <<>>

\* What is kept of bytes without a SOF.
HalfSof(s) == IF s # <<>> /\ s[Len(s)].value = SOF0 THEN <<s[Len(s)]>> ELSE <<>>

\* What is left of the buffer and the frames cut out of it.  A bad header
\* costs one byte; a frame whose CRC does not hold is cut out all the same.
Decoded[s \in Seq(Bytes)] ==
  LET b == From(s, Min(Starts(s)))
      n == FrameSize(b[3].value)
      rest == Decoded[From(b, n + 1)] IN
  CASE Starts(s) = {} -> [buffer |-> HalfSof(s), frames |-> <<>>]
    [] Starts(s) # {} /\ Len(b) < HeaderSize -> [buffer |-> b, frames |-> <<>>]
    [] Starts(s) # {} /\ Len(b) >= HeaderSize /\ BadHeader(b) -> Decoded[Tail(b)]
    [] OTHER -> IF Len(b) < n THEN [buffer |-> b, frames |-> <<>>]
                ELSE [buffer |-> rest.buffer, frames |-> <<SubSeq(b, 1, n)>> \o rest.frames]
-----------------------------------------------------------------------------
(* What a stream promises.                                                 *)

\* Every sequence of up to n noise bytes.
NoiseSeqs(n) == UNION {[1..k -> {Noise(v) : v \in NoiseValues}] : k \in 0..n}

\* Noise may be taken for a header, and the payload and CRC it announces
\* swallow what comes behind; never more.
Swallowed == MaxPayload + CrcSize

Pings(count) == [i \in 1..(count * PingSize) |-> Ping[((i - 1) % PingSize) + 1]]

\* Which of `count` pings behind noise must be found.
Due(noise, count) ==
  {k \in 1..count : Starts(noise) = {} \/ (k - 1) * PingSize >= Swallowed}

\* Of this many pings at least one is due, behind any noise.
Enough == (Swallowed \div PingSize) + 2

HubFinds(noise, count) ==
  LET stream == noise \o Pings(count)
      held == HubBuffer(stream) IN
  \A k \in Due(noise, count) :
    LET last == Len(noise) + k * PingSize IN Fed(held[last - 1], stream[last]).ping

\* The same for the MP157: the ping is cut out as soon as its last byte is
\* there.  Wherever the chunks are cut must not matter.
HostFinds(noise, count) ==
  LET stream == noise \o Pings(count)
      whole == Decoded[stream] IN
  /\ \A k \in Due(noise, count) :
       LET frames == Decoded[noise \o Pings(k)].frames IN
       frames # <<>> /\ Last(frames) = Ping
  /\ \A cut \in 1..Len(stream) :
       LET first == Decoded[SubSeq(stream, 1, cut)]
           second == Decoded[first.buffer \o From(stream, cut + 1)] IN
       /\ first.frames \o second.frames = whole.frames
       /\ second.buffer = whole.buffer
=============================================================================
