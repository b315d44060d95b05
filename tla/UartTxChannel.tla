--------------------------- MODULE UartTxChannel ---------------------------
(***************************************************************************)
(* One asynchronous UART transmit channel of the sensor hub: the byte ring *)
(* of bsp/uart_tx_queue_c.c and the channel logic around it in             *)
(* bsp/stm32/board_uart_stm32.c.                                           *)
(*                                                                         *)
(* Two actors share a channel without a lock.  The main loop enqueues      *)
(* frames and kicks the transmitter; it is modelled statement by           *)
(* statement, because the UART interrupt may preempt it between any two.   *)
(* The interrupt is one atomic step: the main loop cannot run inside it    *)
(* and both UART interrupts have the same priority.                        *)
(*                                                                         *)
(* A byte is the position it has in the stream of accepted bytes (1, 2,    *)
(* ...), and 0 marks a slot nobody wrote, so that a lost, repeated,        *)
(* reordered or overwritten byte shows on the wire.                        *)
(***************************************************************************)
EXTENDS Integers, Sequences

CONSTANTS
  Capacity,   \* BOARD_UART_TX_BUFFER_SIZE, the slots of channel->storage
  Lengths,    \* the lengths of the frames the main loop sends
  MaxBytes,   \* bound: bytes accepted in one behaviour
  MaxDrops    \* bound: frames rejected in one behaviour

\* uart_tx_queue_init rejects a capacity under 2, board_uart_send_bytes
\* a frame that is empty or does not fit an empty ring.
ASSUME ConstantsAssumption ==
  /\ Capacity \in Nat /\ Capacity >= 2
  /\ Lengths \subseteq 1..(Capacity - 1)
  /\ MaxBytes \in Nat /\ MaxDrops \in Nat

VARIABLES
  storage, head, tail,   \* channel->queue
  activeLength,          \* channel->active_length
  droppedFrames,         \* channel->dropped_frame_count
  gState,                \* huart->gState of the HAL
  txPtr, txCount,        \* huart->pTxBuffPtr (a slot) and TxXferCount
  pc,                    \* the next statement of the main loop
  length,                \* `length` of enqueue_tx_frame, then of kick_tx_channel
  copied,                \* bytes the memcpy of the enqueue has written
  peeked,                \* `data` of kick_tx_channel: the slot it points to
  accepted,              \* history: bytes published so far
  wire                   \* history: bytes written to the data register

queueVars == <<storage, head, tail>>
halVars   == <<gState, txPtr, txCount>>
mainVars  == <<pc, length, copied, peeked>>
vars == <<queueVars, activeLength, droppedFrames, halVars, mainVars, accepted, wire>>

Slots == 0..(Capacity - 1)
MainSteps == {"idle", "check", "copy", "publish", "kick", "peek", "arm", "transmit"}

Wrap(i) == i % Capacity

\* uart_tx_queue_pending.  Each side writes one of the two indices, and the
\* index the other side owns is read once, so the reads act as one.
Pending == IF head >= tail THEN head - tail ELSE Capacity - tail + head

\* uart_tx_queue_free: one slot stays empty to tell full from empty.
Free == Capacity - Pending - 1

\* uart_tx_queue_peek_contiguous for a tail at slot t.
Contiguous(t) == IF head >= t THEN head - t ELSE Capacity - t

Init ==
  /\ storage = [i \in Slots |-> 0]
  /\ head = 0 /\ tail = 0
  /\ activeLength = 0 /\ droppedFrames = 0
  /\ gState = "READY" /\ txPtr = 0 /\ txCount = 0
  /\ pc = "idle" /\ length = 0 /\ copied = 0 /\ peeked = 0
  /\ accepted = 0
  /\ wire = <<>>
-----------------------------------------------------------------------------
(* The main loop. *)

\* board_uart_send_bytes or board_uart_send_diagnostic_bytes reaches
\* enqueue_tx_frame with a frame of n bytes.
SendFrame(n) ==
  /\ pc = "idle"
  /\ accepted + n <= MaxBytes /\ droppedFrames < MaxDrops
  /\ pc' = "check"
  /\ length' = n
  /\ UNCHANGED <<queueVars, activeLength, droppedFrames, halVars, copied, peeked, accepted, wire>>

\* Fault: an exactly fitting frame is rejected.
FaultyCheckFree ==
  /\ pc = "check"
  /\ \/ /\ length >= Free
        /\ droppedFrames' = droppedFrames + 1
        /\ pc' = "idle"
     \/ /\ length < Free
        /\ pc' = "copy"
        /\ UNCHANGED droppedFrames
  /\ copied' = 0
  /\ UNCHANGED <<queueVars, activeLength, halVars, length, peeked, accepted, wire>>

\* The test of uart_tx_queue_enqueue: a frame that does not fit is rejected
\* whole and counted.
CheckFree ==
  /\ pc = "check"
  /\ \/ /\ length > Free
        /\ droppedFrames' = droppedFrames + 1
        /\ pc' = "idle"
     \/ /\ length <= Free
        /\ pc' = "copy"
        /\ UNCHANGED droppedFrames
  /\ copied' = 0
  /\ UNCHANGED <<queueVars, activeLength, halVars, length, peeked, accepted, wire>>

\* One byte of the two memcpy calls, which wrap at the end of the storage.
CopyByte ==
  /\ pc = "copy"
  /\ storage' = [storage EXCEPT ![Wrap(head + copied)] = accepted + copied + 1]
  /\ copied' = copied + 1
  /\ pc' = IF copied + 1 = length THEN "publish" ELSE "copy"
  /\ UNCHANGED <<head, tail, activeLength, droppedFrames, halVars, length, peeked, accepted, wire>>

\* queue->head is written last: the frame becomes visible as a whole.
PublishHead ==
  /\ pc = "publish"
  /\ head' = Wrap(head + length)
  /\ accepted' = accepted + length
  /\ pc' = "kick"
  /\ UNCHANGED <<storage, tail, activeLength, droppedFrames, halVars, length, copied, peeked, wire>>

\* board_uart_poll kicks the channel at the start and the end of every poll.
Poll ==
  /\ pc = "idle"
  /\ pc' = "kick"
  /\ UNCHANGED <<queueVars, activeLength, droppedFrames, halVars, length, copied, peeked, accepted, wire>>

\* Fault: the kick does not look whether a transmission is active.
FaultyKickCheckActive ==
  /\ pc = "kick"
  /\ pc' = "peek"
  /\ UNCHANGED <<queueVars, activeLength, droppedFrames, halVars, length, copied, peeked, accepted, wire>>

\* kick_tx_channel returns at once while a transmission is active.
KickCheckActive ==
  /\ pc = "kick"
  /\ pc' = IF activeLength # 0 THEN "idle" ELSE "peek"
  /\ UNCHANGED <<queueVars, activeLength, droppedFrames, halVars, length, copied, peeked, accepted, wire>>

KickPeek ==
  /\ pc = "peek"
  /\ length' = Contiguous(tail)
  /\ peeked' = tail
  /\ pc' = IF Contiguous(tail) = 0 THEN "idle" ELSE "arm"
  /\ UNCHANGED <<queueVars, activeLength, droppedFrames, halVars, copied, accepted, wire>>

KickArm ==
  /\ pc = "arm"
  /\ activeLength' = length
  /\ pc' = "transmit"
  /\ UNCHANGED <<queueVars, droppedFrames, halVars, length, copied, peeked, accepted, wire>>

\* HAL_UART_Transmit_IT up to the write that enables the TXE interrupt, and
\* the reset of active_length when the HAL reports HAL_BUSY.
KickTransmit ==
  /\ pc = "transmit"
  /\ IF gState = "READY"
     THEN /\ gState' = "BUSY_TX"
          /\ txPtr' = peeked
          /\ txCount' = activeLength
          /\ UNCHANGED activeLength
     ELSE /\ activeLength' = 0
          /\ UNCHANGED halVars
  /\ pc' = "idle"
  /\ UNCHANGED <<queueVars, droppedFrames, length, copied, peeked, accepted, wire>>
-----------------------------------------------------------------------------
(* The UART interrupt. *)

\* UART_Transmit_IT: the data register is empty, the next byte goes out.
TransmitByte ==
  /\ gState = "BUSY_TX" /\ txCount > 0
  /\ wire' = Append(wire, storage[txPtr])
  /\ txPtr' = txPtr + 1
  /\ txCount' = txCount - 1
  /\ UNCHANGED <<queueVars, activeLength, droppedFrames, gState, mainVars, accepted>>

\* uart_tx_queue_consume of n bytes: the slot the tail moves to.
TailAfter(n) == Wrap(tail + IF n > Pending THEN Pending ELSE n)

\* Fault: the callback starts the next transfer from the slot it released.
RestartAtOldTail ==
  /\ gState = "BUSY_TX" /\ txCount = 0
  /\ tail' = TailAfter(activeLength)
  /\ LET next == Contiguous(TailAfter(activeLength)) IN
       /\ activeLength' = next
       /\ txCount' = next
       /\ txPtr' = tail
       /\ gState' = IF next = 0 THEN "READY" ELSE "BUSY_TX"
  /\ UNCHANGED <<storage, head, droppedFrames, mainVars, accepted, wire>>

\* Fault: the callback releases the bytes and leaves the rest to the next poll.
NoRestart ==
  /\ gState = "BUSY_TX" /\ txCount = 0
  /\ tail' = TailAfter(activeLength)
  /\ activeLength' = 0
  /\ gState' = "READY"
  /\ UNCHANGED <<storage, head, droppedFrames, txPtr, txCount, mainVars, accepted, wire>>

\* UART_EndTransmit_IT and HAL_UART_TxCpltCallback: release the bytes that
\* went out and start on what is left, up to the end of the storage.
TransmitComplete ==
  /\ gState = "BUSY_TX" /\ txCount = 0
  /\ tail' = TailAfter(activeLength)
  /\ LET next == Contiguous(TailAfter(activeLength)) IN
       /\ activeLength' = next
       /\ txCount' = next
       /\ txPtr' = IF next = 0 THEN txPtr ELSE TailAfter(activeLength)
       /\ gState' = IF next = 0 THEN "READY" ELSE "BUSY_TX"
  /\ UNCHANGED <<storage, head, droppedFrames, mainVars, accepted, wire>>
-----------------------------------------------------------------------------
MainStep ==
  \/ \E n \in Lengths : SendFrame(n)
  \/ Poll
  \/ CheckFree \/ CopyByte \/ PublishHead
  \/ KickCheckActive \/ KickPeek \/ KickArm \/ KickTransmit

Interrupt == TransmitByte \/ TransmitComplete

Next == MainStep \/ Interrupt

\* main() polls the application for ever, the line drains at its baud rate
\* and the NVIC delivers the enabled interrupt.
Fairness == WF_vars(MainStep) /\ WF_vars(Interrupt)

Spec == Init /\ [][Next]_vars
FairSpec == Spec /\ Fairness
-----------------------------------------------------------------------------
(* Properties. *)

\* The indices stay in the ring and every 16-bit length the callbacks use
\* stays below its capacity.
TypeOK ==
  /\ storage \in [Slots -> Nat]
  /\ head \in Slots /\ tail \in Slots
  /\ activeLength \in Slots
  /\ droppedFrames \in Nat
  /\ gState \in {"READY", "BUSY_TX"}
  /\ txPtr \in 0..Capacity /\ txCount \in Slots
  /\ pc \in MainSteps
  /\ length \in Slots /\ copied \in Slots /\ peeked \in Slots
  /\ accepted \in Nat
  /\ wire \in Seq(Nat)

\* What the line carries is the accepted frames in order: no byte is lost,
\* sent twice, sent early or overwritten in the ring before it was sent,
\* wherever the interrupt lands in the main loop.
WireIsAcceptedPrefix ==
  /\ Len(wire) <= accepted
  /\ \A i \in 1..Len(wire) : wire[i] = i

\* active_length, a plain variable both sides write without a lock, tells
\* the truth about the HAL except between the two statements that set it
\* and start the transfer; there the HAL is idle, so HAL_UART_Transmit_IT
\* is never refused.
ActiveMatchesHal ==
  IF pc = "transmit" THEN activeLength > 0 /\ gState = "READY"
                     ELSE activeLength > 0 <=> gState = "BUSY_TX"

\* The distance from slot t forward to slot s.
Offset(t, s) == IF s >= t THEN s - t ELSE s - t + Capacity

Writing == pc \in {"copy", "publish"}
Written == Pending + IF Writing THEN copied ELSE 0

\* The ring holds the accepted stream from the first byte not released, and
\* behind it the bytes of the frame being copied: neither the copy nor the
\* interrupt ever touches a slot the other still needs.
RingHoldsStream ==
  \A s \in Slots :
    Offset(tail, s) < Written => storage[s] = accepted - Pending + Offset(tail, s) + 1

\* The race a lost wake-up would come from: the main loop finds the channel
\* active and returns while the interrupt finds the ring empty and stops.
\* Whenever the main loop is outside enqueue and kick, pending bytes are
\* being transmitted, with no help from the next poll.
NoStrandedBytes ==
  pc = "idle" /\ head # tail => gState = "BUSY_TX"

\* The bytes of the running transfer that have left: in the ring still, out
\* of the abstract queue.
Held == IF gState = "BUSY_TX" THEN activeLength - txCount ELSE 0

\* The abstract queue is read out of the ring, not counted.
RingContents == [i \in 1..(Pending - Held) |-> storage[Wrap(tail + Held + i - 1)]]

Fifo == INSTANCE FrameFifo WITH
          Room <- Capacity - 1, queue <- RingContents, out <- wire,
          held <- Held, rejected <- droppedFrames

\* The channel implements the bounded frame FIFO: a frame is accepted whole
\* by the one write of queue->head and rejected only when it does not fit,
\* and everything accepted leaves in order and, as FrameFifo is fair, in the
\* end.
ImplementsFrameFifo == Fifo!Spec
=============================================================================
