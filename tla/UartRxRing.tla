---------------------------- MODULE UartRxRing ----------------------------
(***************************************************************************)
(* The receive side of UART4 on the sensor hub: the USART data register,   *)
(* the interrupt path of the HAL, the callbacks of                         *)
(* bsp/stm32/board_uart_stm32.c and the 64-byte ring the main loop drains. *)
(*                                                                         *)
(* Three actors.  The line delivers bytes at any moment, also while the    *)
(* interrupt runs, so the interrupt is split at its reads of the hardware. *)
(* The interrupt preempts the main loop between any two accesses to the    *)
(* ring.  A byte is its position on the line (1, 2, ...); 0 is no byte.    *)
(***************************************************************************)
EXTENDS Integers, Sequences

CONSTANTS
  RxSize,     \* BOARD_UART_RX_BUFFER_SIZE
  MaxBytes    \* bound: bytes on the line in one behaviour

ASSUME RxAssumption == RxSize \in Nat /\ RxSize >= 2 /\ MaxBytes \in Nat

VARIABLES
  arrived,              \* history: bytes the line carried
  dr, rxne, ore, fe,    \* the data register; RXNE, ORE, and FE or NE in SR
  rxState, rxIrq,       \* huart->RxState and the RXNEIE/EIE enables
  isr, sawRxne, sawOre, sawFe, \* where the interrupt is, and its isrflags
  buffer, rxHead, rxTail, dropCount,   \* the g_uart4_rx_* variables
  pc, tail, outByte,    \* the main loop in board_uart_receive_byte
  received,             \* history: bytes handed to the application
  overruns,             \* history: bytes the hardware lost to an overrun
  lineErrors,           \* history: bytes received with a framing or noise error
  flushed               \* history: bytes the error callback threw away

hwVars   == <<dr, rxne, ore, fe>>
halVars  == <<rxState, rxIrq>>
isrVars  == <<isr, sawRxne, sawOre, sawFe>>
ringVars == <<buffer, rxHead, rxTail, dropCount>>
mainVars == <<pc, tail, outByte, received>>
lossVars == <<overruns, lineErrors, flushed>>
vars == <<arrived, hwVars, halVars, isrVars, ringVars, mainVars, lossVars>>

Slots == 0..(RxSize - 1)

Succ(i) == (i + 1) % RxSize

\* After board_uart_init: the flag is cleared and the receiver armed.
Init ==
  /\ arrived = 0
  /\ dr = 0 /\ rxne = FALSE /\ ore = FALSE /\ fe = FALSE
  /\ rxState = "BUSY_RX" /\ rxIrq = TRUE
  /\ isr = "none" /\ sawRxne = FALSE /\ sawOre = FALSE /\ sawFe = FALSE
  /\ buffer = [i \in Slots |-> 0] /\ rxHead = 0 /\ rxTail = 0 /\ dropCount = 0
  /\ pc = "idle" /\ tail = 0 /\ outByte = 0
  /\ received = <<>>
  /\ overruns = 0 /\ lineErrors = 0 /\ flushed = 0
-----------------------------------------------------------------------------
(* The line and the USART. *)

\* A byte completes in the shift register: it moves to DR, or is lost and
\* raises ORE when DR has not been read.  A byte whose stop bit or samples
\* were wrong comes with FE or NE; an overrun sets ORE alone.
LineByte ==
  /\ arrived < MaxBytes
  /\ arrived' = arrived + 1
  /\ \/ /\ rxne
        /\ ore' = TRUE /\ overruns' = overruns + 1
        /\ UNCHANGED <<dr, rxne, fe, lineErrors>>
     \/ /\ ~rxne
        /\ dr' = arrived + 1 /\ rxne' = TRUE
        /\ fe' \in BOOLEAN
        /\ lineErrors' = lineErrors + (IF fe' THEN 1 ELSE 0)
        /\ UNCHANGED <<ore, overruns>>
  /\ UNCHANGED <<halVars, isrVars, ringVars, mainVars, flushed>>
-----------------------------------------------------------------------------
(* The interrupt. *)

\* HAL_UART_IRQHandler reads SR.
IsrEnter ==
  /\ isr = "none" /\ rxIrq /\ (rxne \/ ore)
  /\ sawRxne' = rxne /\ sawOre' = ore /\ sawFe' = fe
  /\ isr' = IF rxne THEN "receive" ELSE "error"
  /\ UNCHANGED <<arrived, hwVars, halVars, ringVars, mainVars, lossVars>>

\* Fault: a byte that finds the ring full is not counted.
UncountedStoreByte(b) ==
  IF Succ(rxHead) # rxTail
  THEN /\ buffer' = [buffer EXCEPT ![rxHead] = b]
       /\ rxHead' = Succ(rxHead)
       /\ UNCHANGED <<rxTail, dropCount>>
  ELSE UNCHANGED ringVars

\* HAL_UART_RxCpltCallback: store the byte, or count it when the ring is full.
StoreByte(b) ==
  IF Succ(rxHead) # rxTail
  THEN /\ buffer' = [buffer EXCEPT ![rxHead] = b]
       /\ rxHead' = Succ(rxHead)
       /\ UNCHANGED <<rxTail, dropCount>>
  ELSE /\ dropCount' = dropCount + 1
       /\ UNCHANGED <<buffer, rxHead, rxTail>>

\* Fault: the callback does not arm the next reception.
NoRearm ==
  /\ isr = "receive" /\ rxState = "BUSY_RX"
  /\ rxne' = FALSE /\ fe' = FALSE /\ dr' = 0
  /\ IF sawOre THEN ore' = FALSE ELSE ore' \in {FALSE, ore}
  /\ StoreByte(dr)
  /\ rxState' = "READY" /\ rxIrq' = FALSE
  /\ isr' = "none"
  /\ UNCHANGED <<arrived, sawRxne, sawOre, sawFe, mainVars, lossVars>>

\* UART_Receive_IT reads DR, completes the one-byte reception, and the
\* callback arms the next one, so ErrorCode is clear again behind it.  The
\* DR read clears an ORE the earlier SR read has seen; whether it clears one
\* raised in between is left open.  Any error flag of the SR read, also FE or
\* NE alone, leads into the error branch behind the reception.
IsrReceive ==
  /\ isr = "receive" /\ rxState = "BUSY_RX"
  /\ rxne' = FALSE /\ fe' = FALSE /\ dr' = 0
  /\ IF sawOre THEN ore' = FALSE ELSE ore' \in {FALSE, ore}
  /\ StoreByte(dr)
  /\ rxState' = "BUSY_RX" /\ rxIrq' = TRUE
  /\ isr' = IF sawOre \/ sawFe THEN "error" ELSE "none"
  /\ UNCHANGED <<arrived, sawRxne, sawOre, sawFe, mainVars, lossVars>>

\* __HAL_UART_CLEAR_OREFLAG reads SR and DR: a byte in DR is thrown away.
ClearOreFlag ==
  /\ ore' = FALSE /\ rxne' = FALSE /\ fe' = FALSE /\ dr' = 0
  /\ flushed' = flushed + (IF rxne THEN 1 ELSE 0)

\* Fault: the error callback clears the flag and arms nothing.
ErrorNotRearmed ==
  /\ isr = "error"
  /\ ClearOreFlag
  /\ IF sawRxne THEN UNCHANGED halVars ELSE rxState' = "READY" /\ rxIrq' = FALSE
  /\ isr' = "none"
  /\ UNCHANGED <<arrived, sawRxne, sawOre, sawFe, ringVars, mainVars, overruns, lineErrors>>

\* The rest of the error branch.  When this interrupt received a byte, the
\* receiver is armed already and HAL_UART_Receive_IT answers HAL_BUSY;
\* otherwise UART_EndRxTransfer disarmed it (ErrorCode still holds ORE) and
\* HAL_UART_ErrorCallback arms it again.
ErrorCallback ==
  /\ isr = "error"
  /\ ClearOreFlag
  /\ IF sawRxne THEN UNCHANGED halVars ELSE rxState' = "BUSY_RX" /\ rxIrq' = TRUE
  /\ isr' = "none"
  /\ UNCHANGED <<arrived, sawRxne, sawOre, sawFe, ringVars, mainVars, overruns, lineErrors>>

Isr == IsrEnter \/ IsrReceive \/ ErrorCallback
-----------------------------------------------------------------------------
(* board_uart_receive_byte, called by the main loop; it stands still while *)
(* the interrupt runs.                                                     *)

\* Fault: the ring is read whether it holds a byte or not.
UncheckedRead ==
  /\ isr = "none" /\ pc = "idle"
  /\ tail' = rxTail
  /\ pc' = "read"
  /\ UNCHANGED <<arrived, hwVars, halVars, isrVars, ringVars, outByte, received, lossVars>>

CheckEmpty ==
  /\ isr = "none" /\ pc = "idle"
  /\ tail' = rxTail
  /\ pc' = IF rxTail = rxHead THEN "idle" ELSE "read"
  /\ UNCHANGED <<arrived, hwVars, halVars, isrVars, ringVars, outByte, received, lossVars>>

ReadSlot ==
  /\ isr = "none" /\ pc = "read"
  /\ outByte' = buffer[tail]
  /\ pc' = "advance"
  /\ UNCHANGED <<arrived, hwVars, halVars, isrVars, ringVars, tail, received, lossVars>>

AdvanceTail ==
  /\ isr = "none" /\ pc = "advance"
  /\ rxTail' = Succ(tail)
  /\ received' = Append(received, outByte)
  /\ pc' = "idle"
  /\ UNCHANGED <<arrived, hwVars, halVars, isrVars, buffer, rxHead, dropCount, tail, outByte, lossVars>>

ReceiveByte == CheckEmpty \/ ReadSlot \/ AdvanceTail
-----------------------------------------------------------------------------
Next == LineByte \/ Isr \/ ReceiveByte

\* Enabled interrupts are served; the main loop keeps polling.
Spec == Init /\ [][Next]_vars /\ WF_vars(Isr) /\ WF_vars(ReceiveByte)
-----------------------------------------------------------------------------
(* Properties. *)

\* The indices the interrupt and the main loop own stay in the ring.
TypeOK ==
  /\ arrived \in 0..MaxBytes /\ dr \in 0..MaxBytes
  /\ rxne \in BOOLEAN /\ ore \in BOOLEAN /\ fe \in BOOLEAN
  /\ rxState \in {"READY", "BUSY_RX"} /\ rxIrq \in BOOLEAN
  /\ isr \in {"none", "receive", "error"}
  /\ sawRxne \in BOOLEAN /\ sawOre \in BOOLEAN /\ sawFe \in BOOLEAN
  /\ buffer \in [Slots -> 0..MaxBytes] /\ rxHead \in Slots /\ rxTail \in Slots
  /\ dropCount \in Nat /\ overruns \in Nat /\ lineErrors \in Nat /\ flushed \in Nat
  /\ pc \in {"idle", "read", "advance"} /\ tail \in Slots /\ outByte \in 0..MaxBytes
  /\ received \in Seq(0..MaxBytes)

\* The application sees the bytes in line order and none of them twice,
\* although the interrupt fills slots while the main loop empties them.
ReceivedInOrder ==
  \A i, j \in 1..Len(received) : i < j => 0 < received[i] /\ received[i] < received[j]

\* Whatever error path an interrupt took, it leaves the receiver armed: the
\* hub can never become deaf to commands.
NeverDeaf == isr = "none" => rxState = "BUSY_RX" /\ rxIrq

Pending == (rxHead - rxTail) % RxSize

\* Bytes that were neither received, nor are on their way, nor were counted.
Uncounted ==
  arrived - (Len(received) + Pending + dropCount + (IF rxne THEN 1 ELSE 0))

\* The drop counter the diagnostics publish accounts for what the hub lost,
\* up to the errors of the line: an overrun takes the byte it lost and, with
\* the flush of the error callback, at most one more, a framing or noise
\* error at most the one byte that callback flushes.  On a line without
\* errors nothing is lost uncounted.
LossIsCounted == Uncounted \in 0..(2 * overruns + lineErrors)

\* Every byte the hub stored reaches the application, and the data register
\* is always emptied again.
Drained == []<>(~rxne /\ rxHead = rxTail)
=============================================================================
