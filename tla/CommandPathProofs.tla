-------------------------- MODULE CommandPathProofs --------------------------
(***************************************************************************)
(* Safety of the way a command takes: UART4 of the hub with its ring, for  *)
(* every ring size and any number of bytes, the two decoders, for every    *)
(* stream of bytes and every payload limit, and the ping of the MP157 with *)
(* its acknowledgement.                                                    *)
(***************************************************************************)
EXTENDS UartRxRing, CommandLink, FiniteSetTheorems, SequenceTheorems, TLAPS
-----------------------------------------------------------------------------
(* The receive path.                                                       *)

\* Distance of a slot from the tail, and the fill of the ring, without modulo.
Offset(i) == IF i >= rxTail THEN i - rxTail ELSE i - rxTail + RxSize
Fill == Offset(rxHead)
Held(i) == Offset(i) < Fill

\* TypeOK in two halves: the provers take flags and numbers one at a time.
TypeFlags ==
  /\ rxne \in BOOLEAN /\ ore \in BOOLEAN /\ fe \in BOOLEAN
  /\ rxState \in {"READY", "BUSY_RX"} /\ rxIrq \in BOOLEAN
  /\ isr \in {"none", "receive", "error"}
  /\ sawRxne \in BOOLEAN /\ sawOre \in BOOLEAN /\ sawFe \in BOOLEAN
TypeData ==
  /\ arrived \in 0..MaxBytes /\ dr \in 0..MaxBytes
  /\ buffer \in [Slots -> 0..MaxBytes] /\ rxHead \in Slots /\ rxTail \in Slots
  /\ dropCount \in Nat /\ overruns \in Nat /\ lineErrors \in Nat /\ flushed \in Nat
  /\ pc \in {"idle", "read", "advance"} /\ tail \in Slots /\ outByte \in 0..MaxBytes
  /\ received \in Seq(0..MaxBytes)

\* The receiver is armed in every state, also while the interrupt runs.
AlwaysArmed == rxState = "BUSY_RX" /\ rxIrq

\* What the interrupt has read from SR is still so, and FE or NE stands only
\* beside the byte it came with.
IsrKnows ==
  /\ isr = "receive" => rxne /\ (fe => sawFe)
  /\ fe => rxne

\* The main loop works on the slot at the tail, which the interrupt cannot
\* overwrite: it only fills slots ahead of the head.
ReaderOwnsTail ==
  /\ pc \in {"read", "advance"} => tail = rxTail /\ rxHead # rxTail
  /\ pc = "advance" => outByte = buffer[rxTail]

\* Bytes handed over, in the ring and in DR, in this order, are bytes of the
\* line in line order.
LineOrder ==
  /\ rxne => 0 < dr /\ dr <= arrived
  /\ \A k \in 1..Len(received) :
       /\ 0 < received[k] /\ received[k] <= arrived
       /\ rxne => received[k] < dr
       /\ \A i \in Slots : Held(i) => received[k] < buffer[i]
  /\ \A i \in Slots : Held(i) =>
       /\ 0 < buffer[i] /\ buffer[i] <= arrived
       /\ rxne => buffer[i] < dr
       /\ \A j \in Slots : Held(j) /\ Offset(i) < Offset(j) => buffer[i] < buffer[j]

\* Every byte of the line is in one place.
Accounted ==
  arrived = Len(received) + Fill + dropCount + (IF rxne THEN 1 ELSE 0)
              + overruns + flushed

\* Flushes still to come: one for an interrupt that has read an error flag,
\* else one for each error flag it has not read.
Owed ==
  IF isr = "error" \/ (isr = "receive" /\ (sawOre \/ sawFe)) THEN 1
  ELSE (IF ore THEN 1 ELSE 0) + (IF fe THEN 1 ELSE 0)

\* Each flush is paid for by an error of the line.
FlushesPaid == flushed + Owed <= overruns + lineErrors

IInv ==
  /\ TypeFlags
  /\ TypeData
  /\ AlwaysArmed
  /\ IsrKnows
  /\ ReaderOwnsTail
  /\ LineOrder
  /\ ReceivedInOrder
  /\ Accounted
  /\ FlushesPaid
-----------------------------------------------------------------------------
\* The next index is one conditional subtraction.
LEMMA SuccWraps ==
  ASSUME NEW i \in Slots
  PROVE  Succ(i) = IF i = RxSize - 1 THEN 0 ELSE i + 1
BY RxAssumption, SMTT(30) DEF Succ, Slots

LEMMA SuccInRing ==
  ASSUME NEW i \in Slots
  PROVE  Succ(i) \in Slots
BY SuccWraps, RxAssumption DEF Slots

\* The fill of the ring is the modulo the code's indices stand for.
LEMMA DistanceModulo ==
  ASSUME NEW a \in Slots, NEW b \in Slots
  PROVE  (a - b) % RxSize = IF a >= b THEN a - b ELSE a - b + RxSize
<1>1. CASE a >= b
  BY <1>1, RxAssumption, SMTT(30) DEF Slots
<1>2. CASE a < b
  BY <1>2, RxAssumption, SMTT(30) DEF Slots
<1> QED
  BY <1>1, <1>2 DEF Slots
LEMMA PendingIsFill == TypeData => Pending = Fill
BY DistanceModulo DEF TypeData, Pending, Fill, Offset

\* Storing a byte puts the slot at the head behind the others.
LEMMA StoreExtends ==
  ASSUME TypeData, Succ(rxHead) # rxTail, rxHead' = Succ(rxHead), rxTail' = rxTail
  PROVE  /\ Fill' = Fill + 1 /\ Offset(rxHead) = Fill
         /\ \A i \in Slots : Offset(i)' = Offset(i)
         /\ \A i \in Slots : Held(i)' <=> Held(i) \/ i = rxHead
<1>1. rxHead \in Slots /\ rxTail \in Slots
  BY DEF TypeData
<1>2. rxHead' = IF rxHead = RxSize - 1 THEN 0 ELSE rxHead + 1
  BY <1>1, SuccWraps
<1>3. Fill' = Fill + 1 /\ Offset(rxHead) = Fill
  BY <1>1, <1>2, SuccWraps, RxAssumption DEF Fill, Offset, Slots
<1>4. \A i \in Slots : Offset(i)' = Offset(i)
  BY DEF Offset
<1>5. \A i \in Slots : Offset(i) = Offset(rxHead) => i = rxHead
  BY <1>1, RxAssumption DEF Offset, Slots
<1>6. Fill \in Int /\ \A i \in Slots : Offset(i) \in Int
  BY <1>1, RxAssumption DEF Fill, Offset, Slots
<1> QED
  BY <1>3, <1>4, <1>5, <1>6 DEF Held

\* Advancing the tail gives up the slot at the tail and no other.
LEMMA AdvanceShrinks ==
  ASSUME TypeData, rxHead # rxTail, rxHead' = rxHead, rxTail' = Succ(rxTail)
  PROVE  /\ Fill' = Fill - 1 /\ Held(rxTail) /\ Offset(rxTail) = 0
         /\ \A i \in Slots : Held(i)' => Held(i) /\ i # rxTail /\ Offset(i)' = Offset(i) - 1
<1>1. rxHead \in Slots /\ rxTail \in Slots
  BY DEF TypeData
<1>2. rxTail' = IF rxTail = RxSize - 1 THEN 0 ELSE rxTail + 1
  BY <1>1, SuccWraps
<1>3. Fill' = Fill - 1 /\ Held(rxTail) /\ Offset(rxTail) = 0
  BY <1>1, <1>2, RxAssumption DEF Fill, Offset, Slots, Held
<1>4. ASSUME NEW i \in Slots, Held(i)'
      PROVE  Held(i) /\ i # rxTail /\ Offset(i)' = Offset(i) - 1
  BY <1>1, <1>2, <1>4, RxAssumption DEF Fill, Offset, Slots, Held
<1> QED
  BY <1>3, <1>4
-----------------------------------------------------------------------------
LEMMA InitIInv == Init => IInv
<1> SUFFICES ASSUME Init PROVE IInv
  OBVIOUS
<1>1. TypeData
  BY RxAssumption DEF Init, TypeData, Slots
<1>2. TypeFlags /\ AlwaysArmed /\ IsrKnows /\ ReaderOwnsTail
  BY Zenon DEF Init, TypeFlags, AlwaysArmed, IsrKnows, ReaderOwnsTail
<1>3. LineOrder /\ ReceivedInOrder /\ Accounted /\ FlushesPaid
  BY RxAssumption DEF Init, LineOrder, ReceivedInOrder, Accounted, FlushesPaid, Owed, Held, Fill, Offset, Slots
<1> QED
  BY <1>1, <1>2, <1>3 DEF IInv

\* Neither the line, nor the interrupt, nor the main loop disturbs the
\* invariant, whatever one has done between two steps of another.
LEMMA StepIInv == IInv /\ [Next]_vars => IInv'
<1> SUFFICES ASSUME IInv, [Next]_vars PROVE IInv'
  OBVIOUS
<1> USE RxAssumption DEF IInv
<1>1. CASE LineByte
  <2> USE <1>1 DEF LineByte, halVars, isrVars, ringVars, mainVars
  <2>1. TypeData'
    BY DEF TypeData
  <2>2. TypeFlags' /\ AlwaysArmed' /\ ReaderOwnsTail' /\ ReceivedInOrder'
    BY Zenon DEF TypeFlags, AlwaysArmed, ReaderOwnsTail, ReceivedInOrder
  <2>3. IsrKnows'
    BY DEF IsrKnows
  <2>4. CASE rxne
    <3>1. /\ rxne' /\ dr' = dr /\ arrived' = arrived + 1 /\ overruns' = overruns + 1
          /\ UNCHANGED <<buffer, rxHead, rxTail, received, dropCount, flushed>>
          /\ ore' /\ fe' = fe /\ lineErrors' = lineErrors
          /\ UNCHANGED <<isr, sawOre, sawFe>>
      BY <2>4
    <3> HIDE <1>1 DEF LineByte
    <3>2. LineOrder'
      BY <2>4, <3>1 DEF TypeData, LineOrder, Held, Fill, Offset
    <3>3. Accounted'
      <4>1. Fill \in Int /\ Fill' = Fill /\ Len(received) \in Nat
        BY <3>1 DEF TypeData, Fill, Offset, Slots
      <4> QED
        BY <2>4, <3>1, <4>1 DEF TypeData, Accounted
    <3>4. FlushesPaid'
      BY <3>1 DEF TypeData, FlushesPaid, Owed
    <3> QED
      BY <2>1, <2>2, <2>3, <3>2, <3>3, <3>4
  <2>5. CASE ~rxne
    <3>1. /\ rxne' /\ dr' = arrived + 1 /\ arrived' = arrived + 1 /\ overruns' = overruns
          /\ UNCHANGED <<buffer, rxHead, rxTail, received, dropCount, flushed>>
          /\ ore' = ore /\ lineErrors' = lineErrors + (IF fe' THEN 1 ELSE 0)
          /\ UNCHANGED <<isr, sawOre, sawFe>>
      BY <2>5
    <3> HIDE <1>1 DEF LineByte
    <3>2. LineOrder'
      BY <3>1 DEF TypeData, LineOrder, Held, Fill, Offset
    <3>3. Accounted'
      BY <2>5, <3>1 DEF TypeData, Accounted, Fill, Offset, Slots
    <3>4. FlushesPaid'
      BY <2>5, <3>1 DEF TypeData, FlushesPaid, Owed, IsrKnows
    <3> QED
      BY <2>1, <2>2, <2>3, <3>2, <3>3, <3>4
  <2> QED
    BY <2>4, <2>5
<1>2. CASE IsrEnter
  <2> USE <1>2 DEF IsrEnter, hwVars, halVars, ringVars, mainVars, lossVars
  <2>1. TypeData'
    BY DEF TypeData
  <2>2. TypeFlags' /\ AlwaysArmed' /\ ReaderOwnsTail' /\ ReceivedInOrder'
    BY Zenon DEF TypeFlags, AlwaysArmed, ReaderOwnsTail, ReceivedInOrder
  <2>3. IsrKnows'
    BY DEF IsrKnows
  <2>4. LineOrder' /\ Accounted'
    BY DEF LineOrder, Accounted, Held, Fill, Offset
  <2>5. FlushesPaid'
    BY DEF FlushesPaid, Owed, TypeData, IsrKnows
  <2> QED
    BY <2>1, <2>2, <2>3, <2>4, <2>5
<1>3. CASE IsrReceive
  <2> USE <1>3 DEF IsrReceive, mainVars, lossVars
  <2>1. TypeData'
    <3>1. CASE Succ(rxHead) # rxTail
      BY <3>1, SuccInRing DEF TypeData, StoreByte
    <3>2. CASE Succ(rxHead) = rxTail
      BY <3>2 DEF TypeData, StoreByte
    <3> QED
      BY <3>1, <3>2
  <2>2. TypeFlags' /\ AlwaysArmed' /\ ReceivedInOrder'
    BY Zenon DEF TypeFlags, AlwaysArmed, ReceivedInOrder
  <2>3. IsrKnows'
    BY DEF IsrKnows
  <2>4. FlushesPaid'
    <3>1. ore' => ore
      BY DEF TypeFlags
    <3> QED
      BY <3>1 DEF FlushesPaid, Owed, TypeData
  <2>5. CASE Succ(rxHead) # rxTail
    <3>1. /\ Fill' = Fill + 1 /\ Offset(rxHead) = Fill
          /\ \A i \in Slots : Offset(i)' = Offset(i)
          /\ \A i \in Slots : Held(i)' <=> Held(i) \/ i = rxHead
      BY <2>5, StoreExtends DEF StoreByte
    <3>2. rxHead \in Slots /\ rxHead' = Succ(rxHead) /\ rxTail' = rxTail
            /\ buffer' = [buffer EXCEPT ![rxHead] = dr]
      BY <2>5 DEF StoreByte, TypeData
    <3>3. ReaderOwnsTail'
      BY <3>2, <2>5 DEF TypeData, ReaderOwnsTail
    <3>4. Accounted'
      <4>1. rxne /\ ~rxne' /\ UNCHANGED <<arrived, received, overruns, flushed, dropCount>>
        BY <2>5 DEF IsrKnows, StoreByte
      <4>2. Fill \in Int
        BY DEF TypeData, Fill, Offset, Slots
      <4> HIDE <1>3 DEF IsrReceive
      <4> QED
        BY <3>1, <4>1, <4>2 DEF Accounted, TypeData
    <3>5. LineOrder'
      <4>1. rxne /\ ~rxne' /\ UNCHANGED <<arrived, received>>
        BY DEF IsrKnows
      <4> HIDE <1>3 DEF IsrReceive
      <4>2. buffer'[rxHead] = dr /\ \A i \in Slots : i # rxHead => buffer'[i] = buffer[i]
        BY <3>2 DEF TypeData
      <4>3. ASSUME NEW k \in 1..Len(received')
            PROVE  /\ 0 < received'[k] /\ received'[k] <= arrived'
                   /\ \A i \in Slots : Held(i)' => received'[k] < buffer'[i]
        BY <3>1, <4>1, <4>2 DEF LineOrder
      <4>4. ASSUME NEW i \in Slots, Held(i)'
            PROVE  0 < buffer'[i] /\ buffer'[i] <= arrived'
        BY <3>1, <4>1, <4>2, <4>4 DEF LineOrder
      <4>5. ASSUME NEW i \in Slots, Held(i)', NEW j \in Slots, Held(j)', Offset(i)' < Offset(j)'
            PROVE  buffer'[i] < buffer'[j]
        <5>1. Fill \in Int /\ Offset(i) \in Int /\ Offset(j) \in Int
          BY DEF Offset, Fill, Slots, TypeData
        <5>2. Offset(i) < Offset(j) /\ (j = rxHead \/ Held(j)) /\ (i = rxHead \/ Held(i))
          BY <3>1, <4>5
        <5>3. Offset(j) <= Fill
          BY <3>1, <5>1, <5>2 DEF Held
        <5>4. i # rxHead
          BY <3>1, <5>1, <5>2, <5>3
        <5> QED
          BY <3>1, <4>1, <4>2, <5>2, <5>4 DEF LineOrder
      <4> QED
        BY <4>1, <4>3, <4>4, <4>5 DEF LineOrder
    <3> QED
      BY <2>1, <2>2, <2>3, <2>4, <3>3, <3>4, <3>5
  <2>6. CASE Succ(rxHead) = rxTail
    <3>1. UNCHANGED <<buffer, rxHead, rxTail>> /\ dropCount' = dropCount + 1
      BY <2>6 DEF StoreByte
    <3>2. ReaderOwnsTail'
      BY <3>1 DEF ReaderOwnsTail
    <3>3. Accounted'
      <4>1. rxne /\ ~rxne' /\ UNCHANGED <<arrived, received, overruns, flushed>>
        BY DEF IsrKnows
      <4>2. Fill \in Int /\ Fill' = Fill
        BY <3>1 DEF TypeData, Fill, Offset, Slots
      <4> HIDE <1>3 DEF IsrReceive
      <4> QED
        BY <3>1, <4>1, <4>2 DEF Accounted, TypeData
    <3>4. LineOrder'
      BY <3>1 DEF LineOrder, Held, Fill, Offset
    <3> QED
      BY <2>1, <2>2, <2>3, <2>4, <3>2, <3>3, <3>4
  <2> QED
    BY <2>5, <2>6
<1>4. CASE ErrorCallback
  <2> USE <1>4 DEF ErrorCallback, ClearOreFlag, halVars, ringVars, mainVars
  <2>1. TypeData'
    BY DEF TypeData
  <2>2. TypeFlags' /\ AlwaysArmed' /\ ReaderOwnsTail' /\ ReceivedInOrder'
    BY Zenon DEF TypeFlags, AlwaysArmed, ReaderOwnsTail, ReceivedInOrder
  <2>3. IsrKnows'
    BY DEF IsrKnows
  <2>4. LineOrder'
    BY DEF LineOrder, Held, Fill, Offset
  <2>5. Accounted'
    <3>1. Fill \in Int /\ Fill' = Fill /\ Len(received) \in Nat
      BY DEF TypeData, Fill, Offset, Slots
    <3>2. /\ UNCHANGED <<arrived, received, dropCount, overruns>> /\ ~rxne'
          /\ flushed' = flushed + (IF rxne THEN 1 ELSE 0)
      OBVIOUS
    <3>3. (IF rxne THEN 1 ELSE 0) \in Nat /\ (IF rxne' THEN 1 ELSE 0) = 0
      BY <3>2
    <3> HIDE <1>4 DEF ErrorCallback, ClearOreFlag
    <3>4. arrived \in Int /\ dropCount \in Int /\ overruns \in Int /\ flushed \in Int
      BY DEF TypeData
    <3> QED
      BY <3>1, <3>2, <3>3, <3>4 DEF Accounted
  <2>6. FlushesPaid'
    BY DEF FlushesPaid, Owed, TypeData
  <2> QED
    BY <2>1, <2>2, <2>3, <2>4, <2>5, <2>6
<1>5. CASE CheckEmpty
  <2> USE <1>5 DEF CheckEmpty, hwVars, halVars, isrVars, ringVars, lossVars
  <2>1. TypeData'
    BY DEF TypeData
  <2>2. TypeFlags' /\ AlwaysArmed' /\ ReaderOwnsTail' /\ ReceivedInOrder' /\ IsrKnows'
    BY Zenon DEF TypeFlags, AlwaysArmed, ReaderOwnsTail, ReceivedInOrder, IsrKnows
  <2>3. LineOrder' /\ Accounted' /\ FlushesPaid'
    BY DEF LineOrder, Accounted, FlushesPaid, Owed, Held, Fill, Offset
  <2> QED
    BY <2>1, <2>2, <2>3
<1>6. CASE ReadSlot
  <2> USE <1>6 DEF ReadSlot, hwVars, halVars, isrVars, ringVars, lossVars
  <2>1. TypeData'
    BY DEF TypeData
  <2>2. TypeFlags' /\ AlwaysArmed' /\ ReaderOwnsTail' /\ ReceivedInOrder' /\ IsrKnows'
    BY Zenon DEF TypeFlags, AlwaysArmed, ReaderOwnsTail, ReceivedInOrder, IsrKnows
  <2>3. LineOrder' /\ Accounted' /\ FlushesPaid'
    BY DEF LineOrder, Accounted, FlushesPaid, Owed, Held, Fill, Offset
  <2> QED
    BY <2>1, <2>2, <2>3
<1>7. CASE AdvanceTail
  <2> USE <1>7 DEF AdvanceTail, hwVars, halVars, isrVars, lossVars
  <2>1. /\ tail = rxTail /\ rxHead # rxTail /\ outByte = buffer[rxTail]
        /\ rxTail \in Slots /\ rxTail' = Succ(rxTail) /\ rxHead' = rxHead
    BY DEF ReaderOwnsTail, TypeData
  <2>2. /\ Fill' = Fill - 1 /\ Held(rxTail) /\ Offset(rxTail) = 0
        /\ \A i \in Slots : Held(i)' => Held(i) /\ i # rxTail /\ Offset(i)' = Offset(i) - 1
    BY <2>1, AdvanceShrinks
  <2>3. /\ received \in Seq(0..MaxBytes) /\ Len(received) \in Nat
        /\ Len(received') = Len(received) + 1
        /\ received'[Len(received) + 1] = buffer[rxTail]
        /\ \A k \in 1..Len(received) : received'[k] = received[k]
    BY <2>1 DEF TypeData
  <2>4. TypeData'
    <3>1. Succ(rxTail) \in Slots
      BY <2>1, SuccInRing
    <3> QED
      BY <3>1, <2>1 DEF TypeData
  <2>5. TypeFlags' /\ AlwaysArmed' /\ ReaderOwnsTail' /\ IsrKnows'
    BY Zenon DEF TypeFlags, AlwaysArmed, ReaderOwnsTail, IsrKnows
  <2>6. ReceivedInOrder'
    <3>1. \A k \in 1..Len(received) : 0 < received[k] /\ received[k] < buffer[rxTail]
      BY <2>1, <2>2 DEF LineOrder
    <3> QED
      BY <2>3, <3>1 DEF ReceivedInOrder
  <2>7. LineOrder'
    <3>1. UNCHANGED <<arrived, dr, rxne, buffer>>
      OBVIOUS
    <3> HIDE <1>7 DEF AdvanceTail
    <3>2. ASSUME NEW k \in 1..Len(received')
          PROVE  /\ 0 < received'[k] /\ received'[k] <= arrived'
                 /\ rxne' => received'[k] < dr'
                 /\ \A i \in Slots : Held(i)' => received'[k] < buffer'[i]
      <4>1. CASE k = Len(received) + 1
        <5>1. \A i \in Slots : Held(i)' => Held(i) /\ Offset(i) > 0
          BY <2>1, <2>2 DEF Offset, Slots
        <5> QED
          BY <2>1, <2>2, <2>3, <3>1, <4>1, <5>1 DEF LineOrder
      <4>2. CASE k \in 1..Len(received)
        BY <2>2, <2>3, <3>1, <4>2 DEF LineOrder
      <4> QED
        BY <2>3, <4>1, <4>2
    <3>3. ASSUME NEW i \in Slots, Held(i)'
          PROVE  /\ 0 < buffer'[i] /\ buffer'[i] <= arrived'
                 /\ rxne' => buffer'[i] < dr'
      BY <2>2, <3>1, <3>3 DEF LineOrder
    <3>4. ASSUME NEW i \in Slots, Held(i)', NEW j \in Slots, Held(j)', Offset(i)' < Offset(j)'
          PROVE  buffer'[i] < buffer'[j]
      <4>1. Offset(i) \in Int /\ Offset(j) \in Int
        BY <2>1 DEF Offset, Slots
      <4> QED
        BY <2>2, <3>1, <3>4, <4>1 DEF LineOrder
    <3>5. rxne' => 0 < dr' /\ dr' <= arrived'
      BY <3>1 DEF LineOrder
    <3> QED
      BY <3>2, <3>3, <3>4, <3>5 DEF LineOrder
  <2>8. Accounted'
    <3>1. rxne' = rxne /\ UNCHANGED <<arrived, overruns, flushed, dropCount>>
      OBVIOUS
    <3>2. Fill \in Int
      BY DEF TypeData, Fill, Offset, Slots
    <3> HIDE <1>7 DEF AdvanceTail
    <3> QED
      BY <2>2, <2>3, <3>1, <3>2 DEF Accounted, TypeData
  <2>9. FlushesPaid'
    BY DEF FlushesPaid, Owed
  <2> QED
    BY <2>4, <2>5, <2>6, <2>7, <2>8, <2>9
<1>8. CASE UNCHANGED vars
  <2> USE <1>8 DEF vars, hwVars, halVars, isrVars, ringVars, mainVars, lossVars
  <2>1. TypeFlags' /\ TypeData' /\ AlwaysArmed' /\ IsrKnows'
    BY Zenon DEF TypeFlags, TypeData, AlwaysArmed, IsrKnows
  <2>2. ReaderOwnsTail' /\ LineOrder' /\ ReceivedInOrder' /\ Accounted' /\ FlushesPaid'
    BY DEF ReaderOwnsTail, LineOrder, ReceivedInOrder, Accounted, FlushesPaid, Owed, Held, Fill, Offset
  <2> QED
    BY <2>1, <2>2
<1> QED
  BY <1>1, <1>2, <1>3, <1>4, <1>5, <1>6, <1>7, <1>8 DEF Next, Isr, ReceiveByte

LEMMA InductiveInvariant == Spec => []IInv
BY InitIInv, StepIInv, PTL DEF Spec
-----------------------------------------------------------------------------
\* The indices, the states of the HAL and the bytes keep their ranges.
THEOREM TypeCorrect == Spec => []TypeOK
<1>1. IInv => TypeOK
  BY DEF IInv, TypeFlags, TypeData, TypeOK
<1> QED
  BY <1>1, InductiveInvariant, PTL

\* The application gets the bytes in line order and none of them twice: the
\* interrupt never overwrites the slot the main loop is reading.
THEOREM OrderCorrect == Spec => []ReceivedInOrder
<1>1. IInv => ReceivedInOrder
  BY DEF IInv
<1> QED
  BY <1>1, InductiveInvariant, PTL

\* No error path of the interrupt leaves the receiver disarmed.
THEOREM ReceiverArmed == Spec => []NeverDeaf
<1>1. IInv => NeverDeaf
  BY DEF IInv, AlwaysArmed, NeverDeaf
<1> QED
  BY <1>1, InductiveInvariant, PTL

\* What the drop counter does not account for is at most two bytes for an
\* overrun and one for a framing or noise error: on a line without errors
\* every byte is received, pending or counted.
THEOREM LossCounted == Spec => []LossIsCounted
<1>1. ASSUME IInv PROVE LossIsCounted
  <2>0. Pending = Fill
    BY <1>1, PendingIsFill DEF IInv
  <2>1. Fill \in Int /\ Pending = Fill /\ Len(received) \in Nat
    BY <1>1, <2>0 DEF IInv, TypeData, Fill, Offset, Slots
  <2>2. Uncounted = overruns + flushed
    BY <1>1, <2>1 DEF IInv, TypeData, Accounted, Uncounted
  <2>3. flushed <= overruns + lineErrors
    BY <1>1 DEF IInv, TypeData, FlushesPaid, Owed
  <2> QED
    BY <1>1, <2>2, <2>3 DEF IInv, TypeData, LossIsCounted
<1> QED
  BY <1>1, InductiveInvariant, PTL
-----------------------------------------------------------------------------
(* Induction.                                                              *)

\* A set with 0 and every successor is Nat: the numbers up to which all belong
\* to it would else be finitely many, and yet as many as they are without 0.
LEMMA NatIsLeast ==
  ASSUME NEW T \in SUBSET Nat, 0 \in T, \A n \in T : n + 1 \in T
  PROVE  T = Nat
<1> SUFFICES ASSUME NEW top \in Nat, top \notin T PROVE FALSE
  OBVIOUS
<1> DEFINE S == {n \in T : \A m \in 0..n : m \in T}
<1> DEFINE succ == [n \in S |-> n + 1]
<1>1. S \in SUBSET (0..top) /\ 0 \in S
  <2>1. ASSUME NEW n \in S PROVE n \in 0..top
    <3>1. n \in Nat /\ top \notin 0..n
      OBVIOUS
    <3> QED
      BY <3>1
  <2>2. \A m \in 0..0 : m = 0
    OBVIOUS
  <2>3. 0 \in S
    BY <2>2
  <2> HIDE DEF S
  <2> QED
    BY <2>1, <2>3
<1>2. \A n \in S : n + 1 \in S
  <2> TAKE n \in S
  <2>1. \A m \in 0..(n + 1) : m \in 0..n \/ m = n + 1
    OBVIOUS
  <2> QED
    BY <2>1
<1>3. \A n \in S \ {0} : n - 1 \in S
  OBVIOUS
<1> HIDE DEF S
<1>4. IsFiniteSet(S)
  <2>1. IsFiniteSet(0..top)
    BY FS_Interval
  <2> QED
    BY <1>1, <2>1, FS_Subset
<1>5. succ \in Bijection(S, S \ {0})
  <2>1. succ \in [S -> S \ {0}]
    BY <1>1, <1>2
  <2>2. \A m, n \in S : succ[m] = succ[n] => m = n
    BY <1>1
  <2>3. \A n \in S \ {0} : \E m \in S : succ[m] = n
    <3> TAKE n \in S \ {0}
    <3>1. n - 1 \in S /\ succ[n - 1] = n
      BY <1>1, <1>3
    <3> QED
      BY <3>1
  <2> QED
    BY <2>1, <2>2, <2>3 DEF Bijection, Injection, Surjection, IsInjective
<1>6. Cardinality(S \ {0}) = Cardinality(S)
  BY <1>4, <1>5, FS_Bijection DEF ExistsBijection
<1> QED
  <2>1. Cardinality(S) \in Nat
    BY <1>4, FS_CardinalityType
  <2>2. Cardinality(S \ {0}) = Cardinality(S) - 1
    BY <1>1, <1>4, FS_RemoveElement
  <2> QED
    BY <1>6, <2>1, <2>2

\* Induction up to a bound.
LEMMA UpTo ==
  ASSUME NEW k \in Nat, NEW T, 0 \in T, \A n \in 0..(k - 1) : n \in T => n + 1 \in T
  PROVE  0..k \subseteq T
<1> DEFINE U == {n \in Nat : n <= k => n \in T}
<1>1. U = Nat
  <2>1. \A n \in U : n + 1 \in U
    OBVIOUS
  <2>2. U \in SUBSET Nat /\ 0 \in U
    OBVIOUS
  <2> HIDE DEF U
  <2> QED
    BY <2>1, <2>2, NatIsLeast
<1> QED
  BY <1>1

\* Every set of numbers that is not empty has a least one.
LEMMA Least ==
  ASSUME NEW T \in SUBSET Nat, T # {}
  PROVE  \E n \in T : \A m \in T : n <= m
<1> SUFFICES ASSUME \A n \in T : \E m \in T : m < n PROVE FALSE
  OBVIOUS
<1> DEFINE U == {n \in Nat : \A m \in 0..n : m \notin T}
<1>1. 0 \in U
  <2>1. \A m \in 0..0 : m = 0
    OBVIOUS
  <2> QED
    BY <2>1
<1>2. \A n \in U : n + 1 \in U
  <2> TAKE n \in U
  <2>1. n + 1 \notin T
    OBVIOUS
  <2>2. \A m \in 0..(n + 1) : m \in 0..n \/ m = n + 1
    OBVIOUS
  <2> QED
    BY <2>1, <2>2
<1>3. U = Nat
  <2> U \in SUBSET Nat
    OBVIOUS
  <2> HIDE DEF U
  <2> QED
    BY <1>1, <1>2, NatIsLeast
<1> QED
  <2> PICK n \in T : TRUE
    OBVIOUS
  <2>1. n \in U /\ n \in 0..n
    BY <1>3
  <2> QED
    BY <2>1

-----------------------------------------------------------------------------
(* Bytes, sequences and frames.                                            *)

\* The sizes and the values of bytes as numbers.
LEMMA ValuesAre ==
  /\ MaxPayload \in Nat /\ MaxPayload >= 1
  /\ Oversized = MaxPayload + 1 /\ SOF0 = MaxPayload + 2 /\ SOF1 = MaxPayload + 3
  /\ Other = MaxPayload + 4
  /\ HeaderSize = 3 /\ CrcSize = 1 /\ PingPayload = 1 /\ PingSize = 5
  /\ MaxFrameSize = MaxPayload + 4
BY DecoderAssumption DEF Oversized, SOF0, SOF1, Other, HeaderSize, CrcSize, PingPayload,
  PingSize, MaxFrameSize, FrameSize

\* The range of a byte.
LEMMA ByteIs == ASSUME NEW x \in Bytes PROVE x.value \in 0..(MaxPayload + 4)
BY DecoderAssumption DEF Bytes, Values, Other

\* A function on 1..n is a sequence.
LEMMA FunctionIsSequence ==
  ASSUME NEW n \in Nat, NEW S, NEW f \in [1..n -> S]
  PROVE  f \in Seq(S) /\ Len(f) = n
OBVIOUS

\* The end of a sequence, element by element.
LEMMA FromIs ==
  ASSUME NEW s \in Seq(Bytes), NEW j \in 1..(Len(s) + 1)
  PROVE  /\ From(s, j) \in Seq(Bytes) /\ Len(From(s, j)) = Len(s) - j + 1
         /\ \A i \in 1..(Len(s) - j + 1) : From(s, j)[i] = s[i + j - 1]
BY DEF From

\* One more byte, element by element.
LEMMA AppendIs ==
  ASSUME NEW b \in Seq(Bytes), NEW x \in Bytes
  PROVE  /\ Append(b, x) \in Seq(Bytes) /\ Len(Append(b, x)) = Len(b) + 1
         /\ \A i \in 1..Len(b) : Append(b, x)[i] = b[i]
         /\ Append(b, x)[Len(b) + 1] = x
OBVIOUS

\* Bytes that come behind a header do not change what it says.
LEMMA ConcatIs ==
  ASSUME NEW s \in Seq(Bytes), NEW t \in Seq(Bytes)
  PROVE  /\ s \o t \in Seq(Bytes) /\ Len(s \o t) = Len(s) + Len(t)
         /\ \A i \in 1..Len(s) : (s \o t)[i] = s[i]
         /\ \A i \in 1..Len(t) : (s \o t)[Len(s) + i] = t[i]
         /\ \A j \in 1..(Len(s) + 1) : From(s \o t, j) = From(s, j) \o t
<1>1. /\ s \o t \in Seq(Bytes) /\ Len(s \o t) = Len(s) + Len(t)
      /\ \A i \in 1..Len(s) : (s \o t)[i] = s[i]
      /\ \A i \in 1..Len(t) : (s \o t)[Len(s) + i] = t[i]
  OBVIOUS
<1>2. ASSUME NEW j \in 1..(Len(s) + 1) PROVE From(s \o t, j) = From(s, j) \o t
  <2> DEFINE st == s \o t
             f == From(s, j)
             l == From(st, j)
             r == f \o t
  <2>1. st \in Seq(Bytes) /\ Len(st) = Len(s) + Len(t)
    BY <1>1
  <2>2. j \in 1..(Len(st) + 1)
    BY <2>1
  <2>3. l \in Seq(Bytes) /\ Len(l) = Len(s) + Len(t) - j + 1 /\ \A i \in 1..(Len(st) - j + 1) : l[i] = st[i + j - 1]
    <3> HIDE DEF st
    <3>1. From(st, j) \in Seq(Bytes) /\ Len(From(st, j)) = Len(st) - j + 1
          /\ \A i \in 1..(Len(st) - j + 1) : From(st, j)[i] = st[i + j - 1]
      BY <2>1, <2>2, FromIs
    <3> QED
      BY <2>1, <3>1
  <2>4. /\ f \in Seq(Bytes) /\ Len(f) = Len(s) - j + 1
        /\ \A i \in 1..(Len(s) - j + 1) : f[i] = s[i + j - 1]
    BY FromIs
  <2> HIDE DEF f
  <2>5. r \in Seq(Bytes) /\ Len(r) = Len(s) - j + 1 + Len(t)
    <3>1. r \in Seq(Bytes) /\ Len(r) = Len(f) + Len(t)
      BY <2>4, ConcatProperties
    <3> QED
      BY <2>4, <3>1
  <2>6. \A i \in 1..Len(l) : l[i] = r[i]
    <3> TAKE i \in 1..Len(l)
    <3>1. i \in 1..(Len(st) - j + 1)
      BY <2>1, <2>3
    <3>2. l[i] = st[i + j - 1]
      BY <2>3, <3>1
    <3>3. CASE i <= Len(s) - j + 1
      <4>1. i + j - 1 \in 1..Len(s) /\ i \in 1..Len(f)
        BY <2>4, <3>1, <3>3
      <4>2. st[i + j - 1] = s[i + j - 1]
        BY <1>1, <4>1
      <4>3. r[i] = f[i] /\ f[i] = s[i + j - 1]
        BY <2>4, <3>3, <4>1
      <4> QED
        BY <3>2, <4>2, <4>3
    <3>4. CASE ~(i <= Len(s) - j + 1)
      <4> DEFINE m == i - (Len(s) - j + 1)
      <4>1. m \in 1..Len(t) /\ i + j - 1 = Len(s) + m
        BY <2>1, <3>1, <3>4
      <4>2. st[i + j - 1] = t[m]
        BY <1>1, <4>1
      <4>3. r[i] = t[m]
        BY <2>4, <3>4, <4>1
      <4> QED
        BY <3>2, <4>2, <4>3
    <3> QED
      BY <3>3, <3>4
  <2> HIDE DEF l, r
  <2>7. Len(l) = Len(r)
    BY <2>3, <2>5
  <2>8. l = r
    BY <2>3, <2>5, <2>6, <2>7, SeqEqual
  <2> QED
    BY <2>8 DEF l, r, st, f
<1> QED
  BY <1>1, <1>2

\* Without a start no two neighbours are a SOF.
LEMMA StartsIs ==
  ASSUME NEW s \in Seq(Bytes), Starts(s) = {}
  PROVE  \A i \in 1..(Len(s) - 1) : ~(s[i].value = SOF0 /\ s[i + 1].value = SOF1)
BY DEF Starts

\* The first start of a frame is one, and none comes before it.
LEMMA FirstStart ==
  ASSUME NEW s \in Seq(Bytes), Starts(s) # {}
  PROVE  LET j == Min(Starts(s)) IN
         /\ j \in 1..(Len(s) - 1) /\ s[j].value = SOF0 /\ s[j + 1].value = SOF1
         /\ \A i \in 1..(j - 1) : ~(s[i].value = SOF0 /\ s[i + 1].value = SOF1)
<1> DEFINE T == Starts(s)
<1>1. T \in SUBSET Nat
  BY DEF Starts
<1>2. PICK j \in T : \A m \in T : j <= m
  BY <1>1, Least
<1>3. Min(T) \in T /\ \A m \in T : Min(T) <= m
  BY <1>2 DEF Min
<1>4. \A i : i \in T <=> i \in 1..(Len(s) - 1) /\ s[i].value = SOF0 /\ s[i + 1].value = SOF1
  BY DEF Starts
<1> HIDE DEF T
<1>5. \A i \in 1..(Min(T) - 1) : i \notin T /\ i \in 1..(Len(s) - 1)
  BY <1>1, <1>3, <1>4
<1>6. Min(T) \in 1..(Len(s) - 1) /\ s[Min(T)].value = SOF0 /\ s[Min(T) + 1].value = SOF1
  BY <1>3, <1>4
<1> QED
  BY <1>4, <1>5, <1>6 DEF T

\* A start with none before it is the first.
LEMMA MinIs ==
  ASSUME NEW s \in Seq(Bytes), NEW j \in 1..(Len(s) - 1), s[j].value = SOF0, s[j + 1].value = SOF1,
         \A i \in 1..(j - 1) : ~(s[i].value = SOF0 /\ s[i + 1].value = SOF1)
  PROVE  Starts(s) # {} /\ Min(Starts(s)) = j
<1>1. j \in Starts(s)
  BY DEF Starts
<1>2. Min(Starts(s)) \in 1..(Len(s) - 1) /\ s[Min(Starts(s))].value = SOF0 /\ s[Min(Starts(s)) + 1].value = SOF1
      /\ \A i \in 1..(Min(Starts(s)) - 1) : ~(s[i].value = SOF0 /\ s[i + 1].value = SOF1)
  BY <1>1, FirstStart
<1>3. ~(Min(Starts(s)) < j) /\ ~(j < Min(Starts(s)))
  BY <1>2
<1> QED
  BY <1>1, <1>2, <1>3

\* The size a header announces.
Announced(b) == FrameSize(b[3].value)

\* An acceptable header announces no more than fits a buffer.
LEMMA AnnouncedIs ==
  ASSUME NEW b \in Seq(Bytes), Len(b) >= HeaderSize, ~BadHeader(b)
  PROVE  b[3].value \in 0..MaxPayload /\ Announced(b) = b[3].value + 4 /\ Announced(b) \in 4..MaxFrameSize
<1>1. b[3] \in Bytes
  BY ValuesAre
<1>2. b[3].value \in 0..(MaxPayload + 4)
  BY <1>1, ByteIs
<1>3. ~(b[3].value >= MaxPayload + 1)
  BY ValuesAre DEF BadHeader
<1>4. b[3].value \in 0..MaxPayload
  BY <1>2, <1>3, ValuesAre
<1>5. Announced(b) = b[3].value + 4
  BY <1>4 DEF Announced, FrameSize, HeaderSize, CrcSize
<1> QED
  BY <1>4, <1>5, ValuesAre

\* The bytes of a ping.
LEMMA PingIs ==
  /\ Ping \in Seq(Bytes) /\ Len(Ping) = 5
  /\ \A i \in 1..5 : Ping[i] \in Bytes /\ Ping[i].place = i /\ Ping[i].size = 5
  /\ Ping[1].value = SOF0 /\ Ping[2].value = SOF1 /\ Ping[3].value = 1
  /\ Ping[4].value = Other /\ Ping[5].value = SOF0
<1> DEFINE value(i) == CASE i = 1 -> SOF0 [] i = 2 -> SOF1 [] i = 3 -> PingPayload
                         [] i = FrameSize(PingPayload) -> SOF0 [] OTHER -> Other
<1>1. FrameSize(PingPayload) = 5
  BY DEF FrameSize, PingPayload, HeaderSize, CrcSize
<1>2. Ping = [i \in 1..5 |-> [value |-> value(i), place |-> i, size |-> 5]]
  BY <1>1 DEF Ping, Frame
<1>3. value(1) = SOF0 /\ value(2) = SOF1 /\ value(3) = 1 /\ value(4) = Other /\ value(5) = SOF0
  BY <1>1, ValuesAre
<1> HIDE DEF value
<1>4. \A i \in 1..5 : i = 1 \/ i = 2 \/ i = 3 \/ i = 4 \/ i = 5
  OBVIOUS
<1>5. \A i \in 1..5 : value(i) \in Values
  <2>1. SOF0 \in Values /\ SOF1 \in Values /\ 1 \in Values /\ Other \in Values
    BY ValuesAre DEF Values
  <2> QED
    BY <1>3, <1>4, <2>1
<1>6. \A i \in 1..5 : i \in 0..MaxFrameSize
  BY ValuesAre
<1>7. \A i \in 1..5 : [value |-> value(i), place |-> i, size |-> 5] \in Bytes
  <2>1. 5 \in 1..5
    OBVIOUS
  <2> QED
    BY <1>5, <1>6, <2>1 DEF Bytes
<1>8. Ping \in Seq(Bytes) /\ Len(Ping) = 5
  <2>1. Ping \in [1..5 -> Bytes]
    BY <1>2, <1>7
  <2>2. 5 \in Nat
    OBVIOUS
  <2> QED
    BY <2>1, <2>2, FunctionIsSequence
<1>9. \A i \in 1..5 : Ping[i] \in Bytes /\ Ping[i].value = value(i) /\ Ping[i].place = i /\ Ping[i].size = 5
  BY <1>2, <1>7
<1> QED
  BY <1>3, <1>8, <1>9

\* Pings(k) byte by byte.
LEMMA PingsAre ==
  ASSUME NEW k \in Nat
  PROVE  /\ Pings(k) \in Seq(Bytes) /\ Len(Pings(k)) = 5 * k
         /\ \A q \in 0..(k - 1), o \in 1..5 : Pings(k)[5 * q + o] = Ping[o]
<1>1. Pings(k) = [i \in 1..(5 * k) |-> Ping[((i - 1) % 5) + 1]]
  <2>1. k * PingSize = 5 * k /\ PingSize = 5
    BY ValuesAre
  <2> QED
    BY <2>1 DEF Pings
<1>2. \A i \in 1..(5 * k) : ((i - 1) % 5) + 1 \in 1..5
  OBVIOUS
<1>3. Pings(k) \in [1..(5 * k) -> Bytes]
  BY <1>1, <1>2, PingIs
<1>4. Pings(k) \in Seq(Bytes) /\ Len(Pings(k)) = 5 * k
  BY <1>3
<1>5. ASSUME NEW q \in 0..(k - 1), NEW o \in 1..5 PROVE Pings(k)[5 * q + o] = Ping[o]
  <2>1. 5 * q + o \in 1..(5 * k) /\ ((5 * q + o - 1) % 5) + 1 = o
    OBVIOUS
  <2> QED
    BY <1>1, <2>1
<1> QED
  BY <1>4, <1>5

\* The stream of noise and k pings.
LEMMA StreamIs ==
  ASSUME NEW noise \in Seq(Bytes), NEW k \in Nat
  PROVE  LET s == noise \o Pings(k) IN
         /\ s \in Seq(Bytes) /\ Len(s) = Len(noise) + 5 * k
         /\ \A i \in 1..Len(noise) : s[i] = noise[i]
         /\ \A q \in 0..(k - 1), o \in 1..5 : s[Len(noise) + 5 * q + o] = Ping[o]
<1> DEFINE p == Pings(k)
           s == noise \o p
<1>1. p \in Seq(Bytes) /\ Len(p) = 5 * k /\ \A q \in 0..(k - 1), o \in 1..5 : p[5 * q + o] = Ping[o]
  BY PingsAre
<1> HIDE DEF p
<1>2. /\ s \in Seq(Bytes) /\ Len(s) = Len(noise) + Len(p)
      /\ \A i \in 1..Len(noise) : s[i] = noise[i]
      /\ \A i \in 1..Len(p) : s[Len(noise) + i] = p[i]
  BY <1>1, ConcatIs
<1> HIDE DEF s
<1>3. ASSUME NEW q \in 0..(k - 1), NEW o \in 1..5 PROVE s[Len(noise) + 5 * q + o] = Ping[o]
  <2>1. 5 * q + o \in 1..Len(p) /\ Len(noise) + 5 * q + o = Len(noise) + (5 * q + o)
    BY <1>1
  <2>2. s[Len(noise) + (5 * q + o)] = p[5 * q + o]
    BY <1>2, <2>1
  <2> QED
    BY <1>1, <2>1, <2>2
<1> QED
  BY <1>1, <1>2, <1>3 DEF s, p

-----------------------------------------------------------------------------
(* The decoder of the MP157 is what its recursion says.                    *)

\* From the first start of a frame on.
Framed(s) == From(s, Min(Starts(s)))

\* What begins at the first start begins with the two bytes of a SOF.
LEMMA FramedIs ==
  ASSUME NEW s \in Seq(Bytes), Starts(s) # {}
  PROVE  /\ Framed(s) \in Seq(Bytes) /\ Len(Framed(s)) \in 2..Len(s)
         /\ Framed(s)[1].value = SOF0 /\ Framed(s)[2].value = SOF1
<1> DEFINE j == Min(Starts(s))
<1>1. j \in 1..(Len(s) - 1) /\ s[j].value = SOF0 /\ s[j + 1].value = SOF1
  BY FirstStart
<1> HIDE DEF j
<1>2. /\ From(s, j) \in Seq(Bytes) /\ Len(From(s, j)) = Len(s) - j + 1
      /\ \A i \in 1..(Len(s) - j + 1) : From(s, j)[i] = s[i + j - 1]
  BY <1>1, FromIs
<1>3. From(s, j)[1] = s[j] /\ From(s, j)[2] = s[j + 1]
  BY <1>1, <1>2
<1> QED
  BY <1>1, <1>2, <1>3 DEF Framed, j

\* DecodedStep(f, s) is the body of the recursion.
DecodedStep(f, s) ==
  LET b == From(s, Min(Starts(s)))
      n == FrameSize(b[3].value)
      rest == f[From(b, n + 1)] IN
  CASE Starts(s) = {} -> [buffer |-> HalfSof(s), frames |-> <<>>]
    [] Starts(s) # {} /\ Len(b) < HeaderSize -> [buffer |-> b, frames |-> <<>>]
    [] Starts(s) # {} /\ Len(b) >= HeaderSize /\ BadHeader(b) -> f[Tail(b)]
    [] OTHER -> IF Len(b) < n THEN [buffer |-> b, frames |-> <<>>]
                ELSE [buffer |-> rest.buffer, frames |-> <<SubSeq(b, 1, n)>> \o rest.frames]

\* The four ways of a step.
LEMMA StepCases ==
  ASSUME NEW f, NEW s \in Seq(Bytes)
  PROVE  /\ Starts(s) = {} => DecodedStep(f, s) = [buffer |-> HalfSof(s), frames |-> <<>>]
         /\ Starts(s) # {} =>
              LET b == Framed(s) IN
              /\ Len(b) < HeaderSize => DecodedStep(f, s) = [buffer |-> b, frames |-> <<>>]
              /\ Len(b) >= HeaderSize /\ BadHeader(b) => DecodedStep(f, s) = f[Tail(b)]
              /\ Len(b) >= HeaderSize /\ ~BadHeader(b) /\ Len(b) < Announced(b) =>
                   DecodedStep(f, s) = [buffer |-> b, frames |-> <<>>]
              /\ Len(b) >= HeaderSize /\ ~BadHeader(b) /\ Len(b) >= Announced(b) =>
                   DecodedStep(f, s) =
                     [buffer |-> f[From(b, Announced(b) + 1)].buffer,
                      frames |-> <<SubSeq(b, 1, Announced(b))>> \o f[From(b, Announced(b) + 1)].frames]
<1>1. Starts(s) = {} => DecodedStep(f, s) = [buffer |-> HalfSof(s), frames |-> <<>>]
  BY DEF DecodedStep
<1>2. ASSUME Starts(s) # {}
      PROVE  LET b == Framed(s) IN
              /\ Len(b) < HeaderSize => DecodedStep(f, s) = [buffer |-> b, frames |-> <<>>]
              /\ Len(b) >= HeaderSize /\ BadHeader(b) => DecodedStep(f, s) = f[Tail(b)]
              /\ Len(b) >= HeaderSize /\ ~BadHeader(b) /\ Len(b) < Announced(b) =>
                   DecodedStep(f, s) = [buffer |-> b, frames |-> <<>>]
              /\ Len(b) >= HeaderSize /\ ~BadHeader(b) /\ Len(b) >= Announced(b) =>
                   DecodedStep(f, s) =
                     [buffer |-> f[From(b, Announced(b) + 1)].buffer,
                      frames |-> <<SubSeq(b, 1, Announced(b))>> \o f[From(b, Announced(b) + 1)].frames]
  <2> DEFINE b == Framed(s)
  <2>1. b \in Seq(Bytes) /\ Len(b) \in Nat
    BY <1>2, FramedIs
  <2>2. Len(b) >= HeaderSize /\ ~BadHeader(b) => Announced(b) \in Nat
    BY <2>1, AnnouncedIs, ValuesAre
  <2>3. DecodedStep(f, s) =
          CASE Starts(s) = {} -> [buffer |-> HalfSof(s), frames |-> <<>>]
            [] Starts(s) # {} /\ Len(b) < HeaderSize -> [buffer |-> b, frames |-> <<>>]
            [] Starts(s) # {} /\ Len(b) >= HeaderSize /\ BadHeader(b) -> f[Tail(b)]
            [] OTHER -> IF Len(b) < Announced(b) THEN [buffer |-> b, frames |-> <<>>]
                ELSE [buffer |-> f[From(b, Announced(b) + 1)].buffer,
                      frames |-> <<SubSeq(b, 1, Announced(b))>> \o f[From(b, Announced(b) + 1)].frames]
    BY DEF DecodedStep, Framed, Announced
  <2> HIDE DEF b
  <2>4. /\ Len(b) < HeaderSize => DecodedStep(f, s) = [buffer |-> b, frames |-> <<>>]
        /\ Len(b) >= HeaderSize /\ BadHeader(b) => DecodedStep(f, s) = f[Tail(b)]
    BY <1>2, <2>1, <2>3, ValuesAre
  <2>5. ~(Len(b) < HeaderSize) /\ ~BadHeader(b) =>
          DecodedStep(f, s) = IF Len(b) < Announced(b) THEN [buffer |-> b, frames |-> <<>>]
                ELSE [buffer |-> f[From(b, Announced(b) + 1)].buffer,
                      frames |-> <<SubSeq(b, 1, Announced(b))>> \o f[From(b, Announced(b) + 1)].frames]
    BY <1>2, <2>3
  <2>6. /\ Len(b) >= HeaderSize <=> ~(Len(b) < HeaderSize)
        /\ Len(b) >= HeaderSize /\ ~BadHeader(b) => (Len(b) >= Announced(b) <=> ~(Len(b) < Announced(b)))
    <3>1. \A m, n \in Nat : m >= n <=> ~(m < n)
      OBVIOUS
    <3>2. HeaderSize \in Nat
      BY ValuesAre
    <3> HIDE DEF b
    <3> QED
      BY <2>1, <2>2, <3>1, <3>2
  <2> QED
    BY <2>4, <2>5, <2>6 DEF b
<1> QED
  BY <1>1, <1>2, Zenon

\* What a step needs of the recursion is about shorter sequences.
LEMMA StepDepends ==
  ASSUME NEW f, NEW g, NEW s \in Seq(Bytes),
         \A t \in Seq(Bytes) : Len(t) < Len(s) => f[t] = g[t]
  PROVE  DecodedStep(f, s) = DecodedStep(g, s)
<1>1. CASE Starts(s) = {}
  BY <1>1, StepCases
<1>2. CASE Starts(s) # {}
  <2> DEFINE b == Framed(s)
  <2>1. b \in Seq(Bytes) /\ Len(b) \in 2..Len(s)
    BY <1>2, FramedIs
  <2> HIDE DEF b
  <2>2. Tail(b) \in Seq(Bytes) /\ Len(Tail(b)) < Len(s)
    BY <2>1
  <2>3. CASE Len(b) >= HeaderSize /\ ~BadHeader(b) /\ Len(b) >= Announced(b)
    <3>1. Announced(b) \in 4..Len(b)
      BY <2>1, <2>3, AnnouncedIs, ValuesAre
    <3>2. From(b, Announced(b) + 1) \in Seq(Bytes) /\ Len(From(b, Announced(b) + 1)) < Len(s)
      BY <2>1, <3>1, FromIs
    <3>3. f[From(b, Announced(b) + 1)] = g[From(b, Announced(b) + 1)]
      BY <3>2
    <3> QED
      BY <1>2, <2>3, <3>3, StepCases DEF b
  <2>4. CASE Len(b) >= HeaderSize /\ BadHeader(b)
    <3>1. f[Tail(b)] = g[Tail(b)]
      BY <2>2
    <3> QED
      BY <1>2, <2>4, <3>1, StepCases DEF b
  <2>5. CASE Len(b) >= HeaderSize /\ ~BadHeader(b) /\ Len(b) < Announced(b)
    BY <1>2, <2>5, StepCases DEF b
  <2>6. CASE Len(b) < HeaderSize
    BY <1>2, <2>6, StepCases DEF b
  <2>7. \/ Len(b) < HeaderSize
        \/ Len(b) >= HeaderSize /\ BadHeader(b)
        \/ Len(b) >= HeaderSize /\ ~BadHeader(b) /\ Len(b) < Announced(b)
        \/ Len(b) >= HeaderSize /\ ~BadHeader(b) /\ Len(b) >= Announced(b)
    <3>1. Len(b) < HeaderSize \/ Len(b) >= HeaderSize
      BY <2>1, ValuesAre
    <3>2. Len(b) >= HeaderSize /\ ~BadHeader(b) => Len(b) < Announced(b) \/ Len(b) >= Announced(b)
      <4> SUFFICES ASSUME Len(b) >= HeaderSize, ~BadHeader(b) PROVE Len(b) < Announced(b) \/ Len(b) >= Announced(b)
        OBVIOUS
      <4>1. Announced(b) \in 4..MaxFrameSize
        BY <2>1, AnnouncedIs
      <4> QED
        BY <2>1, <4>1, ValuesAre
    <3> QED
      BY <3>1, <3>2
  <2> QED
    BY <2>3, <2>4, <2>5, <2>6, <2>7
<1> QED
  BY <1>1, <1>2

\* f obeys the recursion for sequences shorter than n.
Levelled(f, n) == \A s \in Seq(Bytes) : Len(s) < n => f[s] = DecodedStep(f, s)

\* Such a function exists for every n, as a step asks only for what is shorter,
LEMMA LevelledExists == ASSUME NEW n \in Nat PROVE \E f : Levelled(f, n)
<1> DEFINE T == {m \in Nat : \E f : Levelled(f, m)}
<1>1. 0 \in T
  BY DEF Levelled
<1>2. ASSUME NEW m \in T PROVE m + 1 \in T
  <2> PICK f : Levelled(f, m)
    OBVIOUS
  <2> DEFINE g == [s \in Seq(Bytes) |-> DecodedStep(f, s)]
  <2>1. ASSUME NEW s \in Seq(Bytes), Len(s) < m + 1 PROVE g[s] = DecodedStep(g, s)
    <3>1. ASSUME NEW t \in Seq(Bytes), Len(t) < Len(s) PROVE f[t] = g[t]
      <4>1. Len(t) < m
        BY <2>1, <3>1
      <4> QED
        BY <4>1 DEF Levelled
    <3> HIDE DEF g
    <3>2. DecodedStep(f, s) = DecodedStep(g, s)
      BY <3>1, StepDepends
    <3> QED
      BY <3>2 DEF g
  <2> HIDE DEF g
  <2>2. Levelled(g, m + 1)
    BY <2>1 DEF Levelled
  <2> QED
    BY <2>2
<1> HIDE DEF T
<1>3. T = Nat
  <2>1. T \in SUBSET Nat
    BY DEF T
  <2> QED
    BY <1>1, <1>2, <2>1, NatIsLeast
<1> QED
  BY <1>3 DEF T

\* and any two agree there;
LEMMA LevelledUnique ==
  ASSUME NEW n \in Nat, NEW f, NEW g, Levelled(f, n), Levelled(g, n)
  PROVE  \A s \in Seq(Bytes) : Len(s) < n => f[s] = g[s]
<1> DEFINE T == {m \in Nat : \A s \in Seq(Bytes) : Len(s) < n /\ Len(s) < m => f[s] = g[s]}
<1>1. 0 \in T
  OBVIOUS
<1>2. ASSUME NEW m \in T PROVE m + 1 \in T
  <2>1. ASSUME NEW s \in Seq(Bytes), Len(s) < n, Len(s) < m + 1 PROVE f[s] = g[s]
    <3>1. \A t \in Seq(Bytes) : Len(t) < Len(s) => f[t] = g[t]
      BY <2>1
    <3>2. DecodedStep(f, s) = DecodedStep(g, s)
      BY <3>1, StepDepends
    <3> QED
      BY <2>1, <3>2 DEF Levelled
  <2> QED
    BY <2>1
<1>3. T = Nat
  <2>1. T \in SUBSET Nat
    OBVIOUS
  <2> HIDE DEF T
  <2> QED
    BY <1>1, <1>2, <2>1, NatIsLeast
<1> QED
  BY <1>3

\* so Decoded is defined by its recursion.
LEMMA DecodedIs == \A s \in Seq(Bytes) : Decoded[s] = DecodedStep(Decoded, s)
<1> DEFINE at(n) == CHOOSE f : Levelled(f, n)
<1> DEFINE all == [s \in Seq(Bytes) |-> at(Len(s) + 1)[s]]
<1>1. \A n \in Nat : Levelled(at(n), n)
  BY LevelledExists
<1> HIDE DEF at
<1>2. ASSUME NEW s \in Seq(Bytes) PROVE all[s] = DecodedStep(all, s)
  <2>1. ASSUME NEW t \in Seq(Bytes), Len(t) < Len(s) PROVE at(Len(s) + 1)[t] = all[t]
    <3>1. Len(t) + 1 \in Nat /\ Len(s) + 1 \in Nat
      OBVIOUS
    <3>2. Levelled(at(Len(t) + 1), Len(t) + 1) /\ Levelled(at(Len(s) + 1), Len(s) + 1)
      BY <1>1, <3>1
    <3>3. Levelled(at(Len(s) + 1), Len(t) + 1)
      BY <2>1, <3>2 DEF Levelled
    <3> QED
      BY <3>1, <3>2, <3>3, LevelledUnique
  <2>2. Levelled(at(Len(s) + 1), Len(s) + 1)
    BY <1>1
  <2>3. all[s] = DecodedStep(at(Len(s) + 1), s)
    BY <2>2 DEF Levelled
  <2> HIDE DEF all
  <2>4. DecodedStep(at(Len(s) + 1), s) = DecodedStep(all, s)
    BY <2>1, StepDepends
  <2> QED
    BY <2>3, <2>4
<1>3. all = [s \in Seq(Bytes) |-> DecodedStep(all, s)]
  <2> DEFINE other == [s \in Seq(Bytes) |-> DecodedStep(all, s)]
  <2>1. \A s \in Seq(Bytes) : all[s] = other[s]
    <3> HIDE DEF all
    <3> QED
      BY <1>2
  <2> QED
    BY <2>1, Zenon
<1>4. Decoded = CHOOSE f : f = [s \in Seq(Bytes) |-> DecodedStep(f, s)]
  BY DEF Decoded, DecodedStep
<1> HIDE DEF all
<1>5. Decoded = [s \in Seq(Bytes) |-> DecodedStep(Decoded, s)]
  BY <1>3, <1>4
<1> QED
  BY <1>5

\* Induction over the length.
LEMMA ByLength ==
  ASSUME NEW T,
         \A s \in Seq(Bytes) : (\A t \in Seq(Bytes) : Len(t) < Len(s) => t \in T) => s \in T
  PROVE  Seq(Bytes) \subseteq T
<1> DEFINE U == {n \in Nat : \A s \in Seq(Bytes) : Len(s) < n => s \in T}
<1>1. 0 \in U
  OBVIOUS
<1>2. ASSUME NEW n \in U PROVE n + 1 \in U
  <2>1. ASSUME NEW s \in Seq(Bytes), Len(s) < n + 1 PROVE s \in T
    <3>1. \A t \in Seq(Bytes) : Len(t) < Len(s) => t \in T
      BY <2>1
    <3> QED
      BY <3>1
  <2> QED
    BY <2>1
<1>3. U = Nat
  <2>1. U \in SUBSET Nat
    OBVIOUS
  <2> HIDE DEF U
  <2> QED
    BY <1>1, <1>2, <2>1, NatIsLeast
<1>4. ASSUME NEW s \in Seq(Bytes) PROVE s \in T
  <2>1. Len(s) + 1 \in U
    <3> HIDE DEF U
    <3> QED
      BY <1>3
  <2> QED
    BY <2>1
<1> QED
  BY <1>4

\* A header that is there and acceptable, and a whole frame behind one.
Headed(b) == Len(b) >= HeaderSize /\ ~BadHeader(b)
Complete(b) == Headed(b) /\ Len(b) >= Announced(b)
Refused(b) == Len(b) >= HeaderSize /\ BadHeader(b)
Waits(b) == ~Refused(b) /\ ~Complete(b)

\* The four ways of the decoder of the MP157.
LEMMA DecodedCases ==
  ASSUME NEW s \in Seq(Bytes)
  PROVE  /\ Starts(s) = {} => Decoded[s] = [buffer |-> HalfSof(s), frames |-> <<>>]
         /\ Starts(s) # {} =>
              LET b == Framed(s) IN
              /\ Waits(b) => Decoded[s] = [buffer |-> b, frames |-> <<>>]
              /\ Refused(b) => Decoded[s] = Decoded[Tail(b)]
              /\ Complete(b) =>
                   Decoded[s] = [buffer |-> Decoded[From(b, Announced(b) + 1)].buffer,
                                 frames |-> <<SubSeq(b, 1, Announced(b))>> \o
                                            Decoded[From(b, Announced(b) + 1)].frames]
<1>1. Decoded[s] = DecodedStep(Decoded, s)
  BY DecodedIs
<1>2. CASE Starts(s) = {}
  BY <1>1, <1>2, StepCases
<1>3. CASE Starts(s) # {}
  <2> DEFINE b == Framed(s)
  <2>1. b \in Seq(Bytes) /\ Len(b) \in Nat
    BY <1>3, FramedIs
  <2>2. Waits(b) => Len(b) < HeaderSize \/ (Len(b) >= HeaderSize /\ ~BadHeader(b) /\ Len(b) < Announced(b))
    <3> HIDE DEF b
    <3>1. Len(b) < HeaderSize \/ Len(b) >= HeaderSize
      BY <2>1, ValuesAre
    <3>2. Headed(b) => Len(b) < Announced(b) \/ Len(b) >= Announced(b)
      <4> SUFFICES ASSUME Headed(b) PROVE Len(b) < Announced(b) \/ Len(b) >= Announced(b)
        OBVIOUS
      <4>1. Announced(b) \in 4..MaxFrameSize
        BY <2>1, AnnouncedIs DEF Headed
      <4> QED
        BY <2>1, <4>1, ValuesAre
    <3> QED
      BY <3>1, <3>2 DEF Waits, Refused, Complete, Headed
  <2>3. Waits(b) => Decoded[s] = [buffer |-> b, frames |-> <<>>]
    BY <1>1, <1>3, <2>2, StepCases
  <2>4. Refused(b) => Decoded[s] = Decoded[Tail(b)]
    BY <1>1, <1>3, StepCases DEF Refused
  <2>5. Complete(b) =>
          Decoded[s] = [buffer |-> Decoded[From(b, Announced(b) + 1)].buffer,
                        frames |-> <<SubSeq(b, 1, Announced(b))>> \o
                                   Decoded[From(b, Announced(b) + 1)].frames]
    BY <1>1, <1>3, StepCases DEF Complete, Headed
  <2> QED
    BY <1>3, <2>3, <2>4, <2>5
<1> QED
  BY <1>2, <1>3

\* What a step leaves to the recursion, and that it is shorter.
LEMMA RestIs ==
  ASSUME NEW b \in Seq(Bytes), Complete(b)
  PROVE  /\ Announced(b) \in 4..Len(b) /\ SubSeq(b, 1, Announced(b)) \in Seq(Bytes)
         /\ From(b, Announced(b) + 1) \in Seq(Bytes)
         /\ Len(From(b, Announced(b) + 1)) = Len(b) - Announced(b)
<1>1. Announced(b) \in 4..MaxFrameSize
  BY AnnouncedIs DEF Complete, Headed
<1>2. Announced(b) \in 4..Len(b)
  BY <1>1, ValuesAre DEF Complete
<1>3. Len(SubSeq(b, 1, Announced(b))) = Announced(b) /\ SubSeq(b, 1, Announced(b)) \in Seq(Bytes)
  BY <1>2
<1>4. Announced(b) + 1 \in 1..(Len(b) + 1)
  BY <1>2
<1>5. From(b, Announced(b) + 1) \in Seq(Bytes) /\ Len(From(b, Announced(b) + 1)) = Len(b) - (Announced(b) + 1) + 1
  BY <1>4, FromIs
<1> QED
  BY <1>2, <1>3, <1>5

\* What it keeps and finds are bytes and sequences of them.
LEMMA DecodedType ==
  \A s \in Seq(Bytes) : Decoded[s].buffer \in Seq(Bytes) /\ Decoded[s].frames \in Seq(Seq(Bytes))
<1> DEFINE Typed(s) == Decoded[s].buffer \in Seq(Bytes) /\ Decoded[s].frames \in Seq(Seq(Bytes))
           T == {s \in Seq(Bytes) : Typed(s)}
<1>1. ASSUME NEW s \in Seq(Bytes), \A t \in Seq(Bytes) : Len(t) < Len(s) => Typed(t)
      PROVE  Typed(s)
  <2> HIDE DEF Typed
  <2>1. CASE Starts(s) = {}
    <3>1. HalfSof(s) \in Seq(Bytes)
      BY DEF HalfSof
    <3>2. Decoded[s] = [buffer |-> HalfSof(s), frames |-> <<>>]
      BY <2>1, DecodedCases
    <3> QED
      BY <3>1, <3>2 DEF Typed
  <2>2. CASE Starts(s) # {}
    <3> DEFINE b == Framed(s)
    <3>1. b \in Seq(Bytes) /\ Len(b) \in 2..Len(s)
      BY <2>2, FramedIs
    <3>2. CASE Waits(b)
      <4>1. Decoded[s] = [buffer |-> b, frames |-> <<>>]
        BY <2>2, <3>2, DecodedCases
      <4> HIDE DEF b
      <4> QED
        BY <3>1, <4>1 DEF Typed
    <3>3. CASE Refused(b)
      <4>1. Decoded[s] = Decoded[Tail(b)]
        BY <2>2, <3>3, DecodedCases
      <4> HIDE DEF b
      <4>2. Tail(b) \in Seq(Bytes) /\ Len(Tail(b)) < Len(s)
        BY <3>1
      <4>3. Typed(Tail(b))
        BY <1>1, <4>2
      <4> QED
        BY <4>1, <4>3 DEF Typed
    <3>4. CASE Complete(b)
      <4>1. Decoded[s] = [buffer |-> Decoded[From(b, Announced(b) + 1)].buffer,
                          frames |-> <<SubSeq(b, 1, Announced(b))>> \o
                                     Decoded[From(b, Announced(b) + 1)].frames]
        BY <2>2, <3>4, DecodedCases
      <4> HIDE DEF b
      <4>2. SubSeq(b, 1, Announced(b)) \in Seq(Bytes)
            /\ From(b, Announced(b) + 1) \in Seq(Bytes) /\ Len(From(b, Announced(b) + 1)) < Len(s)
        BY <3>1, <3>4, RestIs
      <4>3. Typed(From(b, Announced(b) + 1))
        BY <1>1, <4>2
      <4> QED
        BY <4>1, <4>2, <4>3 DEF Typed
    <3> QED
      BY <3>2, <3>3, <3>4 DEF Waits
  <2> QED
    BY <2>1, <2>2
<1>2. Seq(Bytes) \subseteq T
  <2>1. \A s \in Seq(Bytes) : (\A t \in Seq(Bytes) : Len(t) < Len(s) => t \in T) => s \in T
    <3> HIDE DEF Typed
    <3> QED
      BY <1>1
  <2> HIDE DEF T
  <2> QED
    BY <2>1, ByLength
<1> QED
  BY <1>2

-----------------------------------------------------------------------------
(* How the stream is cut does not matter to it.                            *)

\* Only what comes from the first start on counts.
LEMMA DecodedSame ==
  ASSUME NEW s \in Seq(Bytes), NEW u \in Seq(Bytes),
         Starts(s) # {}, Starts(u) # {}, Framed(s) = Framed(u)
  PROVE  Decoded[s] = Decoded[u]
<1> DEFINE b == Framed(s)
<1>1. CASE Waits(b)
  <2>1. Decoded[s] = [buffer |-> b, frames |-> <<>>]
    BY <1>1, DecodedCases
  <2>2. Decoded[u] = [buffer |-> b, frames |-> <<>>]
    BY <1>1, DecodedCases
  <2> QED
    BY <2>1, <2>2
<1>2. CASE Refused(b)
  BY <1>2, DecodedCases
<1>3. CASE Complete(b)
  <2> DEFINE d == [buffer |-> Decoded[From(b, Announced(b) + 1)].buffer,
                   frames |-> <<SubSeq(b, 1, Announced(b))>> \o
                              Decoded[From(b, Announced(b) + 1)].frames]
  <2>1. Decoded[s] = d
    BY <1>3, DecodedCases
  <2>2. Decoded[u] = d
    BY <1>3, DecodedCases
  <2> QED
    BY <2>1, <2>2
<1> QED
  BY <1>1, <1>2, <1>3 DEF Waits

\* No frame starts before place k.
NoneBefore(s, k) == \A i \in 1..(k - 1) : i < Len(s) => ~(s[i].value = SOF0 /\ s[i + 1].value = SOF1)

\* Bytes in front of the first start, and all but the last of bytes without
\* one, make no difference.
LEMMA Skipped ==
  ASSUME NEW s \in Seq(Bytes), NEW k \in 1..(Len(s) + 1), NoneBefore(s, k),
         k = Len(s) + 1 => s = <<>> \/ s[Len(s)].value # SOF0
  PROVE  Decoded[s] = Decoded[From(s, k)]
<1> DEFINE u == From(s, k)
<1>1. u \in Seq(Bytes) /\ Len(u) = Len(s) - k + 1 /\ \A i \in 1..Len(u) : u[i] = s[i + k - 1]
  BY FromIs
<1> HIDE DEF u
<1>2. CASE Starts(s) # {}
  <2> DEFINE j == Min(Starts(s))
  <2>1. j \in 1..(Len(s) - 1) /\ s[j].value = SOF0 /\ s[j + 1].value = SOF1
        /\ \A i \in 1..(j - 1) : ~(s[i].value = SOF0 /\ s[i + 1].value = SOF1)
    BY <1>2, FirstStart
  <2> HIDE DEF j
  <2>2. k <= j
    BY <2>1 DEF NoneBefore
  <2>3. /\ j - k + 1 \in 1..(Len(u) - 1)
        /\ u[j - k + 1] = s[j] /\ u[j - k + 2] = s[j + 1]
    BY <1>1, <2>1, <2>2
  <2>4. \A i \in 1..(j - k) : u[i] = s[i + k - 1] /\ u[i + 1] = s[i + k] /\ i + k - 1 \in 1..(j - 1)
    BY <1>1, <2>1, <2>2
  <2>5. Starts(u) # {} /\ Min(Starts(u)) = j - k + 1
    <3>1. u[j - k + 1].value = SOF0 /\ u[(j - k + 1) + 1].value = SOF1
      BY <2>1, <2>2, <2>3
    <3>2. \A i \in 1..((j - k + 1) - 1) : ~(u[i].value = SOF0 /\ u[i + 1].value = SOF1)
      <4> TAKE i \in 1..((j - k + 1) - 1)
      <4>1. i \in 1..(j - k) /\ (i + k - 1) + 1 = i + k
        BY <2>1, <2>2
      <4>2. u[i] = s[i + k - 1] /\ u[i + 1] = s[(i + k - 1) + 1] /\ i + k - 1 \in 1..(j - 1)
        BY <2>4, <4>1
      <4> QED
        BY <2>1, <4>2
    <3> QED
      BY <1>1, <2>3, <3>1, <3>2, MinIs
  <2>6. From(u, j - k + 1) = From(s, j)
    <3>1. /\ From(s, j) \in Seq(Bytes) /\ Len(From(s, j)) = Len(s) - j + 1
          /\ \A i \in 1..(Len(s) - j + 1) : From(s, j)[i] = s[i + j - 1]
      BY <2>1, FromIs
    <3>2. j - k + 1 \in 1..(Len(u) + 1)
      BY <2>3, <1>1
    <3>3. /\ From(u, j - k + 1) \in Seq(Bytes) /\ Len(From(u, j - k + 1)) = Len(u) - (j - k + 1) + 1
          /\ \A i \in 1..(Len(u) - (j - k + 1) + 1) : From(u, j - k + 1)[i] = u[i + (j - k + 1) - 1]
      BY <1>1, <3>2, FromIs
    <3>4. Len(From(u, j - k + 1)) = Len(s) - j + 1
      BY <1>1, <2>1, <3>3
    <3>5. \A i \in 1..(Len(s) - j + 1) : From(u, j - k + 1)[i] = From(s, j)[i]
      <4> TAKE i \in 1..(Len(s) - j + 1)
      <4>1. From(u, j - k + 1)[i] = u[i + (j - k + 1) - 1]
        BY <1>1, <2>1, <2>2, <3>3
      <4>2. i + (j - k + 1) - 1 \in 1..Len(u) /\ i + (j - k + 1) - 1 + k - 1 = i + j - 1
        BY <1>1, <2>1, <2>2
      <4>3. u[i + (j - k + 1) - 1] = s[i + j - 1]
        BY <1>1, <4>2
      <4> QED
        BY <3>1, <4>1, <4>3
    <3> QED
      BY <3>1, <3>3, <3>4, <3>5, SeqEqual
  <2>7. Framed(u) = Framed(s)
    BY <2>5, <2>6 DEF Framed, j
  <2> QED
    BY <1>1, <1>2, <2>5, <2>7, DecodedSame DEF u
<1>3. CASE Starts(s) = {}
  <2>1. Starts(u) = {}
    <3> SUFFICES ASSUME Starts(u) # {} PROVE FALSE
      OBVIOUS
    <3> PICK i \in 1..(Len(u) - 1) : u[i].value = SOF0 /\ u[i + 1].value = SOF1
      BY DEF Starts
    <3>1. i + k - 1 \in 1..(Len(s) - 1) /\ u[i] = s[i + k - 1] /\ u[i + 1] = s[(i + k - 1) + 1]
      BY <1>1
    <3> QED
      BY <1>3, <3>1, StartsIs
  <2>2. HalfSof(u) = HalfSof(s)
    <3>1. CASE k <= Len(s)
      <4>1. u # <<>> /\ s # <<>> /\ u[Len(u)] = s[Len(s)]
        BY <1>1, <3>1
      <4> QED
        BY <4>1 DEF HalfSof
    <3>2. CASE k = Len(s) + 1
      <4>1. u = <<>>
        BY <1>1, <3>2
      <4> QED
        BY <3>2, <4>1 DEF HalfSof
    <3> QED
      BY <3>1, <3>2
  <2> QED
    BY <1>1, <1>3, <2>1, <2>2, DecodedCases DEF u
<1> QED
  BY <1>2, <1>3

\* A sequence that starts a frame is its own from there on.
LEMMA FramedFrame ==
  ASSUME NEW b \in Seq(Bytes), Len(b) >= 2, b[1].value = SOF0, b[2].value = SOF1
  PROVE  Starts(b) # {} /\ Framed(b) = b
<1>1. Starts(b) # {} /\ Min(Starts(b)) = 1
  <2>1. 1 \in 1..(Len(b) - 1) /\ b[1 + 1].value = SOF1 /\ 1..(1 - 1) = {}
    OBVIOUS
  <2> QED
    BY <2>1, MinIs
<1>2. From(b, 1) = b
  BY DEF From
<1> QED
  BY <1>1, <1>2 DEF Framed

\* More bytes behind a start are more bytes behind its frame.
LEMMA FramedConcat ==
  ASSUME NEW s \in Seq(Bytes), NEW t \in Seq(Bytes), Starts(s) # {}
  PROVE  Starts(s \o t) # {} /\ Framed(s \o t) = Framed(s) \o t
<1> DEFINE j == Min(Starts(s))
           st == s \o t
<1>1. j \in 1..(Len(s) - 1) /\ s[j].value = SOF0 /\ s[j + 1].value = SOF1
      /\ \A i \in 1..(j - 1) : ~(s[i].value = SOF0 /\ s[i + 1].value = SOF1)
  BY FirstStart
<1>2. st \in Seq(Bytes) /\ Len(st) = Len(s) + Len(t) /\ \A i \in 1..Len(s) : st[i] = s[i]
  BY ConcatIs
<1>3. \A i \in 1..(Len(s) + 1) : From(st, i) = From(s, i) \o t
  BY ConcatIs
<1> HIDE DEF j, st
<1>4. Starts(st) # {} /\ Min(Starts(st)) = j
  <2>1. j \in 1..(Len(st) - 1) /\ st[j].value = SOF0 /\ st[j + 1].value = SOF1
    BY <1>1, <1>2
  <2>2. \A i \in 1..(j - 1) : ~(st[i].value = SOF0 /\ st[i + 1].value = SOF1)
    <3> TAKE i \in 1..(j - 1)
    <3>1. i \in 1..Len(s) /\ i + 1 \in 1..Len(s)
      BY <1>1
    <3>2. st[i] = s[i] /\ st[i + 1] = s[i + 1]
      BY <1>2, <3>1
    <3> QED
      BY <1>1, <3>2
  <2> QED
    BY <1>2, <2>1, <2>2, MinIs
<1>5. From(st, j) = From(s, j) \o t
  BY <1>1, <1>3
<1> QED
  BY <1>4, <1>5 DEF Framed, j, st

\* What a header says does not depend on what is behind it.
LEMMA HeaderConcat ==
  ASSUME NEW b \in Seq(Bytes), NEW t \in Seq(Bytes), Len(b) >= HeaderSize
  PROVE  /\ Len(b \o t) >= HeaderSize /\ (BadHeader(b \o t) <=> BadHeader(b))
         /\ Announced(b \o t) = Announced(b)
<1>1. (b \o t)[3] = b[3] /\ Len(b \o t) >= 3
  BY ValuesAre, ConcatIs
<1> QED
  BY <1>1, ValuesAre DEF BadHeader, Announced

\* Where cut-out frames live, as a name the provers do not look into.
FrameSet == Seq(Bytes)

\* Sequences of frames are joined in any order of brackets.
LEMMA FramesAssociate ==
  ASSUME NEW x \in Seq(FrameSet), NEW y \in Seq(FrameSet), NEW z \in Seq(FrameSet)
  PROVE  x \o (y \o z) = (x \o y) \o z
BY ConcatAssociative

\* However a stream is cut in two, the MP157 finds the same frames in it.
LEMMA ChunksDoNotMatter ==
  ASSUME NEW s \in Seq(Bytes), NEW t \in Seq(Bytes)
  PROVE  LET first == Decoded[s]
             second == Decoded[first.buffer \o t] IN
         /\ Decoded[s \o t].frames = first.frames \o second.frames
         /\ Decoded[s \o t].buffer = second.buffer
<1> DEFINE Cut(u) ==
      LET first == Decoded[u]
          second == Decoded[first.buffer \o t] IN
      /\ Decoded[u \o t].frames = first.frames \o second.frames
      /\ Decoded[u \o t].buffer = second.buffer
    T == {u \in Seq(Bytes) : Cut(u)}
<1>a. ASSUME NEW u \in Seq(Bytes), NEW kept \in Seq(Bytes), Decoded[u] = [buffer |-> kept, frames |-> <<>>],
             Decoded[u \o t] = Decoded[kept \o t]
      PROVE  Cut(u)
  <2>1. kept \o t \in Seq(Bytes)
    BY ConcatProperties
  <2>2. Decoded[kept \o t].frames \in Seq(Seq(Bytes))
    BY <2>1, DecodedType
  <2>3. <<>> \o Decoded[kept \o t].frames = Decoded[kept \o t].frames
    BY <2>2, ConcatEmptySeq
  <2>4. Decoded[u].buffer = kept /\ Decoded[u].frames = <<>>
    BY <1>a
  <2> QED
    BY <1>a, <2>3, <2>4
<1>1. ASSUME NEW u \in Seq(Bytes), \A v \in Seq(Bytes) : Len(v) < Len(u) => Cut(v)
      PROVE  Cut(u)
  <2> DEFINE ut == u \o t
  <2>0. ut \in Seq(Bytes) /\ Len(ut) = Len(u) + Len(t) /\ (\A i \in 1..Len(u) : ut[i] = u[i])
        /\ \A j \in 1..(Len(u) + 1) : From(ut, j) = From(u, j) \o t
    BY ConcatIs
  <2> HIDE DEF Cut
  <2>1. CASE Starts(u) = {}
    <3> DEFINE k == IF u # <<>> /\ u[Len(u)].value = SOF0 THEN Len(u) ELSE Len(u) + 1
    <3>1. k \in 1..(Len(u) + 1)
      OBVIOUS
    <3>2. From(u, k) = HalfSof(u)
      <4>1. CASE u # <<>> /\ u[Len(u)].value = SOF0
        <5> DEFINE l == From(u, Len(u))
        <5>1. k = Len(u) /\ Len(u) \in 1..(Len(u) + 1)
          BY <4>1
        <5>2. l \in Seq(Bytes) /\ Len(l) = 1 /\ l[1] = u[Len(u)]
          <6>1. Len(u) - Len(u) + 1 = 1 /\ 1 + Len(u) - 1 = Len(u) /\ 1 \in 1..1
            OBVIOUS
          <6>2. /\ l \in Seq(Bytes) /\ Len(l) = Len(u) - Len(u) + 1
                /\ \A i \in 1..(Len(u) - Len(u) + 1) : l[i] = u[i + Len(u) - 1]
            BY <5>1, FromIs
          <6> HIDE DEF l
          <6> QED
            BY <6>1, <6>2
        <5> HIDE DEF l
        <5>3. l = <<u[Len(u)]>>
          BY <5>2
        <5> QED
          BY <4>1, <5>1, <5>3 DEF HalfSof, l
      <4>2. CASE ~(u # <<>> /\ u[Len(u)].value = SOF0)
        <5>1. k = Len(u) + 1 /\ From(u, Len(u) + 1) = <<>>
          BY <4>2 DEF From
        <5> QED
          BY <4>2, <5>1 DEF HalfSof
      <4> QED
        BY <4>1, <4>2
    <3>3. NoneBefore(ut, k)
      <4> SUFFICES ASSUME NEW i \in 1..(k - 1), i < Len(ut), ut[i].value = SOF0, ut[i + 1].value = SOF1 PROVE FALSE
        BY DEF NoneBefore
      <4>1. i \in 1..Len(u)
        BY <3>1
      <4>2. CASE i = Len(u)
        BY <2>0, <4>1, <4>2
      <4>3. CASE i # Len(u)
        <5>1. i \in 1..(Len(u) - 1) /\ ut[i] = u[i] /\ ut[i + 1] = u[i + 1]
          BY <2>0, <4>1, <4>3
        <5> QED
          BY <2>1, <5>1, StartsIs
      <4> QED
        BY <4>2, <4>3
    <3>4. k \in 1..(Len(ut) + 1) /\ (k = Len(ut) + 1 => ut = <<>> \/ ut[Len(ut)].value # SOF0)
      <4>1. k \in 1..(Len(ut) + 1)
        BY <2>0, <3>1
      <4>2. ASSUME k = Len(ut) + 1, ut # <<>> PROVE ut[Len(ut)].value # SOF0
        <5>1. k = Len(u) + 1 /\ Len(ut) = Len(u) /\ u # <<>>
          BY <2>0, <4>2, <3>1
        <5>2. ~(u # <<>> /\ u[Len(u)].value = SOF0)
          BY <5>1
        <5>3. Len(u) \in 1..Len(u)
          BY <5>1
        <5>4. ut[Len(u)] = u[Len(u)]
          BY <2>0, <5>3
        <5> QED
          BY <5>1, <5>2, <5>4
      <4> QED
        BY <4>1, <4>2
    <3> HIDE DEF k, ut
    <3>5. Decoded[ut] = Decoded[From(ut, k)]
      BY <2>0, <3>3, <3>4, Skipped
    <3>6. From(ut, k) = HalfSof(u) \o t
      BY <2>0, <3>1, <3>2
    <3>7. Decoded[u] = [buffer |-> HalfSof(u), frames |-> <<>>]
      BY <2>1, DecodedCases
    <3>8. HalfSof(u) \in Seq(Bytes)
      BY <3>1, <3>2, FromIs
    <3>9. Decoded[u \o t] = Decoded[HalfSof(u) \o t]
      BY <3>5, <3>6 DEF ut
    <3> QED
      BY <3>7, <3>8, <3>9, <1>a
  <2>2. CASE Starts(u) # {}
    <3> DEFINE b == Framed(u)
               bt == b \o t
    <3>1. b \in Seq(Bytes) /\ Len(b) \in 2..Len(u) /\ b[1].value = SOF0 /\ b[2].value = SOF1
      BY <2>2, FramedIs
    <3>2. Starts(ut) # {} /\ Framed(ut) = bt
      BY <2>2, FramedConcat
    <3> HIDE DEF b
    <3>3. bt \in Seq(Bytes) /\ Len(bt) = Len(b) + Len(t) /\ bt[1] = b[1] /\ bt[2] = b[2]
          /\ (\A j \in 1..(Len(b) + 1) : From(bt, j) = From(b, j) \o t)
      BY <3>1, ConcatIs
    <3>4. Starts(bt) # {} /\ Framed(bt) = bt
      <4> HIDE DEF bt
      <4>1. Len(bt) >= 2
        BY <3>1, <3>3
      <4> QED
        BY <3>1, <3>3, <4>1, FramedFrame
    <3>5. CASE Waits(b)
      <4>1. Decoded[u] = [buffer |-> b, frames |-> <<>>]
        BY <2>2, <3>5, DecodedCases DEF b
      <4>2. Decoded[ut] = Decoded[bt]
        <5> HIDE DEF bt, ut
        <5> QED
          BY <2>0, <3>2, <3>3, <3>4, DecodedSame
      <4> QED
        BY <3>1, <4>1, <4>2, <1>a DEF ut, bt
    <3>6. CASE Refused(b)
      <4>1. Refused(bt)
        BY <3>1, <3>6, HeaderConcat DEF Refused
      <4>2. Decoded[u] = Decoded[Tail(b)]
        BY <2>2, <3>6, DecodedCases DEF b
      <4>3. Decoded[ut] = Decoded[Tail(bt)]
        <5> HIDE DEF bt, ut
        <5> QED
          BY <2>0, <3>2, <4>1, DecodedCases
      <4>4. Tail(bt) = Tail(b) \o t
        BY <3>1
      <4>5. Tail(b) \in Seq(Bytes) /\ Len(Tail(b)) < Len(u)
        BY <3>1
      <4>6. Cut(Tail(b))
        BY <1>1, <4>5
      <4> QED
        BY <4>2, <4>3, <4>4, <4>6 DEF Cut
    <3>7. CASE Complete(b)
      <4> DEFINE n == Announced(b)
                 rest == From(b, n + 1)
                 cut == SubSeq(b, 1, n)
      <4>1. n \in 4..Len(b) /\ cut \in Seq(Bytes) /\ rest \in Seq(Bytes) /\ Len(rest) = Len(b) - n
        BY <3>1, <3>7, RestIs
      <4>2. Complete(bt) /\ Announced(bt) = n
        <5>1. Len(b) >= HeaderSize /\ ~BadHeader(b) /\ Len(b) >= n
          BY <3>7 DEF Complete, Headed
        <5>2. Len(bt) >= HeaderSize /\ ~BadHeader(bt) /\ Announced(bt) = n
          BY <3>1, <5>1, HeaderConcat
        <5>3. Len(bt) >= n
          BY <3>1, <3>3, <4>1
        <5> QED
          BY <5>2, <5>3 DEF Complete, Headed
      <4>3. From(bt, n + 1) = rest \o t
        <5> HIDE DEF n, bt
        <5>1. n + 1 \in 1..(Len(b) + 1)
          BY <4>1
        <5> QED
          BY <3>3, <5>1
      <4>4. SubSeq(bt, 1, n) = cut
        <5> HIDE DEF n
        <5>1. n \in 1..Len(b) /\ 1 \in 1..Len(b)
          BY <4>1
        <5> QED
          BY <3>1, <5>1, SubSeqOfConcat1
      <4>5. Decoded[u] = [buffer |-> Decoded[rest].buffer, frames |-> <<cut>> \o Decoded[rest].frames]
        BY <2>2, <3>7, DecodedCases DEF b
      <4>6. Decoded[ut] = [buffer |-> Decoded[rest \o t].buffer, frames |-> <<cut>> \o Decoded[rest \o t].frames]
        <5> HIDE DEF bt, ut, n, rest, cut
        <5>1. Decoded[ut] = [buffer |-> Decoded[From(bt, n + 1)].buffer,
                             frames |-> <<SubSeq(bt, 1, n)>> \o Decoded[From(bt, n + 1)].frames]
          BY <2>0, <3>2, <4>2, DecodedCases
        <5> QED
          BY <4>3, <4>4, <5>1
      <4> HIDE DEF n, rest, cut
      <4>7. Cut(rest)
        <5>1. Len(rest) < Len(u)
          BY <3>1, <4>1
        <5> QED
          BY <1>1, <4>1, <5>1
      <4> DEFINE d == Decoded[rest]
                 e == Decoded[d.buffer \o t]
      <4>8. d.frames \in Seq(Seq(Bytes)) /\ e.frames \in Seq(Seq(Bytes)) /\ <<cut>> \in Seq(Seq(Bytes))
        <5>1. d.buffer \in Seq(Bytes) /\ d.frames \in Seq(Seq(Bytes))
          BY <4>1, DecodedType
        <5>2. d.buffer \o t \in Seq(Bytes)
          BY <5>1
        <5> HIDE DEF d
        <5>3. e.frames \in Seq(Seq(Bytes))
          BY <5>2, DecodedType
        <5> QED
          BY <4>1, <5>1, <5>3
      <4>9. Decoded[rest \o t].frames = d.frames \o e.frames /\ Decoded[rest \o t].buffer = e.buffer
        BY <4>7 DEF Cut
      <4>10. <<cut>> \o (d.frames \o e.frames) = (<<cut>> \o d.frames) \o e.frames
        <5>1. d.frames \in Seq(FrameSet) /\ e.frames \in Seq(FrameSet) /\ <<cut>> \in Seq(FrameSet)
          BY <4>8 DEF FrameSet
        <5> HIDE DEF d, e
        <5> QED
          BY <5>1, FramesAssociate
      <4>11. Decoded[u].buffer = d.buffer /\ Decoded[u].frames = <<cut>> \o d.frames
        BY <4>5
      <4>12. Decoded[ut].buffer = e.buffer /\ Decoded[ut].frames = <<cut>> \o (d.frames \o e.frames)
        <5> HIDE DEF d, e
        <5>1. Decoded[ut].buffer = Decoded[rest \o t].buffer /\ Decoded[ut].frames = <<cut>> \o Decoded[rest \o t].frames
          BY <4>6
        <5> QED
          BY <4>9, <5>1
      <4>13. Decoded[Decoded[u].buffer \o t] = e
        BY <4>11
      <4> HIDE DEF d, e
      <4> QED
        BY <4>10, <4>11, <4>12, <4>13 DEF Cut, ut
    <3> QED
      BY <3>5, <3>6, <3>7 DEF Waits
  <2> QED
    BY <2>1, <2>2
<1>2. Seq(Bytes) \subseteq T
  <2>1. \A u \in Seq(Bytes) : (\A v \in Seq(Bytes) : Len(v) < Len(u) => v \in T) => u \in T
    <3> HIDE DEF Cut
    <3> QED
      BY <1>1
  <2> HIDE DEF T
  <2> QED
    BY <2>1, ByLength
<1> QED
  BY <1>2

-----------------------------------------------------------------------------
(* It finds the pings.                                                     *)

\* A stream that ends with a ping which nothing in front of it swallows.
EndsWithPing(u) ==
  /\ Len(u) >= 5
  /\ \A i \in 1..5 : u[Len(u) - 5 + i] = Ping[i]
  /\ \A j \in 1..(Len(u) - 5) :
       u[j].value = SOF0 /\ u[j + 1].value = SOF1 =>
         u[j + 2].value >= Oversized \/ j + u[j + 2].value + 4 <= Len(u) - 4

\* What is left behind dropped bytes still ends so.
LEMMA SuffixEnds ==
  ASSUME NEW u \in Seq(Bytes), EndsWithPing(u), NEW k \in 1..(Len(u) - 4)
  PROVE  From(u, k) \in Seq(Bytes) /\ Len(From(u, k)) = Len(u) - k + 1 /\ EndsWithPing(From(u, k))
<1> DEFINE w == From(u, k)
<1>1. w \in Seq(Bytes) /\ Len(w) = Len(u) - k + 1 /\ \A i \in 1..(Len(u) - k + 1) : w[i] = u[i + k - 1]
  <2>1. k \in 1..(Len(u) + 1)
    BY DEF EndsWithPing
  <2> QED
    BY <2>1, FromIs
<1> HIDE DEF w
<1>2. Len(w) >= 5
  BY <1>1
<1>3. ASSUME NEW i \in 1..5 PROVE w[Len(w) - 5 + i] = Ping[i]
  <2>1. Len(w) - 5 + i \in 1..(Len(u) - k + 1) /\ Len(w) - 5 + i + k - 1 = Len(u) - 5 + i
    BY <1>1
  <2>2. w[Len(w) - 5 + i] = u[Len(u) - 5 + i]
    BY <1>1, <2>1
  <2> QED
    BY <2>2 DEF EndsWithPing
<1>4. ASSUME NEW j \in 1..(Len(w) - 5), w[j].value = SOF0, w[j + 1].value = SOF1
      PROVE  w[j + 2].value >= Oversized \/ j + w[j + 2].value + 4 <= Len(w) - 4
  <2> DEFINE m == j + k - 1
  <2>1. m \in 1..(Len(u) - 5) /\ w[j] = u[m] /\ w[j + 1] = u[m + 1] /\ w[j + 2] = u[m + 2]
    BY <1>1
  <2>2. u[m + 2].value \in Int
    <3>1. u[m + 2] \in Bytes
      BY <2>1
    <3>2. \A n \in 0..(MaxPayload + 4) : n \in Int
      BY ValuesAre
    <3> QED
      BY <3>1, <3>2, ByteIs
  <2>3. u[m + 2].value >= Oversized \/ m + u[m + 2].value + 4 <= Len(u) - 4
    BY <1>4, <2>1 DEF EndsWithPing
  <2> DEFINE v == u[m + 2].value
  <2>4. w[j + 2].value = v /\ v \in Int /\ (v >= Oversized \/ m + v + 4 <= Len(u) - 4)
    BY <2>1, <2>2, <2>3
  <2> HIDE DEF v
  <2>5. m + v + 4 <= Len(u) - 4 => j + v + 4 <= Len(w) - 4
    <3>1. Len(u) \in Int /\ k \in Int /\ j \in Int /\ Len(w) = Len(u) - k + 1 /\ m = j + k - 1
      BY <1>1
    <3> HIDE DEF m
    <3> QED
      BY <2>4, <3>1
  <2> QED
    BY <2>4, <2>5
<1> QED
  BY <1>1, <1>2, <1>3, <1>4 DEF EndsWithPing, w

\* The decoder of the MP157 finds that ping, and finds it last.
FindsPing(u) == LET frames == Decoded[u].frames IN frames # <<>> /\ Last(frames) = Ping

\* Whatever is cut out before it, a ping nothing swallows is found.
LEMMA EndIsFound ==
  ASSUME NEW s \in Seq(Bytes), EndsWithPing(s) PROVE FindsPing(s)
<1> DEFINE T == {u \in Seq(Bytes) : EndsWithPing(u) => FindsPing(u)}
<1>1. ASSUME NEW u \in Seq(Bytes), EndsWithPing(u),
             \A v \in Seq(Bytes) : Len(v) < Len(u) => (EndsWithPing(v) => FindsPing(v))
      PROVE  FindsPing(u)
  <2>0. Len(u) \in Nat /\ Len(u) >= 5 /\ \A i \in 1..5 : u[Len(u) - 5 + i] = Ping[i]
    <3>1. EndsWithPing(u)
      BY <1>1
    <3> QED
      BY <3>1 DEF EndsWithPing
  <2>1. Starts(u) # {}
    <3> DEFINE p == Len(u) - 4
    <3>1. p \in 1..(Len(u) - 1) /\ Len(u) - 5 + 1 = p /\ Len(u) - 5 + 2 = p + 1
      BY <2>0
    <3>2. 1 \in 1..5 /\ 2 \in 1..5
      OBVIOUS
    <3>3. u[p] = Ping[1] /\ u[p + 1] = Ping[2]
      BY <2>0, <3>1, <3>2
    <3> QED
      BY <3>1, <3>3, PingIs DEF Starts
  <2> DEFINE j == Min(Starts(u))
             b == From(u, j)
  <2>2. j \in 1..(Len(u) - 4) /\ u[j].value = SOF0 /\ u[j + 1].value = SOF1
    <3>1. j \in 1..(Len(u) - 1) /\ u[j].value = SOF0 /\ u[j + 1].value = SOF1
          /\ \A i \in 1..(j - 1) : ~(u[i].value = SOF0 /\ u[i + 1].value = SOF1)
      BY <2>1, FirstStart
    <3> HIDE DEF j
    <3>2. ~(Len(u) - 4 < j)
      <4> SUFFICES ASSUME Len(u) - 4 < j PROVE FALSE
        OBVIOUS
      <4>1. Len(u) - 4 \in 1..(j - 1) /\ Len(u) - 5 + 1 = Len(u) - 4 /\ Len(u) - 5 + 2 = Len(u) - 4 + 1
            /\ 1 \in 1..5 /\ 2 \in 1..5
        BY <2>0, <3>1
      <4>2. u[Len(u) - 4] = Ping[1] /\ u[Len(u) - 4 + 1] = Ping[2]
        BY <2>0, <4>1
      <4> QED
        BY <3>1, <4>1, <4>2, PingIs
    <3> QED
      BY <3>1, <3>2
  <2> HIDE DEF j
  <2>3. b \in Seq(Bytes) /\ Len(b) = Len(u) - j + 1 /\ EndsWithPing(b)
    BY <1>1, <2>2, SuffixEnds
  <2>4. b[1].value = SOF0 /\ b[2].value = SOF1
    <3>1. j \in 1..(Len(u) + 1)
      BY <2>2
    <3>2. \A i \in 1..(Len(u) - j + 1) : b[i] = u[i + j - 1]
      BY <3>1, FromIs
    <3> HIDE DEF b
    <3>3. b[1] = u[j] /\ b[2] = u[j + 1]
      <4>1. 1 \in 1..(Len(u) - j + 1) /\ 2 \in 1..(Len(u) - j + 1) /\ 1 + j - 1 = j /\ 2 + j - 1 = j + 1
        BY <2>2
      <4> QED
        BY <3>2, <4>1
    <3> QED
      BY <2>2, <3>3
  <2>5. Framed(u) = b
    BY DEF Framed, j
  <2> HIDE DEF b
  <2>6. Len(b) >= 5 /\ Len(b) <= Len(u)
    BY <2>2, <2>3 DEF EndsWithPing
  <2>7. b[3] \in Bytes /\ b[3].value \in 0..(MaxPayload + 4)
    BY <2>3, <2>6, ByteIs
  <2>8. Announced(b) = b[3].value + 4
    BY <2>7, ValuesAre DEF Announced, FrameSize, HeaderSize, CrcSize
  <2>9. CASE Len(b) = 5
    <3>1. \A i \in 1..5 : b[i] = Ping[i]
      <4>1. \A i \in 1..5 : b[Len(b) - 5 + i] = Ping[i]
        BY <2>3 DEF EndsWithPing
      <4>2. \A i \in 1..5 : Len(b) - 5 + i = i
        BY <2>9
      <4> QED
        BY <4>1, <4>2
    <3>2. b = Ping
      BY <2>3, <2>9, <3>1, PingIs, SeqEqual
    <3>3. b[3].value = 1
      BY <3>2, PingIs
    <3>4. Announced(b) = 5 /\ Complete(b)
      BY <2>6, <2>8, <3>3, ValuesAre DEF Complete, Headed, BadHeader
    <3>5. From(b, 5 + 1) = <<>>
      <4>1. 6 \in Int /\ 5 \in Int /\ 5 < 6 /\ 5 + 1 = 6
        OBVIOUS
      <4>2. From(b, 5 + 1) = SubSeq(b, 6, 5)
        BY <2>9 DEF From
      <4> QED
        BY <4>1, <4>2, SubSeqEmpty
    <3>6. SubSeq(b, 1, 5) = b
      <4>1. SubSeq(b, 1, Len(b)) = b
        BY <2>3, SubSeqFull
      <4> QED
        BY <2>9, <4>1
    <3>7. Decoded[<<>>].frames = <<>>
      <4>1. <<>> \in Seq(Bytes) /\ Starts(<<>>) = {}
        BY DEF Starts
      <4>2. Decoded[<<>>] = [buffer |-> HalfSof(<<>>), frames |-> <<>>]
        BY <4>1, DecodedCases
      <4> QED
        BY <4>2
    <3>8. Decoded[u] = [buffer |-> Decoded[From(b, 5 + 1)].buffer,
                        frames |-> <<SubSeq(b, 1, 5)>> \o Decoded[From(b, 5 + 1)].frames]
      BY <2>1, <2>5, <3>4, DecodedCases
    <3>9. Decoded[u].frames = <<Ping>> \o <<>>
      <4> DEFINE rest == From(b, 5 + 1)
                 cut == SubSeq(b, 1, 5)
      <4>1. rest = <<>> /\ cut = Ping
        BY <3>2, <3>5, <3>6
      <4> HIDE DEF rest, cut
      <4>2. Decoded[u].frames = <<cut>> \o Decoded[rest].frames
        BY <3>8 DEF rest, cut
      <4> QED
        BY <3>7, <4>1, <4>2
    <3>10. <<Ping>> \o <<>> = <<Ping>>
      OBVIOUS
    <3> QED
      BY <3>9, <3>10 DEF FindsPing, Last
  <2>10. CASE Len(b) > 5
    <3>1. 1 \in 1..(Len(b) - 5) /\ 1 + 1 = 2 /\ 1 + 2 = 3
      BY <2>3, <2>10
    <3>2. b[3].value >= Oversized \/ 1 + b[3].value + 4 <= Len(b) - 4
      BY <2>3, <2>4, <3>1 DEF EndsWithPing
    <3>3. CASE b[3].value >= Oversized
      <4>1. Refused(b)
        BY <2>6, <3>3, ValuesAre DEF Refused, BadHeader
      <4>2. Tail(b) = From(b, 2) /\ 2 \in 1..(Len(b) - 4)
        BY <2>3, <2>10 DEF From
      <4>3. Tail(b) \in Seq(Bytes) /\ Len(Tail(b)) < Len(u) /\ EndsWithPing(Tail(b))
        <5>1. From(b, 2) \in Seq(Bytes) /\ Len(From(b, 2)) = Len(b) - 2 + 1 /\ EndsWithPing(From(b, 2))
          BY <2>3, <4>2, SuffixEnds
        <5>2. Len(b) - 2 + 1 < Len(u)
          BY <2>3, <2>6
        <5> QED
          BY <4>2, <5>1, <5>2
      <4>4. Decoded[u] = Decoded[Tail(b)]
        BY <2>1, <2>5, <4>1, DecodedCases
      <4> QED
        BY <1>1, <4>3, <4>4 DEF FindsPing
    <3>4. CASE ~(b[3].value >= Oversized)
      <4> DEFINE n == Announced(b)
                 rest == From(b, n + 1)
                 cut == SubSeq(b, 1, n)
      <4>1. n + 1 \in 1..(Len(b) - 4) /\ n \in Nat /\ n <= Len(b) /\ n >= 4
        <5> DEFINE v == b[3].value
        <5>1. v \in Nat /\ n = v + 4
          BY <2>7, <2>8, ValuesAre
        <5>2. 1 + v + 4 <= Len(b) - 4 /\ Len(b) \in Nat
          BY <2>3, <3>2, <3>4
        <5> HIDE DEF v, n
        <5> QED
          BY <5>1, <5>2
      <4>2. Complete(b)
        BY <2>6, <3>4, <4>1, ValuesAre DEF Complete, Headed, BadHeader
      <4>3. rest \in Seq(Bytes) /\ EndsWithPing(rest) /\ Len(rest) < Len(u)
        <5> HIDE DEF n
        <5>1. From(b, n + 1) \in Seq(Bytes) /\ Len(From(b, n + 1)) = Len(b) - (n + 1) + 1 /\ EndsWithPing(From(b, n + 1))
          BY <2>3, <4>1, SuffixEnds
        <5>2. Len(b) - (n + 1) + 1 < Len(u)
          BY <2>0, <2>2, <2>3, <4>1
        <5> QED
          BY <5>1, <5>2
      <4>4. cut \in Seq(Bytes)
        BY <2>3, <4>2, RestIs
      <4>5. Decoded[u].frames = <<cut>> \o Decoded[rest].frames
        <5>1. Decoded[u] = [buffer |-> Decoded[rest].buffer, frames |-> <<cut>> \o Decoded[rest].frames]
          BY <2>1, <2>5, <4>2, DecodedCases
        <5> HIDE DEF rest, cut
        <5> QED
          BY <5>1
      <4>6. Decoded[rest].frames \in Seq(Seq(Bytes)) /\ FindsPing(rest)
        BY <1>1, <4>3, DecodedType
      <4> HIDE DEF rest, cut
      <4> DEFINE fs == Decoded[rest].frames
                 all == <<cut>> \o fs
      <4>7. fs \in Seq(FrameSet) /\ fs # <<>> /\ fs[Len(fs)] = Ping /\ cut \in FrameSet
        BY <4>4, <4>6 DEF FrameSet, FindsPing, Last
      <4> HIDE DEF fs
      <4>8. all # <<>> /\ all[Len(all)] = fs[Len(fs)]
        <5>1. Len(fs) \in Nat \ {0} /\ Len(<<cut>>) = 1 /\ <<cut>> \in Seq(FrameSet)
          BY <4>7
        <5>2. Len(all) = 1 + Len(fs) /\ all \in Seq(FrameSet)
          BY <4>7, <5>1, ConcatProperties
        <5>3. all[Len(all)] = fs[Len(fs)]
          BY <4>7, <5>1, <5>2, ConcatProperties
        <5> QED
          BY <5>1, <5>2, <5>3
      <4> QED
        BY <4>5, <4>7, <4>8 DEF FindsPing, Last, fs
    <3> QED
      BY <3>3, <3>4
  <2> QED
    BY <2>3, <2>6, <2>9, <2>10
<1>2. Seq(Bytes) \subseteq T
  <2>1. \A u \in Seq(Bytes) : (\A v \in Seq(Bytes) : Len(v) < Len(u) => v \in T) => u \in T
    BY <1>1
  <2> HIDE DEF T
  <2> QED
    BY <2>1, ByLength
<1> QED
  BY <1>2

\* Where a ping is due, noise takes none of its bytes.
LEMMA DuePingEnds ==
  ASSUME NEW noise \in Seq(Bytes), NEW k \in Nat \ {0},
         Starts(noise) = {} \/ (k - 1) * PingSize >= Swallowed
  PROVE  EndsWithPing(noise \o Pings(k))
<1> DEFINE N == Len(noise)
           u == noise \o Pings(k)
<1>1. /\ u \in Seq(Bytes) /\ Len(u) = N + 5 * k
      /\ \A i \in 1..N : u[i] = noise[i]
      /\ \A q \in 0..(k - 1), o \in 1..5 : u[N + 5 * q + o] = Ping[o]
  BY StreamIs
<1>2. N \in Nat
  OBVIOUS
<1> HIDE DEF u
<1>3. ASSUME NEW i \in 1..5 PROVE u[Len(u) - 5 + i] = Ping[i]
  <2>1. Len(u) - 5 + i = N + 5 * (k - 1) + i /\ k - 1 \in 0..(k - 1)
    BY <1>1
  <2> QED
    BY <1>1, <2>1
<1>4. ASSUME NEW j \in 1..(Len(u) - 5), u[j].value = SOF0, u[j + 1].value = SOF1
      PROVE  u[j + 2].value >= Oversized \/ j + u[j + 2].value + 4 <= Len(u) - 4
  <2>1. CASE j >= N + 1
    <3> DEFINE q == (j - N - 1) \div 5
               o == ((j - N - 1) % 5) + 1
    <3>1. q \in 0..(k - 2) /\ o \in 1..5 /\ j = N + 5 * q + o
      <4> DEFINE m == j - N - 1
      <4>1. m \in 0..(5 * (k - 1) - 1) /\ j = N + m + 1
        BY <1>1, <1>2, <2>1
      <4> HIDE DEF m
      <4>2. m \div 5 \in 0..(k - 2) /\ m % 5 \in 0..4 /\ m = 5 * (m \div 5) + (m % 5)
        <5>1. m \in Nat /\ m < 5 * (k - 1)
          BY <4>1
        <5>2. m \div 5 \in Int /\ m % 5 \in 0..4 /\ m = 5 * (m \div 5) + (m % 5)
          BY <5>1
        <5> DEFINE q5 == m \div 5
                   o5 == m % 5
        <5> HIDE DEF q5, o5
        <5>3. q5 \in Int /\ o5 \in 0..4 /\ m = 5 * q5 + o5
          BY <5>2 DEF q5, o5
        <5>4. q5 \in 0..(k - 2)
          BY <5>1, <5>3
        <5> QED
          BY <5>3, <5>4 DEF q5, o5
      <4>3. j = N + 5 * (m \div 5) + ((m % 5) + 1)
        BY <1>2, <4>1, <4>2
      <4> QED
        BY <4>2, <4>3 DEF m
    <3> HIDE DEF q, o
    <3>2. q \in 0..(k - 1) /\ q + 1 \in 0..(k - 1)
      BY <3>1
    <3>3. o # 1 => u[j + 1].value # SOF1
      <4> SUFFICES ASSUME o # 1 PROVE u[j + 1].value # SOF1
        OBVIOUS
      <4>1. CASE o = 5
        <5>1. j + 1 = N + 5 * (q + 1) + 1 /\ 1 \in 1..5
          BY <3>1, <4>1
        <5>2. u[N + 5 * (q + 1) + 1] = Ping[1]
          BY <1>1, <3>2, <5>1
        <5>3. u[j + 1] = Ping[1]
          BY <5>1, <5>2
        <5> QED
          BY <5>3, PingIs, ValuesAre
      <4>2. CASE o \in 2..4
        <5>1. j + 1 = N + 5 * q + (o + 1) /\ o + 1 \in 1..5
          BY <3>1, <4>2
        <5>2. u[N + 5 * q + (o + 1)] = Ping[o + 1]
          BY <1>1, <3>2, <5>1
        <5>3. u[j + 1] = Ping[o + 1]
          BY <5>1, <5>2
        <5>4. o + 1 = 3 \/ o + 1 = 4 \/ o + 1 = 5
          BY <4>2
        <5> QED
          BY <5>3, <5>4, PingIs, ValuesAre
      <4> QED
        BY <3>1, <4>1, <4>2
    <3>4. o = 1
      BY <1>4, <3>3
    <3>5. j + 2 = N + 5 * q + 3 /\ 3 \in 1..5
      BY <3>1, <3>4
    <3>6. u[j + 2].value = 1
      BY <1>1, <3>2, <3>5, PingIs
    <3>7. j + 1 + 4 <= Len(u) - 4
      BY <1>1, <3>1, <3>4
    <3> QED
      BY <3>6, <3>7
  <2>2. CASE j = N
    <3>1. j + 1 = N + 5 * 0 + 1 /\ 0 \in 0..(k - 1) /\ 1 \in 1..5
      BY <2>2, <1>2
    <3>2. u[j + 1] = Ping[1]
      BY <1>1, <3>1
    <3> QED
      BY <1>4, <3>2, PingIs, ValuesAre
  <2>3. CASE j < N
    <3>1. j \in 1..(N - 1) /\ j \in 1..N /\ j + 1 \in 1..N
      BY <2>3, <1>2
    <3>2. noise[j].value = SOF0 /\ noise[j + 1].value = SOF1
      BY <1>1, <1>4, <3>1
    <3>3. Starts(noise) # {}
      BY <3>1, <3>2 DEF Starts
    <3>4. 5 * (k - 1) >= MaxPayload + 1
      <4>1. (k - 1) * PingSize >= Swallowed
        BY <3>3
      <4>2. (k - 1) * PingSize = 5 * (k - 1) /\ Swallowed = MaxPayload + 1
        BY ValuesAre DEF Swallowed
      <4> QED
        BY <4>1, <4>2
    <3>5. CASE j + 2 = N + 1
      <4>1. j + 2 = N + 5 * 0 + 1 /\ 0 \in 0..(k - 1) /\ 1 \in 1..5
        BY <3>5, <1>2
      <4>2. u[j + 2] = Ping[1]
        BY <1>1, <4>1
      <4> QED
        BY <4>2, PingIs, ValuesAre
    <3>6. CASE j + 2 <= N
      <4>1. u[j + 2] \in Bytes
        BY <1>1, <3>1, <3>6
      <4>2. u[j + 2].value \in 0..(MaxPayload + 4)
        BY <4>1, ByteIs
      <4> DEFINE v == u[j + 2].value
      <4> HIDE DEF v
      <4>3. v \in 0..(MaxPayload + 4)
        BY <4>2 DEF v
      <4>4. v >= Oversized \/ j + v + 4 <= Len(u) - 4
        BY <1>1, <1>2, <3>4, <3>6, <4>3, ValuesAre
      <4> QED
        BY <4>4 DEF v
    <3> QED
      BY <3>1, <3>5, <3>6
  <2> QED
    BY <1>2, <2>1, <2>2, <2>3
<1>5. Len(u) >= 5
  BY <1>1, <1>2
<1> QED
  BY <1>3, <1>4, <1>5 DEF EndsWithPing, u

\* The MP157 finds every ping that is due, behind noise of any length, however
\* its reads cut the stream.
LEMMA HostFindsAll ==
  ASSUME NEW noise \in Seq(Bytes), NEW count \in Nat PROVE HostFinds(noise, count)
<1> DEFINE stream == noise \o Pings(count)
           whole == Decoded[stream]
<1>1. ASSUME NEW k \in Due(noise, count)
      PROVE  LET frames == Decoded[noise \o Pings(k)].frames IN frames # <<>> /\ Last(frames) = Ping
  <2>1. k \in Nat \ {0} /\ (Starts(noise) = {} \/ (k - 1) * PingSize >= Swallowed)
    BY <1>1 DEF Due
  <2>2. EndsWithPing(noise \o Pings(k)) /\ noise \o Pings(k) \in Seq(Bytes)
    BY <2>1, DuePingEnds, StreamIs
  <2>3. FindsPing(noise \o Pings(k))
    BY <2>2, EndIsFound
  <2> QED
    BY <2>3 DEF FindsPing
<1>2. ASSUME NEW cut \in 1..Len(stream)
      PROVE  LET first == Decoded[SubSeq(stream, 1, cut)]
                 second == Decoded[first.buffer \o From(stream, cut + 1)] IN
             first.frames \o second.frames = whole.frames /\ second.buffer = whole.buffer
  <2>1. stream \in Seq(Bytes)
    BY StreamIs
  <2> HIDE DEF stream
  <2> DEFINE s == SubSeq(stream, 1, cut)
             t == From(stream, cut + 1)
  <2>2. s \in Seq(Bytes)
    BY <2>1
  <2>3. cut + 1 \in 1..(Len(stream) + 1)
    BY <2>1
  <2>4. t \in Seq(Bytes)
    BY <2>1, <2>3, FromIs
  <2>5. stream = s \o t
    BY <2>1 DEF From
  <2> HIDE DEF s, t
  <2>6. LET first == Decoded[s]
            second == Decoded[first.buffer \o t] IN
        Decoded[s \o t].frames = first.frames \o second.frames /\ Decoded[s \o t].buffer = second.buffer
    BY <2>2, <2>4, ChunksDoNotMatter
  <2> QED
    BY <2>5, <2>6 DEF s, t
<1> QED
  BY <1>1, <1>2 DEF HostFinds

-----------------------------------------------------------------------------
(* The decoder of the hub.                                                 *)

\* HubBuffer is defined by its recursion.
LEMMA HubBufferIs ==
  ASSUME NEW s, Len(s) \in Nat
  PROVE  LET held == HubBuffer(s) IN
         held = [i \in 0..Len(s) |-> IF i = 0 THEN <<>> ELSE Fed(held[i - 1], s[i]).buffer]
<1> DEFINE Holds(f, n) == f = [i \in 0..n |-> IF i = 0 THEN <<>> ELSE Fed(f[i - 1], s[i]).buffer]
<1> DEFINE T == {n \in Nat : \E f : Holds(f, n)}
<1>1. 0 \in T
  <2>1. Holds([i \in 0..0 |-> <<>>], 0)
    OBVIOUS
  <2> QED
    BY <2>1
<1>2. ASSUME NEW n \in T PROVE n + 1 \in T
  <2> PICK f : Holds(f, n)
    OBVIOUS
  <2> DEFINE g == [i \in 0..(n + 1) |-> IF i = n + 1 THEN Fed(f[n], s[n + 1]).buffer ELSE f[i]]
  <2> DEFINE h == [i \in 0..(n + 1) |-> IF i = 0 THEN <<>> ELSE Fed(g[i - 1], s[i]).buffer]
  <2>1. \A i \in 0..(n + 1) : g[i] = h[i]
    <3> TAKE i \in 0..(n + 1)
    <3>1. CASE i = n + 1
      BY <3>1
    <3>2. CASE i \in 0..n
      BY <3>2
    <3> QED
      BY <3>1, <3>2
  <2>2. Holds(g, n + 1)
    BY <2>1, Zenon
  <2> HIDE DEF Holds
  <2> QED
    BY <2>2
<1>3. Len(s) \in T
  <2> HIDE DEF T
  <2>1. T \in SUBSET Nat
    BY DEF T
  <2> QED
    BY <1>1, <1>2, <2>1, NatIsLeast
<1>4. HubBuffer(s) = CHOOSE f : Holds(f, Len(s))
  BY DEF HubBuffer
<1>5. PICK f : Holds(f, Len(s))
  BY <1>3
<1> HIDE DEF Holds
<1>6. Holds(HubBuffer(s), Len(s))
  BY <1>4, <1>5
<1> QED
  BY <1>6 DEF Holds

\* What the decoder of the hub may hold between two bytes: nothing, one byte,
\* or the front of a frame whose header, as far as it is there, is acceptable.
Shape(b) ==
  /\ b \in Seq(Bytes)
  /\ Len(b) >= 2 => b[1].value = SOF0 /\ b[2].value = SOF1
  /\ Len(b) >= HeaderSize => ~BadHeader(b) /\ Len(b) < Announced(b)

\* The numbers that follow from the shape.
LEMMA ShapeIs ==
  ASSUME NEW b, Shape(b)
  PROVE  /\ b \in Seq(Bytes) /\ Len(b) \in Nat /\ Len(b) < MaxFrameSize
         /\ Len(b) >= 3 => Headed(b) /\ Announced(b) \in 4..MaxFrameSize /\ Len(b) < Announced(b)
<1>1. b \in Seq(Bytes) /\ Len(b) \in Nat
  BY DEF Shape
<1>2. CASE Len(b) >= 3
  <2>1. Headed(b) /\ Len(b) < Announced(b)
    BY <1>2, ValuesAre DEF Shape, Headed
  <2>2. Announced(b) \in 4..MaxFrameSize
    BY <1>1, <2>1, AnnouncedIs DEF Headed
  <2> QED
    BY <1>1, <2>1, <2>2, ValuesAre
<1>3. CASE ~(Len(b) >= 3)
  BY <1>1, <1>3, ValuesAre
<1> QED
  BY <1>2, <1>3

\* Dropping bytes: nothing of what starts a frame, and all but the last byte
\* of two that do not.
LEMMA DropNothing ==
  ASSUME NEW a \in Seq(Bytes), Len(a) >= 2, a[1].value = SOF0, a[2].value = SOF1
  PROVE  DropToSof(a) = a
<1>1. 1 \in Starts(a)
  BY DEF Starts
<1>2. Starts(a) \subseteq 1..(Len(a) - 1)
  BY DEF Starts
<1> DEFINE T == Starts(a) \cup {Len(a)}
<1>3. 1 \in T /\ \A m \in T : m \in Nat /\ 1 <= m
  BY <1>1, <1>2
<1> HIDE DEF T
<1>4. Min(T) = 1
  <2>1. Min(T) \in T /\ \A m \in T : Min(T) <= m
    BY <1>3 DEF Min
  <2> QED
    BY <1>3, <2>1
<1>5. DropToSof(a) = From(a, 1)
  BY <1>4 DEF DropToSof, T
<1> QED
  BY <1>5 DEF From

\* Without a start, all but the last byte is dropped.
LEMMA DropToLast ==
  ASSUME NEW a \in Seq(Bytes), Starts(a) = {}, Len(a) >= 1
  PROVE  DropToSof(a) = <<a[Len(a)]>>
<1> DEFINE n == Len(a)
           l == From(a, n)
<1>1. n \in Nat /\ n >= 1 /\ n \in 1..(n + 1) /\ n - n + 1 = 1 /\ 1 + n - 1 = n /\ 1 \in 1..1
  OBVIOUS
<1>2. Min({n}) = n
  BY <1>1 DEF Min
<1>3. DropToSof(a) = l
  <2>1. Starts(a) \cup {n} = {n}
    OBVIOUS
  <2> QED
    BY <1>2, <2>1 DEF DropToSof
<1>4. l \in Seq(Bytes) /\ Len(l) = 1 /\ l[1] = a[n]
  <2>1. l \in Seq(Bytes) /\ Len(l) = n - n + 1 /\ \A i \in 1..(n - n + 1) : l[i] = a[i + n - 1]
    BY <1>1, FromIs
  <2> HIDE DEF l, n
  <2> QED
    BY <1>1, <2>1
<1> HIDE DEF l
<1>5. l = <<a[n]>>
  BY <1>4
<1> QED
  BY <1>3, <1>5

\* What one byte does to the decoder of the hub.
LEMMA FedShort ==
  ASSUME NEW b, Shape(b), NEW x \in Bytes, Len(b) <= 1
  PROVE  /\ ~Fed(b, x).ping
         /\ IF Len(b) = 1 /\ b[1].value = SOF0 /\ x.value = SOF1
            THEN Fed(b, x).buffer = Append(b, x) ELSE Fed(b, x).buffer = <<x>>
<1> DEFINE a == Append(b, x)
<1>1. b \in Seq(Bytes) /\ Len(b) \in Nat
  BY ShapeIs
<1>2. a \in Seq(Bytes) /\ Len(a) = Len(b) + 1 /\ (\A i \in 1..Len(b) : a[i] = b[i]) /\ a[Len(b) + 1] = x
  BY <1>1, AppendIs
<1> HIDE DEF a
<1>3. Fed(b, x) = LET d == DropToSof(a)
                      waits == [buffer |-> d, ping |-> FALSE]
                      refused == [buffer |-> <<>>, ping |-> FALSE] IN
        CASE Len(d) < HeaderSize -> waits
          [] Len(d) >= HeaderSize /\ BadHeader(d) -> refused
          [] OTHER -> IF Len(d) < FrameSize(d[3].value) THEN waits
                      ELSE [buffer |-> <<>>, ping |-> Intact(d) /\ Len(d) = PingSize]
  <2>1. ~(Len(b) >= MaxFrameSize)
    BY <1>1, ValuesAre
  <2> QED
    BY <2>1 DEF Fed, a
<1>4. ASSUME Len(DropToSof(a)) \in {1, 2} PROVE Fed(b, x) = [buffer |-> DropToSof(a), ping |-> FALSE]
  <2>1. Len(DropToSof(a)) < HeaderSize /\ ~(Len(DropToSof(a)) >= HeaderSize)
    <3>1. \A n \in {1, 2} : n < HeaderSize /\ ~(n >= HeaderSize)
      BY ValuesAre
    <3> QED
      BY <1>4, <3>1
  <2> QED
    BY <1>3, <2>1
<1>5. CASE Len(b) = 1 /\ b[1].value = SOF0 /\ x.value = SOF1
  <2>1. Len(a) = 2 /\ a[1] = b[1] /\ a[2] = x
    BY <1>2, <1>5
  <2>2. DropToSof(a) = a
    BY <1>2, <1>5, <2>1, DropNothing
  <2> QED
    BY <1>4, <1>5, <2>1, <2>2 DEF a
<1>6. CASE ~(Len(b) = 1 /\ b[1].value = SOF0 /\ x.value = SOF1)
  <2>1. Starts(a) = {}
    <3> SUFFICES ASSUME NEW i \in 1..(Len(a) - 1), a[i].value = SOF0, a[i + 1].value = SOF1 PROVE FALSE
      BY DEF Starts
    <3>1. Len(b) = 1
      <4>1. \A n \in Nat : n <= 1 /\ i \in 1..(n + 1 - 1) => n = 1
        OBVIOUS
      <4>2. i \in 1..(Len(b) + 1 - 1)
        BY <1>2
      <4> QED
        BY <1>1, <4>1, <4>2
    <3>2. i = 1 /\ a[1] = b[1] /\ a[2] = x
      BY <1>2, <3>1
    <3> QED
      BY <1>6, <3>1, <3>2
  <2>2. Len(a) >= 1 /\ a[Len(a)] = x
    BY <1>1, <1>2
  <2>3. DropToSof(a) = <<x>>
    BY <1>2, <2>1, <2>2, DropToLast
  <2>4. Len(<<x>>) = 1
    OBVIOUS
  <2> QED
    BY <1>4, <1>6, <2>3, <2>4
<1> QED
  BY <1>5, <1>6

\* Arithmetic of the lemma that follows.
LEMMA AboveTwo == \A n \in Nat : n >= 2 => n >= 3 \/ n = 2
OBVIOUS

\* The same with a SOF in the buffer: the header is judged when it is there, and
\* the frame when it is.
LEMMA FedLong ==
  ASSUME NEW b, Shape(b), NEW x \in Bytes, Len(b) >= 2
  PROVE  LET a == Append(b, x) IN
         /\ a \in Seq(Bytes) /\ Len(a) = Len(b) + 1 /\ Len(a) >= HeaderSize
         /\ a[1].value = SOF0 /\ a[2].value = SOF1
         /\ Refused(a) => Len(b) = 2
         /\ Len(b) >= 3 => Headed(a) /\ Announced(a) = Announced(b)
         /\ IF Complete(a) THEN Fed(b, x) = [buffer |-> <<>>, ping |-> Intact(a) /\ Len(a) = PingSize]
            ELSE IF Refused(a) THEN Fed(b, x) = [buffer |-> <<>>, ping |-> FALSE]
            ELSE Fed(b, x) = [buffer |-> a, ping |-> FALSE]
         /\ Complete(a) => Len(a) = Announced(a)
<1> DEFINE a == Append(b, x)
<1>1. b \in Seq(Bytes) /\ Len(b) \in Nat /\ Len(b) < MaxFrameSize
      /\ (Len(b) >= 3 => Headed(b) /\ Len(b) < Announced(b) /\ Announced(b) \in 4..MaxFrameSize)
  BY ShapeIs
<1>2. a \in Seq(Bytes) /\ Len(a) = Len(b) + 1 /\ (\A i \in 1..Len(b) : a[i] = b[i]) /\ a[Len(b) + 1] = x
  BY <1>1, AppendIs
<1> HIDE DEF a
<1>3. a[1].value = SOF0 /\ a[2].value = SOF1 /\ Len(a) >= 3
  <2>1. a[1] = b[1] /\ a[2] = b[2]
    BY <1>1, <1>2
  <2> QED
    BY <1>1, <1>2, <2>1 DEF Shape
<1>4. DropToSof(a) = a
  BY <1>2, <1>3, DropNothing
<1>5. Fed(b, x) = CASE Len(a) < HeaderSize -> [buffer |-> a, ping |-> FALSE]
          [] Len(a) >= HeaderSize /\ BadHeader(a) -> [buffer |-> <<>>, ping |-> FALSE]
          [] OTHER -> IF Len(a) < Announced(a) THEN [buffer |-> a, ping |-> FALSE]
                      ELSE [buffer |-> <<>>, ping |-> Intact(a) /\ Len(a) = PingSize]
  <2>1. ~(Len(b) >= MaxFrameSize)
    BY <1>1, ValuesAre
  <2> QED
    BY <1>4, <2>1 DEF Fed, a, Announced
<1>6. ~(Len(a) < HeaderSize) /\ Len(a) >= HeaderSize
  BY <1>2, <1>3, ValuesAre
<1>7. ~BadHeader(a) => Announced(a) \in 4..MaxFrameSize
  BY <1>2, <1>6, AnnouncedIs
<1>8. Len(b) >= 3 => Headed(a) /\ Announced(a) = Announced(b)
  <2> SUFFICES ASSUME Len(b) >= 3 PROVE Headed(a) /\ Announced(a) = Announced(b)
    OBVIOUS
  <2>1. a[3] = b[3]
    BY <1>1, <1>2
  <2> QED
    BY <1>1, <1>6, <2>1 DEF Headed, BadHeader, Announced
<1>9. Complete(a) => Len(a) = Announced(a)
  <2> SUFFICES ASSUME Complete(a) PROVE Len(a) = Announced(a)
    OBVIOUS
  <2>1. Announced(a) \in 4..MaxFrameSize /\ Len(a) >= Announced(a)
    BY <1>7 DEF Complete, Headed
  <2>2. CASE Len(b) >= 3
    BY <1>1, <1>2, <1>8, <2>1, <2>2
  <2>3. CASE Len(b) = 2
    BY <1>2, <2>1, <2>3, ValuesAre
  <2>4. Len(b) >= 3 \/ Len(b) = 2
    BY <1>1, AboveTwo
  <2> QED
    BY <2>2, <2>3, <2>4
<1>10. IF Complete(a) THEN Fed(b, x) = [buffer |-> <<>>, ping |-> Intact(a) /\ Len(a) = PingSize]
       ELSE IF Refused(a) THEN Fed(b, x) = [buffer |-> <<>>, ping |-> FALSE]
       ELSE Fed(b, x) = [buffer |-> a, ping |-> FALSE]
  <2>1. CASE BadHeader(a)
    <3>1. ~Complete(a) /\ Refused(a)
      BY <1>6, <2>1 DEF Complete, Headed, Refused
    <3> QED
      BY <1>5, <1>6, <2>1, <3>1
  <2>2. CASE ~BadHeader(a)
    <3>1. ~Refused(a) /\ (Complete(a) <=> ~(Len(a) < Announced(a)))
      <4>1. Len(a) >= Announced(a) <=> ~(Len(a) < Announced(a))
        BY <1>2, <1>7, <2>2, ValuesAre
      <4> QED
        BY <1>6, <2>2, <4>1 DEF Complete, Headed, Refused
    <3> QED
      BY <1>5, <1>6, <2>2, <3>1
  <2> QED
    BY <2>1, <2>2
<1>11. Refused(a) => Len(b) = 2
  <2>1. Refused(a) => ~Headed(a)
    BY DEF Refused, Headed
  <2>2. Len(b) >= 3 \/ Len(b) = 2
    BY <1>1, AboveTwo
  <2> QED
    BY <1>8, <2>1, <2>2
<1> QED
  BY <1>2, <1>3, <1>6, <1>8, <1>9, <1>10, <1>11 DEF a

\* The shape is kept.
LEMMA FedShape ==
  ASSUME NEW b, Shape(b), NEW x \in Bytes
  PROVE  Shape(Fed(b, x).buffer)
<1>0. b \in Seq(Bytes) /\ Len(b) \in Nat
  BY ShapeIs
<1>1. Shape(<<>>)
  <2>1. <<>> \in Seq(Bytes) /\ Len(<<>>) = 0
    OBVIOUS
  <2> QED
    BY <2>1, ValuesAre DEF Shape
<1>2. CASE Len(b) <= 1
  <2>1. Shape(<<x>>)
    <3>1. <<x>> \in Seq(Bytes) /\ Len(<<x>>) = 1
      OBVIOUS
    <3> QED
      BY <3>1, ValuesAre DEF Shape
  <2>2. ASSUME Len(b) = 1, b[1].value = SOF0, x.value = SOF1 PROVE Shape(Append(b, x))
    <3> DEFINE a == Append(b, x)
    <3>1. a \in Seq(Bytes) /\ Len(a) = 2 /\ a[1] = b[1] /\ a[2] = x
      BY <1>0, <2>2, AppendIs
    <3> HIDE DEF a
    <3>2. Shape(a)
      BY <2>2, <3>1, ValuesAre DEF Shape
    <3> QED
      BY <3>2 DEF a
  <2> QED
    BY <1>2, <2>1, <2>2, FedShort
<1>3. CASE Len(b) >= 2
  <2> DEFINE a == Append(b, x)
  <2>1. /\ a \in Seq(Bytes) /\ Len(a) = Len(b) + 1 /\ Len(a) >= HeaderSize
        /\ a[1].value = SOF0 /\ a[2].value = SOF1
        /\ IF Complete(a) THEN Fed(b, x) = [buffer |-> <<>>, ping |-> Intact(a) /\ Len(a) = PingSize]
           ELSE IF Refused(a) THEN Fed(b, x) = [buffer |-> <<>>, ping |-> FALSE]
           ELSE Fed(b, x) = [buffer |-> a, ping |-> FALSE]
    BY <1>3, FedLong
  <2> HIDE DEF a
  <2>2. CASE Complete(a) \/ Refused(a)
    <3>1. Fed(b, x).buffer = <<>>
      BY <2>1, <2>2
    <3> QED
      BY <1>1, <3>1
  <2>3. CASE ~Complete(a) /\ ~Refused(a)
    <3>1. Fed(b, x).buffer = a
      BY <2>1, <2>3
    <3>2. ~BadHeader(a)
      BY <2>1, <2>3 DEF Refused
    <3>3. Announced(a) \in 4..MaxFrameSize
      BY <2>1, <3>2, AnnouncedIs
    <3>4. Len(a) < Announced(a)
      <4>1. ~(Len(a) >= Announced(a))
        BY <2>1, <2>3, <3>2 DEF Complete, Headed
      <4> QED
        BY <2>1, <3>3, <4>1, ValuesAre
    <3> QED
      BY <2>1, <3>1, <3>2, <3>4 DEF Shape
  <2> QED
    BY <2>2, <2>3
<1> QED
  BY <1>0, <1>2, <1>3

\* What the decoder holds has that shape wherever it is in a stream.
LEMMA HeldShape ==
  ASSUME NEW s \in Seq(Bytes)
  PROVE  LET held == HubBuffer(s) IN
         /\ held[0] = <<>>
         /\ \A i \in 1..Len(s) : held[i] = Fed(held[i - 1], s[i]).buffer
         /\ \A i \in 0..Len(s) : Shape(held[i])
<1> DEFINE held == HubBuffer(s)
           N == Len(s)
<1>1. N \in Nat
  OBVIOUS
<1>2. held = [i \in 0..N |-> IF i = 0 THEN <<>> ELSE Fed(held[i - 1], s[i]).buffer]
  BY <1>1, HubBufferIs
<1> HIDE DEF held
<1>3. held[0] = <<>> /\ \A i \in 1..N : held[i] = Fed(held[i - 1], s[i]).buffer
  BY <1>1, <1>2
<1> DEFINE T == {i \in 0..N : Shape(held[i])}
<1>4. 0 \in T
  <2>1. <<>> \in Seq(Bytes) /\ Len(<<>>) = 0
    OBVIOUS
  <2>2. Shape(<<>>)
    BY <2>1, ValuesAre DEF Shape
  <2> QED
    BY <1>1, <1>3, <2>2
<1>5. ASSUME NEW i \in 0..(N - 1), i \in T PROVE i + 1 \in T
  <2>1. i + 1 \in 1..N /\ i + 1 \in 0..N /\ (i + 1) - 1 = i
    BY <1>1
  <2>2. s[i + 1] \in Bytes
    BY <2>1, ElementOfSeq
  <2>3. Shape(held[i])
    BY <1>5
  <2>4. held[i + 1] = Fed(held[i], s[i + 1]).buffer
    BY <1>3, <2>1
  <2>5. Shape(held[i + 1])
    BY <2>2, <2>3, <2>4, FedShape
  <2> QED
    BY <2>1, <2>5
<1>6. 0..N \subseteq T
  <2> HIDE DEF T, N
  <2> QED
    BY <1>1, <1>4, <1>5, UpTo
<1> QED
  BY <1>3, <1>6 DEF held

\* Bytes among which nothing starts a frame leave at most the last of them.
LEMMA NoiseStays ==
  ASSUME NEW noise \in Seq(Bytes), Starts(noise) = {}, NEW s \in Seq(Bytes),
         Len(noise) <= Len(s), \A i \in 1..Len(noise) : s[i] = noise[i]
  PROVE  LET held == HubBuffer(s) IN Len(held[Len(noise)]) <= 1
<1> DEFINE held == HubBuffer(s)
           N == Len(noise)
           Stays(i) == Len(held[i]) <= 1 /\ (Len(held[i]) = 1 => i \in 1..N /\ held[i][1] = noise[i])
           T == {i \in 0..N : Stays(i)}
<1>1. N \in Nat /\ Len(s) \in Nat
  OBVIOUS
<1>2. /\ held[0] = <<>>
      /\ \A i \in 1..Len(s) : held[i] = Fed(held[i - 1], s[i]).buffer
      /\ \A i \in 0..Len(s) : Shape(held[i])
  BY HeldShape
<1> HIDE DEF held
<1>3. 0 \in T
  <2>1. Len(held[0]) = 0
    BY <1>2
  <2> QED
    BY <1>1, <2>1
<1>4. ASSUME NEW i \in 0..(N - 1), i \in T PROVE i + 1 \in T
  <2>1. i + 1 \in 1..N /\ i + 1 \in 1..Len(s) /\ i \in 0..Len(s) /\ (i + 1) - 1 = i
    BY <1>1
  <2>2. Stays(i)
    BY <1>4
  <2> DEFINE b == held[i]
             x == s[i + 1]
  <2>3. x = noise[i + 1] /\ x \in Bytes
    BY <2>1, ElementOfSeq
  <2>4. Shape(b) /\ held[i + 1] = Fed(b, x).buffer
    BY <1>2, <2>1
  <2>5. ~(Len(b) = 1 /\ b[1].value = SOF0 /\ x.value = SOF1)
    <3> SUFFICES ASSUME Len(b) = 1, b[1].value = SOF0, x.value = SOF1 PROVE FALSE
      OBVIOUS
    <3>1. i \in 1..N /\ b[1] = noise[i]
      BY <2>2
    <3>2. i \in 1..(N - 1)
      BY <2>1, <3>1
    <3> QED
      BY <2>3, <3>1, <3>2, StartsIs
  <2>6. Len(b) <= 1
    BY <2>2
  <2> HIDE DEF b, x
  <2>7. held[i + 1] = <<x>>
    BY <2>3, <2>4, <2>5, <2>6, FedShort
  <2>8. Len(<<x>>) = 1 /\ <<x>>[1] = x
    OBVIOUS
  <2>9. Stays(i + 1)
    BY <2>1, <2>3, <2>7, <2>8
  <2> QED
    BY <2>1, <2>9
<1>5. 0..N \subseteq T
  <2> HIDE DEF T, N
  <2> QED
    BY <1>1, <1>3, <1>4, UpTo
<1>6. N \in T
  <2> HIDE DEF T
  <2> QED
    BY <1>1, <1>5
<1> QED
  BY <1>6 DEF held

\* The decoder holds what it should while it waits for the ping's byte o + 1.
Synced(o, b) ==
  IF o = 0 THEN Len(b) <= 1 ELSE Len(b) = o /\ \A m \in 1..o : b[m] = Ping[m]

\* From there the next byte of a ping leads on, and the last one to the ping.
LEMMA SyncedStep ==
  ASSUME NEW b, Shape(b), NEW o \in 0..4, Synced(o, b)
  PROVE  LET fed == Fed(b, Ping[o + 1]) IN
         IF o = 4 THEN fed.ping /\ fed.buffer = <<>> ELSE ~fed.ping /\ Synced(o + 1, fed.buffer)
<1> DEFINE x == Ping[o + 1]
           a == Append(b, x)
<1>1. x \in Bytes /\ x.place = o + 1 /\ x.size = 5
  BY PingIs
<1>2. b \in Seq(Bytes) /\ Len(b) \in Nat
  BY ShapeIs
<1>3. a \in Seq(Bytes) /\ Len(a) = Len(b) + 1 /\ (\A i \in 1..Len(b) : a[i] = b[i]) /\ a[Len(b) + 1] = x
  BY <1>1, <1>2, AppendIs
<1>4. o # 0 => \A i \in 1..(o + 1) : a[i] = Ping[i]
  <2> SUFFICES ASSUME o # 0, NEW i \in 1..(o + 1) PROVE a[i] = Ping[i]
    OBVIOUS
  <2>1. Len(b) = o /\ \A m \in 1..o : b[m] = Ping[m]
    BY DEF Synced
  <2> HIDE DEF x, a
  <2>2. CASE i = o + 1
    BY <1>3, <2>1, <2>2 DEF x
  <2>3. CASE i \in 1..o
    BY <1>3, <2>1, <2>3
  <2> QED
    BY <2>2, <2>3
<1> HIDE DEF a
<1>5. CASE o = 0
  <2>1. Len(b) <= 1 /\ x = Ping[1]
    BY <1>5 DEF Synced
  <2>2. x.value # SOF1
    BY <2>1, PingIs, ValuesAre
  <2>3. ~Fed(b, x).ping /\ Fed(b, x).buffer = <<x>>
    BY <1>1, <2>1, <2>2, FedShort
  <2>4. Synced(1, <<x>>)
    <3>1. Len(<<x>>) = 1 /\ <<x>>[1] = Ping[1] /\ \A m \in 1..1 : m = 1
      BY <2>1
    <3> QED
      BY <3>1 DEF Synced
  <2> QED
    BY <1>5, <2>3, <2>4
<1>6. CASE o = 1
  <2>1. Len(b) = 1 /\ b[1].value = SOF0 /\ x.value = SOF1
    <3>1. Len(b) = 1 /\ b[1] = Ping[1] /\ x = Ping[2]
      BY <1>6 DEF Synced
    <3> QED
      BY <3>1, PingIs
  <2>2. ~Fed(b, x).ping /\ Fed(b, x).buffer = a
    <3>1. Len(b) <= 1
      BY <2>1
    <3> HIDE DEF x
    <3> QED
      BY <1>1, <2>1, <3>1, FedShort DEF a
  <2>3. Synced(2, a)
    BY <1>3, <1>4, <1>6, <2>1 DEF Synced
  <2> QED
    BY <1>6, <2>2, <2>3
<1>7. CASE o \in 2..4
  <2>1. Len(b) = o /\ Len(a) = o + 1 /\ Len(b) >= 2
    BY <1>3, <1>7 DEF Synced
  <2>2. IF Complete(a) THEN Fed(b, x) = [buffer |-> <<>>, ping |-> Intact(a) /\ Len(a) = PingSize]
        ELSE IF Refused(a) THEN Fed(b, x) = [buffer |-> <<>>, ping |-> FALSE]
        ELSE Fed(b, x) = [buffer |-> a, ping |-> FALSE]
    BY <1>1, <2>1, FedLong DEF a
  <2>3. a[3].value = 1 /\ Len(a) >= 3
    <3>1. a[3] = Ping[3]
      BY <1>4, <1>7
    <3> QED
      BY <1>7, <2>1, <3>1, PingIs
  <2>4. Headed(a) /\ ~Refused(a) /\ Announced(a) = 5
    BY <2>1, <2>3, ValuesAre DEF Headed, Refused, BadHeader, Announced, FrameSize
  <2>5. CASE o = 4
    <3>1. Complete(a)
      BY <2>1, <2>4, <2>5 DEF Complete
    <3>2. Intact(a) /\ Len(a) = PingSize
      <4>1. \A i \in 1..5 : a[i] = Ping[i] /\ a[i].place = i /\ a[i].size = 5
        BY <1>4, <2>5, PingIs
      <4> QED
        BY <2>1, <2>5, <4>1, ValuesAre DEF Intact
    <3>3. Fed(b, x) = [buffer |-> <<>>, ping |-> Intact(a) /\ Len(a) = PingSize]
      BY <2>2, <3>1
    <3>4. Fed(b, x).buffer = <<>> /\ Fed(b, x).ping
      <4>1. (Intact(a) /\ Len(a) = PingSize) = TRUE
        BY <3>2
      <4>2. Fed(b, x) = [buffer |-> <<>>, ping |-> TRUE]
        BY <3>3, <4>1
      <4> QED
        BY <4>2
    <3> QED
      BY <2>5, <3>4
  <2>6. CASE o \in 2..3
    <3>1. ~Complete(a)
      BY <2>1, <2>4, <2>6 DEF Complete
    <3>2. Fed(b, x).buffer = a /\ ~Fed(b, x).ping
      BY <2>2, <2>4, <3>1
    <3>3. Synced(o + 1, a)
      BY <1>4, <2>1, <2>6 DEF Synced
    <3> QED
      BY <2>6, <3>2, <3>3
  <2> QED
    BY <1>7, <2>5, <2>6
<1> QED
  BY <1>5, <1>6, <1>7

\* The decoder of the hub has not found its way back by byte o of the ping
\* behind q others: it has only just left the noise, waits for the end of a
\* frame that was none, or has just given one up.
Lost(noise, q, o, b) ==
  /\ Starts(noise) # {}
  /\ \/ q = 0 /\ o = 0
     \/ Len(b) >= 3 /\ 5 * q + o + Announced(b) - Len(b) <= Swallowed
     \/ o # 0 /\ Len(b) <= 1 /\ (o = 1 => b = <<>>) /\ 5 * q < Swallowed
At(noise, q, o, b) == Synced(o, b) \/ Lost(noise, q, o, b)

\* While it is lost, a byte of a ping leaves it lost for less, or finds it again.
LEMMA LostStep ==
  ASSUME NEW noise, NEW q \in Nat, NEW o \in 0..4, NEW b, Shape(b), Lost(noise, q, o, b), ~Synced(o, b)
  PROVE  LET after == Fed(b, Ping[o + 1]).buffer IN
         IF o = 4 THEN At(noise, q + 1, 0, after) ELSE At(noise, q, o + 1, after)
<1> DEFINE x == Ping[o + 1]
           after == Fed(b, x).buffer
<1>1. x \in Bytes /\ o + 1 \in 1..5
  BY PingIs
<1>2. b \in Seq(Bytes) /\ Len(b) \in Nat
      /\ (Len(b) >= 3 => Announced(b) \in 4..MaxFrameSize /\ Len(b) < Announced(b))
  BY ShapeIs
<1>3. Starts(noise) # {} /\ Swallowed = MaxPayload + 1 /\ MaxFrameSize = MaxPayload + 4 /\ MaxPayload \in Nat
  BY ValuesAre DEF Lost, Swallowed
<1>4. Len(<<>>) = 0
  OBVIOUS
<1>5. CASE Len(b) >= 3
  <2> DEFINE a == Append(b, x)
             n == Announced(b)
             len == Len(b)
  <2>1. /\ a \in Seq(Bytes) /\ Len(a) = len + 1
        /\ Headed(a) /\ Announced(a) = n
        /\ IF Complete(a) THEN Fed(b, x) = [buffer |-> <<>>, ping |-> Intact(a) /\ Len(a) = PingSize]
           ELSE IF Refused(a) THEN Fed(b, x) = [buffer |-> <<>>, ping |-> FALSE]
           ELSE Fed(b, x) = [buffer |-> a, ping |-> FALSE]
        /\ (Complete(a) => Len(a) = Announced(a))
    <3>1. Len(b) >= 2
      BY <1>2, <1>5
    <3> HIDE DEF x
    <3> QED
      BY <1>1, <1>5, <3>1, FedLong
  <2>2. 5 * q + o + n - len <= MaxPayload + 1 /\ n \in Nat /\ len \in Nat /\ len >= 3
    <3>1. n \in 4..MaxFrameSize /\ len \in Nat /\ len >= 3
      BY <1>2, <1>5
    <3>2. CASE q = 0 /\ o = 0
      <4> HIDE DEF n, len
      <4> QED
        BY <1>3, <3>1, <3>2
    <3>3. CASE 5 * q + o + n - len <= Swallowed
      BY <1>3, <3>1, <3>3
    <3>4. (q = 0 /\ o = 0) \/ 5 * q + o + n - len <= Swallowed
      <4>1. ~(Len(b) <= 1)
        BY <3>1
      <4> QED
        BY <4>1 DEF Lost
    <3> QED
      BY <3>1, <3>2, <3>3, <3>4, <1>3
  <2>3. ~Refused(a)
    BY <2>1 DEF Refused, Headed
  <2> HIDE DEF a, n, len, x
  <2>4. CASE Complete(a)
    <3>1. after = <<>> /\ len + 1 = n
      BY <2>1, <2>4
    <3>2. 5 * q + o + 1 <= MaxPayload + 1
      BY <2>2, <3>1, <1>3
    <3> HIDE DEF after
    <3>3. At(noise, q + 1, 0, after)
      BY <1>4, <3>1 DEF At, Synced
    <3>4. At(noise, q, o + 1, after)
      <4>1. o + 1 # 0 /\ 5 * q < Swallowed /\ Len(after) <= 1
        BY <1>3, <1>4, <3>1, <3>2
      <4> QED
        BY <1>3, <3>1, <4>1 DEF At, Lost
    <3> QED
      BY <3>3, <3>4 DEF after, x
  <2>5. CASE ~Complete(a)
    <3>1. after = a
      BY <2>1, <2>3, <2>5
    <3> HIDE DEF after
    <3>2. Len(after) >= 3 /\ Len(after) = len + 1 /\ Announced(after) = n
      BY <2>1, <2>2, <3>1
    <3>3. 5 * q + (o + 1) + Announced(after) - Len(after) <= Swallowed
          /\ 5 * (q + 1) + 0 + Announced(after) - Len(after) = 5 * q + 5 + Announced(after) - Len(after)
      BY <1>3, <2>2, <3>2
    <3>4. o # 4 => At(noise, q, o + 1, after)
      BY <1>3, <3>2, <3>3 DEF At, Lost
    <3>5. o = 4 => At(noise, q + 1, 0, after)
      <4> SUFFICES ASSUME o = 4 PROVE At(noise, q + 1, 0, after)
        OBVIOUS
      <4>1. 5 * (q + 1) + 0 + Announced(after) - Len(after) <= Swallowed
        BY <1>3, <2>2, <3>2, <3>3
      <4> QED
        BY <1>3, <3>2, <4>1 DEF At, Lost
    <3> QED
      BY <3>4, <3>5 DEF after, x
  <2> QED
    BY <2>4, <2>5
<1>6. CASE Len(b) = 2
  <2>1. q = 0 /\ o = 0
    <3>1. ~(Len(b) >= 3) /\ ~(Len(b) <= 1)
      BY <1>6
    <3> QED
      BY <3>1 DEF Lost
  <2> DEFINE a == Append(b, x)
  <2>2. /\ a \in Seq(Bytes) /\ Len(a) = 3 /\ a[3] = x
        /\ IF Complete(a) THEN Fed(b, x) = [buffer |-> <<>>, ping |-> Intact(a) /\ Len(a) = PingSize]
           ELSE IF Refused(a) THEN Fed(b, x) = [buffer |-> <<>>, ping |-> FALSE]
           ELSE Fed(b, x) = [buffer |-> a, ping |-> FALSE]
    <3>1. Len(b) >= 2 /\ Len(b) + 1 = 3
      BY <1>6
    <3> HIDE DEF x
    <3>2. a \in Seq(Bytes) /\ Len(a) = 3 /\ a[3] = x
      <4>1. a \in Seq(Bytes) /\ Len(a) = Len(b) + 1 /\ a[Len(b) + 1] = x
        BY <1>1, <1>2, AppendIs
      <4> HIDE DEF a
      <4> QED
        BY <3>1, <4>1
    <3> QED
      BY <1>1, <3>1, <3>2, FedLong
  <2>3. x = Ping[1]
    BY <2>1
  <2> HIDE DEF a, x
  <2>4. Refused(a) /\ ~Complete(a)
    <3>1. x.value = MaxPayload + 2
      BY <2>3, PingIs, ValuesAre
    <3>2. BadHeader(a)
      BY <2>2, <3>1, ValuesAre DEF BadHeader
    <3> QED
      BY <2>2, <3>2, ValuesAre DEF Refused, Complete, Headed
  <2>5. after = <<>>
    BY <2>2, <2>4
  <2> HIDE DEF after
  <2>6. 0 + 1 = 1 /\ 1 # 0 /\ 5 * 0 < Swallowed /\ Len(after) <= 1
    BY <1>3, <1>4, <2>5
  <2>7. At(noise, 0, 1, after)
    BY <1>3, <2>5, <2>6 DEF At, Lost
  <2> QED
    BY <2>1, <2>6, <2>7 DEF after, x
<1>7. CASE Len(b) <= 1
  <2>1. o # 0 /\ (o = 1 => b = <<>>) /\ 5 * q < Swallowed
    <3>1. ~(o = 0) /\ ~(Len(b) >= 3)
      BY <1>2, <1>7 DEF Synced
    <3> QED
      BY <3>1 DEF Lost
  <2>2. ~(Len(b) = 1 /\ b[1].value = SOF0 /\ x.value = SOF1)
    <3>1. CASE o = 1
      BY <1>4, <2>1, <3>1
    <3>2. CASE o \in 2..4
      <4>1. x = Ping[3] \/ x = Ping[4] \/ x = Ping[5]
        BY <3>2
      <4> HIDE DEF x
      <4> QED
        BY <4>1, PingIs, ValuesAre
    <3> QED
      BY <2>1, <3>1, <3>2
  <2> HIDE DEF x
  <2>3. after = <<x>>
    BY <1>1, <1>7, <2>2, FedShort
  <2>4. Len(<<x>>) = 1
    OBVIOUS
  <2> HIDE DEF after
  <2>5. Len(after) <= 1
    BY <2>3, <2>4
  <2>6. CASE o = 4
    BY <2>5, <2>6 DEF At, Synced, after, x
  <2>7. CASE o # 4
    <3>1. o + 1 # 0 /\ o + 1 # 1
      BY <2>1
    <3>2. At(noise, q, o + 1, after)
      BY <1>3, <2>1, <2>5, <3>1 DEF At, Lost
    <3> QED
      BY <2>7, <3>2 DEF after, x
  <2> QED
    BY <2>6, <2>7
<1>8. \A n \in Nat : n >= 3 \/ n = 2 \/ n <= 1
  OBVIOUS
<1> QED
  BY <1>2, <1>5, <1>6, <1>7, <1>8

\* So whichever it is, the next byte keeps it one of the two.
LEMMA AtStep ==
  ASSUME NEW noise, NEW q \in Nat, NEW o \in 0..4, NEW b, Shape(b), At(noise, q, o, b)
  PROVE  LET after == Fed(b, Ping[o + 1]).buffer IN
         IF o = 4 THEN At(noise, q + 1, 0, after) ELSE At(noise, q, o + 1, after)
<1>1. CASE Synced(o, b)
  <2> DEFINE fed == Fed(b, Ping[o + 1])
  <2>1. IF o = 4 THEN fed.ping /\ fed.buffer = <<>> ELSE ~fed.ping /\ Synced(o + 1, fed.buffer)
    BY <1>1, SyncedStep
  <2> HIDE DEF fed
  <2>2. o = 4 => Len(fed.buffer) <= 1
    BY <2>1
  <2>3. IF o = 4 THEN At(noise, q + 1, 0, fed.buffer) ELSE At(noise, q, o + 1, fed.buffer)
    BY <2>1, <2>2 DEF At, Synced
  <2> QED
    BY <2>3 DEF fed
<1>2. CASE ~Synced(o, b)
  <2>1. Lost(noise, q, o, b)
    BY <1>2 DEF At
  <2> QED
    BY <1>2, <2>1, LostStep
<1> QED
  BY <1>1, <1>2

\* Behind noise, the decoder of the hub is where a ping needs it or lost.
LEMMA HubIsAt ==
  ASSUME NEW noise \in Seq(Bytes), NEW k \in Nat
  PROVE  LET held == HubBuffer(noise \o Pings(k)) IN
         \A i \in 0..(5 * k) : At(noise, i \div 5, i % 5, held[Len(noise) + i])
<1> DEFINE s == noise \o Pings(k)
           held == HubBuffer(s)
           N == Len(noise)
           In(i) == At(noise, i \div 5, i % 5, held[N + i])
           T == {i \in 0..(5 * k) : In(i)}
<1>1. /\ s \in Seq(Bytes) /\ Len(s) = N + 5 * k
      /\ \A i \in 1..N : s[i] = noise[i]
      /\ \A q \in 0..(k - 1), o \in 1..5 : s[N + 5 * q + o] = Ping[o]
  BY StreamIs
<1>2. N \in Nat
  OBVIOUS
<1> HIDE DEF s
<1>3. /\ \A i \in 1..Len(s) : held[i] = Fed(held[i - 1], s[i]).buffer
      /\ \A i \in 0..Len(s) : Shape(held[i])
  BY <1>1, HeldShape
<1>4. 0 \in T
  <2>1. 0 \div 5 = 0 /\ 0 % 5 = 0 /\ N + 0 = N /\ 0 \in 0..(5 * k) /\ N <= Len(s)
    BY <1>1, <1>2
  <2>2. Starts(noise) = {} => Len(held[N]) <= 1
    BY <1>1, <2>1, NoiseStays
  <2> HIDE DEF held, N
  <2>3. At(noise, 0, 0, held[N])
    BY <2>2 DEF At, Synced, Lost
  <2> QED
    BY <2>1, <2>3
<1> HIDE DEF held
<1>5. ASSUME NEW i \in 0..(5 * k - 1), i \in T PROVE i + 1 \in T
  <2> DEFINE q == i \div 5
             o == i % 5
  <2>1. q \in 0..(k - 1) /\ o \in 0..4 /\ i = 5 * q + o
    <3>1. i \in Nat /\ i < 5 * k
      OBVIOUS
    <3>2. q \in Int /\ o \in 0..4 /\ i = 5 * q + o
      BY <3>1
    <3> HIDE DEF q, o
    <3> QED
      BY <3>1, <3>2
  <2>2. IF o = 4 THEN (i + 1) \div 5 = q + 1 /\ (i + 1) % 5 = 0
        ELSE (i + 1) \div 5 = q /\ (i + 1) % 5 = o + 1
    OBVIOUS
  <2>3. At(noise, q, o, held[N + i])
    BY <1>5
  <2> HIDE DEF q, o
  <2>4. N + i + 1 \in 1..Len(s) /\ N + i \in 0..Len(s) /\ N + i + 1 - 1 = N + i
        /\ N + i + 1 = N + 5 * q + (o + 1) /\ o + 1 \in 1..5 /\ N + (i + 1) = N + i + 1
        /\ i + 1 \in 0..(5 * k) /\ q \in Nat
    BY <1>1, <1>2, <2>1
  <2>5. Shape(held[N + i]) /\ held[N + i + 1] = Fed(held[N + i], Ping[o + 1]).buffer
    <3>1. s[N + i + 1] = Ping[o + 1]
      BY <1>1, <2>1, <2>4
    <3>2. held[N + i + 1] = Fed(held[N + i], s[N + i + 1]).buffer
      BY <1>3, <2>4
    <3> QED
      BY <1>3, <2>4, <3>1, <3>2
  <2> DEFINE after == Fed(held[N + i], Ping[o + 1]).buffer
  <2>6. IF o = 4 THEN At(noise, q + 1, 0, after) ELSE At(noise, q, o + 1, after)
    BY <2>1, <2>3, <2>4, <2>5, AtStep
  <2>7. held[N + (i + 1)] = after
    BY <2>4, <2>5
  <2> HIDE DEF after
  <2>8. In(i + 1)
    BY <2>2, <2>6, <2>7
  <2> QED
    BY <2>4, <2>8
<1>6. 0..(5 * k) \subseteq T
  <2>1. 5 * k \in Nat
    OBVIOUS
  <2> HIDE DEF T
  <2> QED
    BY <1>4, <1>5, <2>1, UpTo
<1>7. \A i \in 0..(5 * k) : In(i)
  BY <1>6
<1> QED
  BY <1>7 DEF held, s

\* The hub finds every ping that is due, behind noise of any length.
LEMMA HubFindsAll ==
  ASSUME NEW noise \in Seq(Bytes), NEW count \in Nat PROVE HubFinds(noise, count)
<1> DEFINE s == noise \o Pings(count)
           held == HubBuffer(s)
           N == Len(noise)
<1>1. ASSUME NEW k \in Due(noise, count)
      PROVE  Fed(held[(N + k * PingSize) - 1], s[N + k * PingSize]).ping
  <2>1. k \in 1..count /\ (Starts(noise) = {} \/ 5 * (k - 1) >= Swallowed)
    <3>1. k \in 1..count /\ (Starts(noise) = {} \/ (k - 1) * PingSize >= Swallowed)
      BY <1>1 DEF Due
    <3>2. (k - 1) * PingSize = 5 * (k - 1)
      BY <3>1, ValuesAre
    <3> QED
      BY <3>1, <3>2
  <2> DEFINE i == 5 * (k - 1) + 4
  <2>2. i \in 0..(5 * count) /\ i \div 5 = k - 1 /\ i % 5 = 4
    BY <2>1
  <2>3. At(noise, i \div 5, i % 5, held[N + i])
    BY <2>2, HubIsAt
  <2>4. At(noise, k - 1, 4, held[N + i])
    BY <2>2, <2>3
  <2>5. s \in Seq(Bytes) /\ Len(s) = N + 5 * count
        /\ \A q \in 0..(count - 1), o \in 1..5 : s[N + 5 * q + o] = Ping[o]
    BY StreamIs
  <2>6. N \in Nat
    OBVIOUS
  <2> HIDE DEF s
  <2>7. \A m \in 0..Len(s) : Shape(held[m])
    BY <2>5, HeldShape
  <2> HIDE DEF held
  <2>8. N + i \in 0..Len(s) /\ (N + k * PingSize) - 1 = N + i
        /\ N + k * PingSize = N + 5 * (k - 1) + 5 /\ k - 1 \in 0..(count - 1) /\ 5 \in 1..5
    <3>1. k * PingSize = 5 * k
      BY <2>1, ValuesAre
    <3> QED
      BY <2>1, <2>5, <2>6, <3>1
  <2>9. s[N + k * PingSize] = Ping[5]
    BY <2>5, <2>8
  <2> DEFINE b == held[N + i]
  <2>10. Shape(b)
    BY <2>7, <2>8
  <2>11. At(noise, k - 1, 4, b)
    BY <2>4
  <2> HIDE DEF b
  <2>12. Synced(4, b)
    <3> SUFFICES ASSUME Lost(noise, k - 1, 4, b) PROVE FALSE
      BY <2>11 DEF At
    <3>1. 5 * (k - 1) >= Swallowed /\ Swallowed \in Nat /\ k \in Nat \ {0}
      BY <2>1, ValuesAre DEF Lost, Swallowed
    <3>2. ~(5 * (k - 1) < Swallowed)
      BY <3>1
    <3>3. Len(b) >= 3 /\ 5 * (k - 1) + 4 + Announced(b) - Len(b) <= Swallowed
      BY <3>2 DEF Lost
    <3>4. Len(b) \in Nat /\ Announced(b) \in 4..MaxFrameSize /\ Len(b) < Announced(b)
      BY <2>10, <3>3, ShapeIs
    <3> QED
      BY <3>1, <3>3, <3>4, ValuesAre
  <2>13. 4 \in 0..4 /\ 4 + 1 = 5
    OBVIOUS
  <2>14. Fed(b, Ping[4 + 1]).ping
    BY <2>10, <2>12, <2>13, SyncedStep
  <2> QED
    BY <2>8, <2>9, <2>13, <2>14 DEF b
<1> HIDE DEF s, held
<1>2. \A k \in Due(noise, count) : Fed(held[(N + k * PingSize) - 1], s[N + k * PingSize]).ping
  BY <1>1
<1>3. HubFinds(noise, count) <=>
        \A k \in Due(noise, count) : Fed(held[(N + k * PingSize) - 1], s[N + k * PingSize]).ping
  BY DEF HubFinds, s, held
<1> QED
  BY <1>2, <1>3

-----------------------------------------------------------------------------
(* The link.                                                               *)

\* d is the last piece of what a process has written of its ping.
Own(w, d) == Len(d) <= w /\ \A m \in 1..Len(d) : d[m] = Ping[w - Len(d) + m]

\* That is a part of Ping.
LEMMA OwnIs ==
  ASSUME NEW w \in 0..5, NEW d \in Seq(Bytes), Len(d) <= w
  PROVE  Own(w, d) <=> d = SubSeq(Ping, w - Len(d) + 1, w)
<1> DEFINE k == w - Len(d) + 1
           p == SubSeq(Ping, k, w)
<1>1. Len(d) \in Nat /\ k \in 1..(w + 1) /\ w \in Nat
  OBVIOUS
<1>2. p \in Seq(Bytes) /\ Len(p) = w - k + 1 /\ \A i \in 1..(w - k + 1) : p[i] = Ping[k + i - 1]
  <2>1. \A i \in k..w : Ping[i] \in Bytes
    <3>1. \A i \in k..w : i \in 1..5
      BY <1>1
    <3> QED
      BY <3>1, PingIs
  <2>2. k \in Int /\ w \in Int
    BY <1>1
  <2> HIDE DEF k
  <2>3. p \in Seq(Bytes) /\ Len(p) = (IF k <= w THEN w - k + 1 ELSE 0) /\ \A i \in 1..(w - k + 1) : p[i] = Ping[k + i - 1]
    BY <2>1, <2>2, SubSeqProperties
  <2> HIDE DEF p
  <2>4. ~(k <= w) => w - k + 1 = 0
    BY <1>1
  <2> QED
    BY <2>3, <2>4
<1>3. w - k + 1 = Len(d) /\ \A i \in 1..Len(d) : k + i - 1 = w - Len(d) + i
  BY <1>1
<1> HIDE DEF k, p
<1>4. p \in Seq(Bytes) /\ Len(p) = Len(d) /\ \A i \in 1..Len(d) : p[i] = Ping[w - Len(d) + i]
  BY <1>2, <1>3
<1>5. ASSUME Own(w, d) PROVE d = p
  <2>1. \A i \in 1..Len(d) : d[i] = p[i]
    BY <1>4, <1>5 DEF Own
  <2>2. Len(d) = Len(p)
    BY <1>4
  <2> QED
    BY <1>4, <2>1, <2>2, SeqEqual
<1>6. ASSUME d = p PROVE Own(w, d)
  BY <1>4, <1>6 DEF Own
<1> QED
  BY <1>5, <1>6 DEF p, k

\* The first byte of such a piece, and the piece behind it.
LEMMA OwnTail ==
  ASSUME NEW w \in 0..5, NEW d \in Seq(Bytes), Own(w, d), d # <<>>
  PROVE  /\ Own(w, Tail(d)) /\ w - Len(Tail(d)) = w - Len(d) + 1
         /\ Head(d) = Ping[w - Len(d) + 1] /\ w - Len(d) \in 0..4
<1>1. /\ Tail(d) \in Seq(Bytes) /\ Len(Tail(d)) = Len(d) - 1 /\ Len(d) \in Nat \ {0}
      /\ \A i \in 1..Len(Tail(d)) : Tail(d)[i] = d[i + 1]
      /\ Head(d) = d[1]
  OBVIOUS
<1>2. Len(d) <= w /\ \A m \in 1..Len(d) : d[m] = Ping[w - Len(d) + m]
  BY DEF Own
<1> DEFINE t == Tail(d)
           n == Len(d)
<1> HIDE DEF t, n
<1>3. n \in 1..w /\ Len(t) = n - 1 /\ (\A i \in 1..(n - 1) : t[i] = d[i + 1]) /\ \A m \in 1..n : d[m] = Ping[w - n + m]
  BY <1>1, <1>2 DEF t, n
<1>4. \A i \in 1..Len(t) : t[i] = Ping[w - Len(t) + i]
  <2> TAKE i \in 1..Len(t)
  <2>1. i \in 1..(n - 1) /\ i + 1 \in 1..n /\ w - n + (i + 1) = w - Len(t) + i
    BY <1>3
  <2>2. t[i] = d[i + 1] /\ d[i + 1] = Ping[w - n + (i + 1)]
    BY <1>3, <2>1
  <2> QED
    BY <2>1, <2>2
<1>5. Len(t) <= w /\ w - Len(t) = w - n + 1 /\ w - n \in 0..4 /\ 1 \in 1..n
  BY <1>3
<1>6. Head(d) = Ping[w - n + 1]
  BY <1>1, <1>3, <1>5
<1> QED
  BY <1>4, <1>5, <1>6 DEF Own, t, n

\* What is written next joins the piece.
LEMMA OwnWritten ==
  ASSUME NEW w \in 0..5, NEW n \in 0..(5 - w), NEW d \in Seq(Bytes)
  PROVE  LET piece == SubSeq(Ping, w + 1, w + n) IN
         /\ d \o piece \in Seq(Bytes) /\ Len(d \o piece) = Len(d) + n
         /\ n = 0 => d \o piece = d
         /\ Own(w, d) => Own(w + n, d \o piece)
<1> DEFINE p == SubSeq(Ping, w + 1, w + n)
           e == d \o p
<1>1. p \in Seq(Bytes) /\ Len(p) = n /\ \A i \in 1..n : p[i] = Ping[w + i]
  <2>1. \A i \in (w + 1)..(w + n) : Ping[i] \in Bytes
    <3>1. \A i \in (w + 1)..(w + n) : i \in 1..5
      OBVIOUS
    <3> QED
      BY <3>1, PingIs
  <2>2. w + 1 \in Int /\ w + n \in Int /\ (w + n) - (w + 1) + 1 = n /\ (~(w + 1 <= w + n) => n = 0)
        /\ \A i \in 1..n : (w + 1) + i - 1 = w + i
    OBVIOUS
  <2> DEFINE lo == w + 1
             hi == w + n
  <2> HIDE DEF lo, hi
  <2>3. SubSeq(Ping, lo, hi) \in Seq(Bytes) /\ Len(SubSeq(Ping, lo, hi)) = (IF lo <= hi THEN hi - lo + 1 ELSE 0)
        /\ \A i \in 1..(hi - lo + 1) : SubSeq(Ping, lo, hi)[i] = Ping[lo + i - 1]
    <3>1. \A i \in lo..hi : Ping[i] \in Bytes
      BY <2>1 DEF lo, hi
    <3>2. lo \in Int /\ hi \in Int
      BY <2>2 DEF lo, hi
    <3> QED
      BY <3>1, <3>2, SubSeqProperties
  <2>4. hi - lo + 1 = n /\ (~(lo <= hi) => n = 0) /\ (\A i \in 1..n : lo + i - 1 = w + i)
    BY <2>2 DEF lo, hi
  <2> DEFINE sub == SubSeq(Ping, lo, hi)
  <2>5. p = sub
    BY DEF lo, hi
  <2> HIDE DEF p, sub
  <2>6. sub \in Seq(Bytes) /\ Len(sub) = n /\ \A i \in 1..n : sub[i] = Ping[w + i]
    BY <2>3, <2>4 DEF sub
  <2> QED
    BY <2>5, <2>6
<1> HIDE DEF p
<1>2. e \in Seq(Bytes) /\ Len(e) = Len(d) + n
      /\ (\A i \in 1..Len(d) : e[i] = d[i]) /\ (\A i \in 1..n : e[Len(d) + i] = p[i])
  <2>1. e \in Seq(Bytes) /\ Len(e) = Len(d) + Len(p)
        /\ (\A i \in 1..Len(d) : e[i] = d[i]) /\ (\A i \in 1..Len(p) : e[Len(d) + i] = p[i])
    BY <1>1, ConcatIs
  <2> HIDE DEF e
  <2> QED
    BY <1>1, <2>1
<1>3. n = 0 => e = d
  <2>1. n = 0 => p = <<>>
    BY <1>1
  <2> QED
    BY <2>1
<1> HIDE DEF e
<1>4. ASSUME Own(w, d) PROVE Own(w + n, e)
  <2>1. Len(d) \in Nat /\ Len(d) <= w /\ \A m \in 1..Len(d) : d[m] = Ping[w - Len(d) + m]
    BY <1>4 DEF Own
  <2>2. ASSUME NEW m \in 1..Len(e) PROVE e[m] = Ping[w + n - Len(e) + m]
    <3>1. w + n - Len(e) + m = w - Len(d) + m
      BY <1>2, <2>1
    <3>2. CASE m \in 1..Len(d)
      BY <1>2, <2>1, <3>1, <3>2
    <3>3. CASE m \notin 1..Len(d)
      <4> DEFINE i == m - Len(d)
      <4>1. i \in 1..n /\ m = Len(d) + i /\ w - Len(d) + m = w + i
        BY <1>2, <2>1, <3>3
      <4> HIDE DEF i
      <4>2. e[m] = p[i] /\ p[i] = Ping[w + i]
        BY <1>1, <1>2, <4>1
      <4> QED
        BY <3>1, <4>1, <4>2
    <3> QED
      BY <3>2, <3>3
  <2>3. Len(e) <= w + n
    BY <1>2, <2>1
  <2> QED
    BY <2>2, <2>3 DEF Own
<1> QED
  BY <1>2, <1>3, <1>4 DEF e, p

\* Nothing is such a piece.
LEMMA OwnNothing == \A w \in 0..5 : Own(w, <<>>)
BY DEF Own

\* A ping ends with the last byte of one.
LEMMA FedPing ==
  ASSUME NEW b, Shape(b), NEW x \in Bytes, Fed(b, x).ping
  PROVE  x.place = 5
<1>1. b \in Seq(Bytes) /\ Len(b) \in Nat
  BY ShapeIs
<1>2. CASE Len(b) <= 1
  BY <1>2, FedShort
<1>3. CASE ~(Len(b) <= 1)
  <2> DEFINE a == Append(b, x)
  <2>1. \A n \in Nat : ~(n <= 1) => n >= 2
    OBVIOUS
  <2>2. Len(b) >= 2
    BY <1>1, <1>3, <2>1
  <2>3. IF Complete(a) THEN Fed(b, x) = [buffer |-> <<>>, ping |-> Intact(a) /\ Len(a) = PingSize]
        ELSE IF Refused(a) THEN Fed(b, x) = [buffer |-> <<>>, ping |-> FALSE]
        ELSE Fed(b, x) = [buffer |-> a, ping |-> FALSE]
    BY <2>2, FedLong
  <2>4. a \in Seq(Bytes) /\ Len(a) = Len(b) + 1 /\ a[Len(b) + 1] = x
    BY <1>1, AppendIs
  <2> HIDE DEF a
  <2>5. Complete(a)
    <3> SUFFICES ASSUME ~Complete(a) PROVE FALSE
      OBVIOUS
    <3>1. Fed(b, x).ping = FALSE
      BY <2>3
    <3> QED
      BY <3>1
  <2>6. Intact(a) /\ Len(a) = PingSize
    <3> SUFFICES ASSUME ~(Intact(a) /\ Len(a) = PingSize) PROVE FALSE
      OBVIOUS
    <3>1. (Intact(a) /\ Len(a) = PingSize) = FALSE
      OBVIOUS
    <3>2. Fed(b, x) = [buffer |-> <<>>, ping |-> Intact(a) /\ Len(a) = PingSize]
      BY <2>3, <2>5
    <3>3. Fed(b, x) = [buffer |-> <<>>, ping |-> FALSE]
      BY <3>1, <3>2
    <3> QED
      BY <3>3
  <2>7. Len(b) + 1 = 5 /\ 5 \in 1..Len(a)
    <3>1. Len(a) = 5
      BY <2>6, ValuesAre
    <3>2. Len(b) + 1 = Len(a)
      BY <2>4
    <3>3. 5 \in 1..5
      OBVIOUS
    <3> QED
      BY <3>1, <3>2, <3>3, Zenon
  <2>8. a[5].place = 5
    BY <2>6, <2>7 DEF Intact
  <2> QED
    BY <2>4, <2>7, <2>8
<1> QED
  BY <1>2, <1>3

\* Noise consists of bytes.
LEMMA NoiseIs == \A v \in NoiseValues : Noise(v) \in Bytes
<1>1. NoiseValues \subseteq Values
  BY ValuesAre DEF NoiseValues, Values
<1>2. 0 \in 0..MaxFrameSize
  BY ValuesAre
<1> QED
  BY <1>1, <1>2 DEF Noise, Bytes

\* What noise there may be at first.
LEMMA NoiseSeqsAre ==
  ASSUME NEW s \in NoiseSeqs(MaxNoise)
  PROVE  s \in Seq(Bytes) /\ Len(s) <= DownCapacity
<1>1. PICK k \in 0..MaxNoise : s \in [1..k -> {Noise(v) : v \in NoiseValues}]
  BY DEF NoiseSeqs
<1>2. k \in Nat /\ k <= DownCapacity
  BY LinkAssumption
<1>3. s \in [1..k -> Bytes]
  BY <1>1, NoiseIs
<1>4. s \in Seq(Bytes) /\ Len(s) = k
  BY <1>2, <1>3, FunctionIsSequence
<1> QED
  BY <1>2, <1>4

\* The bytes under way are this process's own, if there were none at its start.
OwnBytes ==
  Running /\ hist.fresh =>
    /\ Own(svc.written, down)
    /\ ~svc.ping => svc.written = 0 /\ up = 0 /\ ~svc.ackSeen

\* PingNeverLost as a ping is followed by the lemmas above.
PingInHub ==
  Running /\ svc.ping /\ hist.clean /\ ~svc.ackSeen /\ up = 0 =>
    /\ Own(svc.written, down)
    /\ svc.written - Len(down) \in 0..4
    /\ svc.written - Len(down) > 0 => Synced(svc.written - Len(down), hubBuf)

\* Invariant of every step.
LinkInv == LinkTypeOK /\ Shape(hubBuf) /\ OwnBytes /\ PingInHub /\ AckProvesPing

\* It holds at first.
LEMMA LinkInitInv == LinkInit => LinkInv
<1> SUFFICES ASSUME LinkInit PROVE LinkInv
  OBVIOUS
<1>1. <<>> \in Seq(Bytes) /\ Len(<<>>) = 0
  OBVIOUS
<1>2. Shape(hubBuf) /\ hubBuf \in Seq(Bytes) /\ Len(hubBuf) < MaxFrameSize
  BY <1>1, ValuesAre DEF LinkInit, Shape
<1>3. down \in Seq(Bytes) /\ Len(down) <= DownCapacity
  BY NoiseSeqsAre DEF LinkInit
<1>4. up \in 0..UpCapacity /\ 0 \in 0..MaxFaults /\ 0 \in 0..PingSize
  BY LinkAssumption, ValuesAre DEF LinkInit
<1>5. svc \in [state : {"off", "running", "completed", "failed"}, ping : BOOLEAN,
             written : 0..PingSize, capture : BOOLEAN, late : BOOLEAN,
             heartbeatSeen : BOOLEAN, ackSeen : BOOLEAN]
  BY <1>4 DEF LinkInit, Off
<1>6. hist \in [faults : 0..MaxFaults, clean : BOOLEAN, fresh : BOOLEAN]
  BY <1>4 DEF LinkInit, Started
<1>7. ~Running
  BY DEF LinkInit, Running, Off
<1> QED
  BY <1>2, <1>3, <1>4, <1>5, <1>6, <1>7 DEF LinkInv, LinkTypeOK, OwnBytes, PingInHub, AckProvesPing

\* The types, one by one.
LEMMA TypesAre ==
  ASSUME LinkTypeOK
  PROVE  /\ svc.state \in {"off", "running", "completed", "failed"} /\ svc.ping \in BOOLEAN
         /\ svc.written \in 0..5 /\ svc.capture \in BOOLEAN /\ svc.late \in BOOLEAN
         /\ svc.heartbeatSeen \in BOOLEAN /\ svc.ackSeen \in BOOLEAN
         /\ down \in Seq(Bytes) /\ Len(down) \in Nat /\ Len(down) <= DownCapacity
         /\ up \in Nat /\ up <= UpCapacity /\ UpCapacity \in Nat \ {0} /\ DownCapacity \in Nat
         /\ hist.faults \in 0..MaxFaults /\ hist.clean \in BOOLEAN /\ hist.fresh \in BOOLEAN
BY LinkAssumption, ValuesAre DEF LinkTypeOK

\* A byte of a ping reaches the hub.
LEMMA HubReceivesInv ==
  ASSUME LinkInv, HubReceives PROVE LinkInv'
<1> DEFINE x == Head(down)
           fed == Fed(hubBuf, x)
           room == up < UpCapacity
           r == svc.written - Len(down)
<1>0. LinkTypeOK /\ Shape(hubBuf) /\ OwnBytes /\ PingInHub /\ AckProvesPing
  BY DEF LinkInv
<1>1. /\ svc.ping \in BOOLEAN /\ svc.written \in 0..5 /\ svc.ackSeen \in BOOLEAN
      /\ down \in Seq(Bytes) /\ Len(down) \in Nat /\ Len(down) <= DownCapacity
      /\ up \in Nat /\ up <= UpCapacity /\ UpCapacity \in Nat \ {0}
      /\ hist.faults \in 0..MaxFaults /\ hist.clean \in BOOLEAN /\ hist.fresh \in BOOLEAN
  BY <1>0, TypesAre
<1>2. /\ down # <<>> /\ down' = Tail(down) /\ svc' = svc /\ hubBuf' = fed.buffer
      /\ up' = (IF fed.ping /\ room THEN up + 1 ELSE up)
      /\ hist' = [hist EXCEPT !.clean = @ /\ (x.place = 1 => Len(hubBuf) <= 1) /\ (fed.ping => room)]
  BY DEF HubReceives, Processed
<1>3. x \in Bytes /\ Tail(down) \in Seq(Bytes) /\ Len(Tail(down)) = Len(down) - 1
  BY <1>1, <1>2
<1>4. Shape(hubBuf)'
  BY <1>0, <1>2, <1>3, FedShape
<1>5. hubBuf' \in Seq(Bytes) /\ Len(hubBuf') < MaxFrameSize
  BY <1>4, ShapeIs
<1>6. up' \in 0..UpCapacity /\ (up' = up \/ (up' = up + 1 /\ fed.ping /\ room))
  BY <1>1, <1>2
<1>7. /\ hist'.fresh = hist.fresh /\ hist'.faults = hist.faults
      /\ hist'.clean = (hist.clean /\ (x.place = 1 => Len(hubBuf) <= 1) /\ (fed.ping => room))
      /\ hist' \in [faults : 0..MaxFaults, clean : BOOLEAN, fresh : BOOLEAN]
  <2> DEFINE c == hist.clean /\ (x.place = 1 => Len(hubBuf) <= 1) /\ (fed.ping => room)
  <2>1. hist' = [hist EXCEPT !.clean = c]
    BY <1>2
  <2>2. c \in BOOLEAN
    OBVIOUS
  <2> HIDE DEF c
  <2>3. hist \in [faults : 0..MaxFaults, clean : BOOLEAN, fresh : BOOLEAN]
    BY <1>0 DEF LinkTypeOK
  <2>4. hist'.fresh = hist.fresh /\ hist'.faults = hist.faults /\ hist'.clean = c
        /\ hist' \in [faults : 0..MaxFaults, clean : BOOLEAN, fresh : BOOLEAN]
    BY <2>1, <2>2, <2>3
  <2> QED
    BY <2>4 DEF c
<1>8. LinkTypeOK'
  <2>1. Len(down') <= DownCapacity
    BY <1>1, <1>2, <1>3, LinkAssumption
  <2> QED
    BY <1>0, <1>2, <1>3, <1>5, <1>6, <1>7, <2>1 DEF LinkTypeOK
<1>9. Own(svc.written, down) =>
        /\ Own(svc.written, Tail(down)) /\ svc.written - Len(Tail(down)) = r + 1
        /\ x = Ping[r + 1] /\ r \in 0..4
  BY <1>1, <1>2, OwnTail
<1> HIDE DEF x, fed, room
<1>10. ASSUME Running, hist.fresh, fed.ping
       PROVE  svc.ping /\ svc.written = 5 /\ Tail(down) = <<>>
  <2>1. Own(svc.written, down) /\ (~svc.ping => svc.written = 0)
    BY <1>0, <1>10 DEF OwnBytes
  <2>2. x.place = 5
    BY <1>0, <1>3, <1>10, FedPing DEF fed
  <2>3. r + 1 \in 1..5 /\ x = Ping[r + 1]
    BY <1>9, <2>1
  <2>4. r + 1 = 5
    BY <2>2, <2>3, PingIs
  <2>5. Len(down) # 0
    BY <1>1, <1>2
  <2>6. svc.written = 5 /\ Len(down) = 1
    <3>1. \A w \in 0..5, n \in Nat : n # 0 /\ w - n + 1 = 5 => w = 5 /\ n = 1
      OBVIOUS
    <3> QED
      BY <1>1, <2>4, <2>5, <3>1
  <2>7. Tail(down) = <<>>
    <3>1. Len(Tail(down)) = 0
      BY <1>3, <2>6
    <3> QED
      BY <1>3, <3>1, EmptySeq
  <2> QED
    BY <2>1, <2>6, <2>7
<1>11. AckProvesPing'
  <2> SUFFICES ASSUME Running', hist'.fresh, svc'.ackSeen \/ up' > 0
               PROVE  /\ svc'.ping /\ svc'.written = PingSize /\ down' = <<>>
                      /\ ~(svc'.ackSeen /\ up' > 0) /\ up' <= 1
    BY DEF AckProvesPing
  <2>1. Running /\ hist.fresh
    BY <1>2, <1>7 DEF Running
  <2>2. ~(svc.ackSeen \/ up > 0)
    BY <1>0, <1>2, <2>1 DEF AckProvesPing
  <2>3. up = 0 /\ up' = 1 /\ fed.ping
    BY <1>1, <1>2, <1>6, <2>2
  <2>4. svc.ping /\ svc.written = 5 /\ Tail(down) = <<>>
    BY <1>10, <2>1, <2>3
  <2> QED
    BY <1>2, <2>2, <2>3, <2>4, ValuesAre
<1>12. OwnBytes'
  <2> SUFFICES ASSUME Running', hist'.fresh
               PROVE  Own(svc'.written, down') /\ (~svc'.ping => svc'.written = 0 /\ up' = 0 /\ ~svc'.ackSeen)
    BY DEF OwnBytes
  <2>1. Running /\ hist.fresh
    BY <1>2, <1>7 DEF Running
  <2>2. Own(svc.written, down) /\ (~svc.ping => svc.written = 0 /\ up = 0 /\ ~svc.ackSeen)
    BY <1>0, <2>1 DEF OwnBytes
  <2>3. ~svc.ping => ~fed.ping
    BY <1>10, <2>1
  <2> QED
    BY <1>2, <1>6, <1>9, <2>2, <2>3
<1>13. PingInHub'
  <2> SUFFICES ASSUME Running', svc'.ping, hist'.clean, ~svc'.ackSeen, up' = 0
               PROVE  /\ Own(svc'.written, down') /\ svc'.written - Len(down') \in 0..4
                      /\ svc'.written - Len(down') > 0 => Synced(svc'.written - Len(down'), hubBuf')
    BY DEF PingInHub
  <2>1. Running /\ svc.ping /\ ~svc.ackSeen
    BY <1>2 DEF Running
  <2>2. hist.clean /\ (x.place = 1 => Len(hubBuf) <= 1) /\ (fed.ping => room)
    BY <1>7
  <2>3. up = 0 /\ ~fed.ping
    BY <1>1, <1>2, <1>6, <2>2
  <2>4. Own(svc.written, down) /\ r \in 0..4 /\ (r > 0 => Synced(r, hubBuf))
    BY <1>0, <2>1, <2>2, <2>3 DEF PingInHub
  <2> HIDE DEF r
  <2>5. Own(svc.written, Tail(down)) /\ svc.written - Len(Tail(down)) = r + 1 /\ x = Ping[r + 1]
    BY <1>9, <2>4
  <2>6. Synced(r, hubBuf)
    <3>1. CASE r = 0
      <4>1. x.place = 1
        BY <2>5, <3>1, PingIs
      <4> QED
        BY <2>2, <3>1, <4>1 DEF Synced
    <3> QED
      BY <2>4, <3>1
  <2>7. IF r = 4 THEN fed.ping /\ fed.buffer = <<>> ELSE ~fed.ping /\ Synced(r + 1, fed.buffer)
    BY <1>0, <2>4, <2>5, <2>6, SyncedStep DEF fed
  <2>8. r # 4 /\ Synced(r + 1, hubBuf')
    BY <1>2, <2>3, <2>7
  <2>9. r + 1 \in 0..4
    BY <2>4, <2>8
  <2> QED
    BY <1>2, <2>5, <2>8, <2>9
<1> QED
  BY <1>4, <1>8, <1>11, <1>12, <1>13 DEF LinkInv

\* A lost or changed byte leaves nothing to promise but for a fresh start.
LEMMA DownlinkFailsInv ==
  ASSUME LinkInv, DownlinkFails PROVE LinkInv'
<1>0. LinkTypeOK /\ Shape(hubBuf) /\ OwnBytes /\ PingInHub /\ AckProvesPing
  BY DEF LinkInv
<1>1. /\ svc.written \in 0..5 /\ down \in Seq(Bytes) /\ Len(down) \in Nat /\ Len(down) <= DownCapacity
      /\ hist.faults \in 0..MaxFaults /\ hist.fresh \in BOOLEAN /\ MaxFaults \in Nat /\ DownCapacity \in Nat
  BY <1>0, TypesAre, LinkAssumption
<1>2. /\ down # <<>> /\ down' = Tail(down) /\ svc' = svc /\ up' = up /\ hist.faults < MaxFaults
      /\ hist' = [faults |-> hist.faults + 1, clean |-> FALSE, fresh |-> hist.fresh]
  BY DEF DownlinkFails, Started
<1>3. Shape(hubBuf)'
  <2>1. PICK bytes \in Damaged :
          hubBuf' = IF bytes = <<>> THEN hubBuf ELSE Fed(hubBuf, Head(bytes)).buffer
    BY DEF DownlinkFails
  <2>2. CASE bytes = <<>>
    BY <1>0, <2>1, <2>2
  <2>3. CASE bytes # <<>>
    <3>1. PICK v \in NoiseValues : bytes = <<Noise(v)>>
      BY <2>3 DEF Damaged
    <3>2. Head(bytes) = Noise(v)
      BY <3>1
    <3> QED
      BY <1>0, <2>1, <2>3, <3>2, NoiseIs, FedShape
  <2> QED
    BY <2>2, <2>3
<1>4. hubBuf' \in Seq(Bytes) /\ Len(hubBuf') < MaxFrameSize
  BY <1>3, ShapeIs
<1>5. Tail(down) \in Seq(Bytes) /\ Len(Tail(down)) <= DownCapacity
  BY <1>1, <1>2
<1>6. LinkTypeOK'
  <2>1. hist' \in [faults : 0..MaxFaults, clean : BOOLEAN, fresh : BOOLEAN]
    BY <1>1, <1>2
  <2> QED
    BY <1>0, <1>2, <1>4, <1>5, <2>1 DEF LinkTypeOK
<1>7. hist'.fresh = hist.fresh /\ ~hist'.clean
  BY <1>2
<1>8. OwnBytes'
  <2> SUFFICES ASSUME Running', hist'.fresh
               PROVE  Own(svc'.written, down') /\ (~svc'.ping => svc'.written = 0 /\ up' = 0 /\ ~svc'.ackSeen)
    BY DEF OwnBytes
  <2>1. Running /\ hist.fresh
    BY <1>2, <1>7 DEF Running
  <2>2. Own(svc.written, down) /\ (~svc.ping => svc.written = 0 /\ up = 0 /\ ~svc.ackSeen)
    BY <1>0, <2>1 DEF OwnBytes
  <2>3. Own(svc.written, Tail(down))
    BY <1>1, <1>2, <2>2, OwnTail
  <2> QED
    BY <1>2, <2>2, <2>3
<1>9. PingInHub'
  BY <1>7 DEF PingInHub
<1>10. AckProvesPing'
  <2> SUFFICES ASSUME Running', hist'.fresh, svc'.ackSeen \/ up' > 0 PROVE FALSE
    BY DEF AckProvesPing
  <2>1. Running /\ hist.fresh /\ (svc.ackSeen \/ up > 0)
    BY <1>2, <1>7 DEF Running
  <2> QED
    BY <1>0, <1>2, <2>1 DEF AckProvesPing
<1> QED
  BY <1>3, <1>6, <1>8, <1>9, <1>10 DEF LinkInv

\* A lost acknowledgement was the only one.
LEMMA UplinkFailsInv ==
  ASSUME LinkInv, UplinkFails PROVE LinkInv'
<1>0. LinkTypeOK /\ Shape(hubBuf) /\ OwnBytes /\ PingInHub /\ AckProvesPing
  BY DEF LinkInv
<1>1. up \in Nat /\ up <= UpCapacity /\ UpCapacity \in Nat
  BY <1>0, TypesAre
<1>2. /\ up > 0 /\ up' = up - 1 /\ svc' = svc /\ hubBuf' = hubBuf /\ down' = down
      /\ hist' = [hist EXCEPT !.clean = FALSE]
  BY DEF UplinkFails
<1>3. hist' \in [faults : 0..MaxFaults, clean : BOOLEAN, fresh : BOOLEAN]
      /\ hist'.fresh = hist.fresh /\ ~hist'.clean
  BY <1>0, <1>2 DEF LinkTypeOK
<1>4. LinkTypeOK'
  <2>1. up' \in 0..UpCapacity
    BY <1>1, <1>2
  <2> QED
    BY <1>0, <1>2, <1>3, <2>1 DEF LinkTypeOK
<1>5. OwnBytes'
  <2>1. Running /\ hist.fresh => svc.ping
    BY <1>0, <1>1, <1>2 DEF OwnBytes
  <2>2. Running' = Running
    BY <1>2 DEF Running
  <2> QED
    BY <1>0, <1>2, <1>3, <2>1, <2>2 DEF OwnBytes
<1>6. PingInHub'
  BY <1>3 DEF PingInHub
<1>7. AckProvesPing'
  <2> SUFFICES ASSUME Running', hist'.fresh, svc'.ackSeen \/ up' > 0 PROVE FALSE
    BY DEF AckProvesPing
  <2>1. Running /\ hist.fresh
    BY <1>2, <1>3 DEF Running
  <2>2. ~svc.ackSeen /\ up <= 1
    BY <1>0, <1>2, <2>1 DEF AckProvesPing
  <2> QED
    BY <1>1, <1>2, <2>2
<1> QED
  BY <1>0, <1>2, <1>4, <1>5, <1>6, <1>7 DEF LinkInv

\* A new process has written nothing.
LEMMA StartInv ==
  ASSUME LinkInv, Start PROVE LinkInv'
<1>0. LinkTypeOK /\ Shape(hubBuf)
  BY DEF LinkInv
<1>1. up \in Nat /\ up <= UpCapacity /\ UpCapacity \in Nat
  BY <1>0, TypesAre
<1>2. PICK ping \in BOOLEAN, capture \in BOOLEAN, late \in 0..up :
       /\ svc' = [Off EXCEPT !.state = "running", !.ping = ping, !.capture = capture]
       /\ up' = late
       /\ hist' = Started(hist.faults, down = <<>>, down = <<>> /\ late = 0)
  BY DEF Start
<1>3. hubBuf' = hubBuf /\ down' = down
  BY DEF Start
<1>4. svc' = [state |-> "running", ping |-> ping, written |-> 0, capture |-> capture, late |-> FALSE,
              heartbeatSeen |-> FALSE, ackSeen |-> FALSE]
  BY <1>2 DEF Off
<1>5. svc'.ping = ping /\ svc'.written = 0 /\ ~svc'.ackSeen
  BY <1>4
<1>6. hist'.fresh = (down = <<>> /\ late = 0) /\ hist'.clean = (down = <<>>)
  BY <1>2 DEF Started
<1>7. LinkTypeOK'
  <2>1. svc' \in [state : {"off", "running", "completed", "failed"}, ping : BOOLEAN,
             written : 0..PingSize, capture : BOOLEAN, late : BOOLEAN,
             heartbeatSeen : BOOLEAN, ackSeen : BOOLEAN]
    <3>1. 0 \in 0..PingSize
      BY ValuesAre
    <3> QED
      BY <1>4, <3>1
  <2>2. hist' \in [faults : 0..MaxFaults, clean : BOOLEAN, fresh : BOOLEAN]
    <3>1. (down = <<>>) \in BOOLEAN /\ (down = <<>> /\ late = 0) \in BOOLEAN /\ hist.faults \in 0..MaxFaults
      BY <1>0, TypesAre
    <3> QED
      BY <1>2, <3>1, Zenon DEF Started
  <2>3. up' \in 0..UpCapacity
    BY <1>1, <1>2
  <2> QED
    BY <1>0, <1>3, <2>1, <2>2, <2>3 DEF LinkTypeOK
<1>8. 0 \in 0..5 /\ Len(<<>>) = 0 /\ 0 - 0 = 0 /\ 0 \in 0..4 /\ ~(0 > 0)
  OBVIOUS
<1>9. OwnBytes'
  <2> SUFFICES ASSUME hist'.fresh
               PROVE  Own(svc'.written, down') /\ (~svc'.ping => svc'.written = 0 /\ up' = 0 /\ ~svc'.ackSeen)
    BY DEF OwnBytes
  <2>1. down = <<>> /\ late = 0
    BY <1>6
  <2> QED
    BY <1>2, <1>3, <1>5, <1>8, <2>1, OwnNothing
<1>10. PingInHub'
  <2> SUFFICES ASSUME hist'.clean
               PROVE  /\ Own(svc'.written, down') /\ svc'.written - Len(down') \in 0..4
                      /\ svc'.written - Len(down') > 0 => Synced(svc'.written - Len(down'), hubBuf')
    BY DEF PingInHub
  <2>1. down = <<>>
    BY <1>6
  <2>2. svc'.written = 0 /\ down' = <<>>
    BY <1>3, <1>5, <2>1
  <2>3. svc'.written - Len(down') = 0
    BY <1>8, <2>2
  <2> QED
    BY <1>8, <2>2, <2>3, OwnNothing
<1>11. AckProvesPing'
  <2> SUFFICES ASSUME hist'.fresh, svc'.ackSeen \/ up' > 0 PROVE FALSE
    BY DEF AckProvesPing
  <2>1. late = 0
    BY <1>6
  <2> QED
    BY <1>2, <1>5, <2>1
<1> QED
  BY <1>0, <1>3, <1>7, <1>9, <1>10, <1>11 DEF LinkInv

\* A poll writes the next bytes, gives up, or takes what has come.
LEMMA PollInv ==
  ASSUME LinkInv, Poll PROVE LinkInv'
<1> DEFINE w == svc.written
<1>0. LinkTypeOK /\ Shape(hubBuf) /\ OwnBytes /\ PingInHub /\ AckProvesPing
  BY DEF LinkInv
<1>1. /\ svc.ping \in BOOLEAN /\ w \in 0..5 /\ svc.ackSeen \in BOOLEAN
      /\ svc.heartbeatSeen \in BOOLEAN
      /\ down \in Seq(Bytes) /\ Len(down) \in Nat
      /\ up \in Nat /\ up <= UpCapacity /\ UpCapacity \in Nat
  BY <1>0, TypesAre
<1>2. PICK heartbeat \in BOOLEAN : PollWith(heartbeat)
  BY DEF Poll
<1>3. PICK n \in 0..(IF CommandSent(svc) THEN 0 ELSE PingSize - w) :
       /\ Len(down) + n <= DownCapacity
       /\ down' = down \o Written(n)
       /\ LET s == [svc EXCEPT !.written = @ + n] IN
          \/ /\ ~CommandSent(s)
             /\ svc' = s /\ UNCHANGED up
          \/ /\ CommandSent(s) /\ DeadlineReached
             /\ svc' = Ended(Verdict(s)) /\ UNCHANGED up
          \/ /\ CommandSent(s) /\ ~DeadlineReached
             /\ \E acks \in 0..up :
                  svc' = Applied(s, heartbeat, acks) /\ up' = up - acks
  BY <1>2 DEF PollWith
<1>4. Running /\ hubBuf' = hubBuf /\ hist' = hist
  BY <1>2 DEF PollWith
<1>5. n \in 0..(5 - w) /\ (CommandSent(svc) => n = 0)
  BY <1>1, <1>3, ValuesAre
<1>6. /\ down' \in Seq(Bytes) /\ Len(down') = Len(down) + n
      /\ n = 0 => down' = down
      /\ Own(w, down) => Own(w + n, down')
  BY <1>1, <1>3, <1>5, OwnWritten DEF Written
<1> DEFINE s == [svc EXCEPT !.written = @ + n]
           S == [state : {"off", "running", "completed", "failed"}, ping : BOOLEAN,
                 written : 0..PingSize, capture : BOOLEAN, late : BOOLEAN,
                 heartbeatSeen : BOOLEAN, ackSeen : BOOLEAN]
<1>7. s \in S /\ s.ping = svc.ping /\ s.written = w + n /\ s.ackSeen = svc.ackSeen /\ s.state = svc.state
      /\ s.heartbeatSeen \in BOOLEAN
  <2>1. svc \in S
    BY <1>0 DEF LinkTypeOK
  <2>2. w + n \in 0..PingSize
    BY <1>1, <1>5, ValuesAre
  <2> QED
    BY <2>1, <2>2
<1>8. LinkTypeOK' /\ OwnBytes' /\ PingInHub' /\ AckProvesPing'
  <2>a. Len(down') <= DownCapacity
    BY <1>3, <1>6
  <2>1. CASE CommandSent(s) /\ svc' = Ended(Verdict(s)) /\ up' = up
    <3>1. Verdict(s) \in {"completed", "failed"}
      BY DEF Verdict
    <3>2. svc' \in S /\ svc'.state # "running"
      <4>1. svc' = [state |-> Verdict(s), ping |-> FALSE, written |-> 0, capture |-> FALSE, late |-> FALSE,
                    heartbeatSeen |-> FALSE, ackSeen |-> FALSE]
        BY <2>1 DEF Ended, Off
      <4>2. 0 \in 0..PingSize
        BY ValuesAre
      <4> HIDE DEF s
      <4> QED
        BY <3>1, <4>1, <4>2
    <3>3. ~Running'
      BY <3>2 DEF Running
    <3>4. LinkTypeOK'
      BY <1>0, <1>4, <1>6, <2>1, <2>a, <3>2 DEF LinkTypeOK
    <3> QED
      BY <3>3, <3>4 DEF OwnBytes, PingInHub, AckProvesPing
  <2>2. ASSUME NEW acks \in 0..up, up' = up - acks, svc' \in S, svc'.ping = svc.ping, svc'.written = w + n,
               svc'.ackSeen = (svc.ackSeen \/ acks > 0), CommandSent(s) \/ acks = 0
        PROVE  LinkTypeOK' /\ OwnBytes' /\ PingInHub' /\ AckProvesPing'
    <3>1. up' \in 0..UpCapacity
      BY <1>1, <2>2
    <3>2. LinkTypeOK'
      BY <1>0, <1>4, <1>6, <2>2, <2>a, <3>1 DEF LinkTypeOK
    <3>3. OwnBytes'
      <4> SUFFICES ASSUME hist'.fresh
                   PROVE  Own(svc'.written, down') /\ (~svc'.ping => svc'.written = 0 /\ up' = 0 /\ ~svc'.ackSeen)
        BY DEF OwnBytes
      <4>1. Own(w, down) /\ (~svc.ping => w = 0 /\ up = 0 /\ ~svc.ackSeen)
        BY <1>0, <1>4 DEF OwnBytes
      <4>2. ~svc.ping => n = 0
        BY <1>5 DEF CommandSent
      <4>3. up = 0 => acks = 0
        BY <2>2
      <4>4. Own(svc'.written, down')
        BY <1>6, <2>2, <4>1
      <4>5. ~svc.ping => w + n = 0 /\ up - acks = 0 /\ ~(svc.ackSeen \/ acks > 0)
        BY <4>1, <4>2, <4>3
      <4> QED
        BY <2>2, <4>4, <4>5
    <3>4. PingInHub'
      <4> SUFFICES ASSUME svc'.ping, hist'.clean, ~svc'.ackSeen, up' = 0
                   PROVE  /\ Own(svc'.written, down') /\ svc'.written - Len(down') \in 0..4
                          /\ svc'.written - Len(down') > 0 => Synced(svc'.written - Len(down'), hubBuf')
        BY DEF PingInHub
      <4>1. svc.ping /\ hist.clean /\ ~svc.ackSeen /\ acks = 0
        BY <1>4, <2>2
      <4>2. up = 0
        BY <1>1, <2>2, <4>1
      <4>3. Own(w, down) /\ w - Len(down) \in 0..4 /\ (w - Len(down) > 0 => Synced(w - Len(down), hubBuf))
        BY <1>0, <1>4, <4>1, <4>2 DEF PingInHub
      <4>4. (w + n) - Len(down') = w - Len(down)
        BY <1>1, <1>5, <1>6
      <4>5. svc'.written - Len(down') = w - Len(down) /\ Own(svc'.written, down')
        BY <1>6, <2>2, <4>3, <4>4
      <4> QED
        BY <1>4, <4>3, <4>5
    <3>5. AckProvesPing'
      <4> SUFFICES ASSUME hist'.fresh, svc'.ackSeen \/ up' > 0
                   PROVE  /\ svc'.ping /\ svc'.written = PingSize /\ down' = <<>>
                          /\ ~(svc'.ackSeen /\ up' > 0) /\ up' <= 1
        BY DEF AckProvesPing
      <4>1. svc.ackSeen \/ up > 0
        BY <1>1, <2>2
      <4>2. svc.ping /\ w = PingSize /\ down = <<>> /\ ~(svc.ackSeen /\ up > 0) /\ up <= 1
        BY <1>0, <1>4, <4>1 DEF AckProvesPing
      <4>3. n = 0 /\ down' = <<>>
        BY <1>5, <1>6, <4>2 DEF CommandSent
      <4>4. w + n = PingSize
        BY <1>1, <4>2, <4>3
      <4>5. up - acks <= 1 /\ (acks > 0 => up - acks = 0) /\ (svc.ackSeen => up - acks = 0)
        BY <1>1, <4>2
      <4> QED
        BY <2>2, <4>2, <4>3, <4>4, <4>5
    <3> QED
      BY <3>2, <3>3, <3>4, <3>5
  <2>3. CASE svc' = s /\ up' = up
    <3>1. 0 \in 0..up /\ up' = up - 0
      BY <1>1, <2>3
    <3>2. svc'.ackSeen = (svc.ackSeen \/ 0 > 0)
      BY <1>7, <2>3
    <3> QED
      BY <1>7, <2>2, <2>3, <3>1, <3>2
  <2>4. CASE CommandSent(s) /\ \E acks \in 0..up : svc' = Applied(s, heartbeat, acks) /\ up' = up - acks
    <3> PICK acks \in 0..up : svc' = Applied(s, heartbeat, acks) /\ up' = up - acks
      BY <2>4
    <3> DEFINE h == s.heartbeatSeen \/ heartbeat
               a == s.ackSeen \/ acks > 0
    <3>1. svc' = [s EXCEPT !.heartbeatSeen = h, !.ackSeen = a]
      BY DEF Applied
    <3>2. h \in BOOLEAN /\ a \in BOOLEAN /\ a = (svc.ackSeen \/ acks > 0)
      BY <1>7
    <3> HIDE DEF h, a, s
    <3>3. svc' \in S /\ svc'.ping = svc.ping /\ svc'.written = w + n /\ svc'.ackSeen = a
      BY <1>7, <3>1, <3>2
    <3> HIDE DEF S
    <3> QED
      BY <2>2, <2>4, <3>2, <3>3
  <2> QED
    BY <1>3, <2>1, <2>3, <2>4
<1> QED
  BY <1>0, <1>4, <1>8 DEF LinkInv

\* The deadline is not looked at.
LEMMA TimePassesInv ==
  ASSUME LinkInv, TimePasses PROVE LinkInv'
<1>0. LinkTypeOK /\ Shape(hubBuf) /\ OwnBytes /\ PingInHub /\ AckProvesPing
  BY DEF LinkInv
<1>1. svc' = [svc EXCEPT !.late = TRUE] /\ hubBuf' = hubBuf /\ down' = down /\ up' = up /\ hist' = hist
  BY DEF TimePasses
<1>2. /\ LinkTypeOK'
      /\ svc'.state = svc.state /\ svc'.ping = svc.ping /\ svc'.written = svc.written /\ svc'.ackSeen = svc.ackSeen
  BY <1>0, <1>1 DEF LinkTypeOK
<1> QED
  BY <1>0, <1>1, <1>2 DEF LinkInv, OwnBytes, PingInHub, AckProvesPing, Running

\* A process that is gone promises nothing.
LEMMA DiesInv ==
  ASSUME LinkInv, Dies PROVE LinkInv'
<1>0. LinkTypeOK /\ Shape(hubBuf)
  BY DEF LinkInv
<1> DEFINE cut == svc.written \in 1..(PingSize - 1)
<1>1. /\ cut => hist.faults < MaxFaults
      /\ svc' = Ended("failed") /\ hubBuf' = hubBuf /\ down' = down /\ up' = up
      /\ hist' = [hist EXCEPT !.faults = IF cut THEN @ + 1 ELSE @]
  BY DEF Dies
<1>2. svc' = [state |-> "failed", ping |-> FALSE, written |-> 0, capture |-> FALSE, late |-> FALSE,
              heartbeatSeen |-> FALSE, ackSeen |-> FALSE]
  BY <1>1 DEF Ended, Off
<1>3. ~Running'
  BY <1>2 DEF Running
<1>4. LinkTypeOK'
  <2>1. 0 \in 0..PingSize
    BY ValuesAre
  <2> DEFINE faults == IF cut THEN hist.faults + 1 ELSE hist.faults
  <2>2. faults \in 0..MaxFaults
    BY <1>0, <1>1, TypesAre, LinkAssumption
  <2>3. hist' = [hist EXCEPT !.faults = faults]
    BY <1>1
  <2> HIDE DEF faults
  <2>4. hist' \in [faults : 0..MaxFaults, clean : BOOLEAN, fresh : BOOLEAN]
    BY <1>0, <2>2, <2>3 DEF LinkTypeOK
  <2>5. svc' \in [state : {"off", "running", "completed", "failed"}, ping : BOOLEAN,
             written : 0..PingSize, capture : BOOLEAN, late : BOOLEAN,
             heartbeatSeen : BOOLEAN, ackSeen : BOOLEAN]
    BY <1>2, <2>1
  <2>6. hubBuf' = hubBuf /\ down' = down /\ up' = up
    BY <1>1
  <2> HIDE DEF cut
  <2> QED
    BY <1>0, <2>4, <2>5, <2>6 DEF LinkTypeOK
<1> QED
  BY <1>0, <1>1, <1>3, <1>4 DEF LinkInv, OwnBytes, PingInHub, AckProvesPing

\* The invariant holds in every state.
LEMMA LinkInvCorrect == LinkSpec => []LinkInv
<1>1. LinkInit => LinkInv
  BY LinkInitInv
<1>2. LinkInv /\ [LinkNext]_linkVars => LinkInv'
  <2> SUFFICES ASSUME LinkInv, [LinkNext]_linkVars PROVE LinkInv'
    OBVIOUS
  <2>1. CASE UNCHANGED linkVars
    BY <2>1 DEF linkVars, LinkInv, LinkTypeOK, Shape, OwnBytes, PingInHub, AckProvesPing, Running, BadHeader, Announced, Own, Synced
  <2>2. CASE LinkNext
    BY <2>2, HubReceivesInv, DownlinkFailsInv, UplinkFailsInv, StartInv, PollInv, TimePassesInv, DiesInv
    DEF LinkNext
  <2> QED
    BY <2>1, <2>2
<1> QED
  BY <1>1, <1>2, PTL DEF LinkSpec

\* Status, buffers and the lines keep their ranges; the buffer of the hub never
\* holds a whole frame of the largest size between two bytes.
THEOREM LinkTypeCorrect == LinkSpec => []LinkTypeOK
BY LinkInvCorrect, PTL DEF LinkInv

\* Whatever the noise, and however long the longest payload, the last of
\* Enough pings starts behind all that noise can swallow.
LEMMA EnoughIsDue ==
  ASSUME NEW noise
  PROVE  Enough \in Nat /\ Enough \in Due(noise, Enough)
<1>1. Swallowed \in Nat /\ PingSize = 5
  BY DecoderAssumption DEF Swallowed, CrcSize, PingSize, FrameSize, HeaderSize, PingPayload
<1>2. /\ Swallowed \div 5 \in Nat
      /\ Swallowed < ((Swallowed \div 5) + 1) * 5
  BY <1>1, SMTT(30)
<1>3. Enough = (Swallowed \div 5) + 2
  BY <1>1 DEF Enough
<1>4. (Enough - 1) * PingSize >= Swallowed /\ Enough \in 1..Enough
  BY <1>1, <1>2, <1>3
<1> QED
  BY <1>3, <1>4, <1>2 DEF Due

\* Behind whatever the hub holds and the line carries when no process writes,
\* both decoders find every ping that is due, for every payload limit; of
\* Enough pings one is due at any rate.
THEOREM DecodersCorrect == LinkSpec => []DecodersResynchronize
<1>1. LinkInv => DecodersResynchronize
  <2> SUFFICES ASSUME LinkInv PROVE DecodersResynchronize
    OBVIOUS
  <2>1. hubBuf \in Seq(Bytes) /\ Len(hubBuf) < MaxFrameSize /\ down \in Seq(Bytes)
    BY DEF LinkInv, LinkTypeOK
  <2>2. hubBuf \o down \in Seq(Bytes)
    BY <2>1
  <2>3. Enough \in Nat /\ Enough \in Due(hubBuf \o down, Enough)
    BY EnoughIsDue
  <2>4. HubFinds(hubBuf \o down, Enough) /\ HostFinds(hubBuf \o down, Enough)
    BY <2>2, <2>3, HubFindsAll, HostFindsAll
  <2> QED
    BY <2>1, <2>3, <2>4 DEF DecodersResynchronize
<1> QED
  BY <1>1, LinkInvCorrect, PTL

\* No byte of a ping gets lost between write() and the acknowledgement on a
\* clean line.
THEOREM PingCorrect == LinkSpec => []PingNeverLost
<1>1. LinkInv => PingNeverLost
  <2> DEFINE r == svc.written - Len(down)
  <2> SUFFICES ASSUME LinkInv, Running, svc.ping, hist.clean, ~svc.ackSeen, up = 0
               PROVE  /\ r \in 0..(PingSize - 1)
                      /\ down = SubSeq(Ping, r + 1, svc.written)
                      /\ r > 0 => hubBuf = SubSeq(Ping, 1, r)
    BY DEF PingNeverLost
  <2>1. Own(svc.written, down) /\ r \in 0..4 /\ (r > 0 => Synced(r, hubBuf))
    BY DEF LinkInv, PingInHub
  <2>2. svc.written \in 0..5 /\ down \in Seq(Bytes) /\ hubBuf \in Seq(Bytes)
    BY TypesAre DEF LinkInv, LinkTypeOK
  <2>3. down = SubSeq(Ping, r + 1, svc.written)
    BY <2>1, <2>2, OwnIs DEF Own
  <2> HIDE DEF r
  <2>4. ASSUME r > 0 PROVE hubBuf = SubSeq(Ping, 1, r)
    <3>1. Len(hubBuf) = r /\ \A m \in 1..r : hubBuf[m] = Ping[m]
      BY <2>1, <2>4 DEF Synced
    <3>2. r \in 0..5 /\ r - r + 1 = 1 /\ \A m \in 1..r : r - r + m = m
      BY <2>1
    <3>3. Own(r, hubBuf) /\ Len(hubBuf) <= r
      BY <3>1, <3>2 DEF Own
    <3>4. hubBuf = SubSeq(Ping, r - Len(hubBuf) + 1, r)
      BY <2>2, <3>2, <3>3, OwnIs
    <3> QED
      BY <3>1, <3>2, <3>4
  <2>5. r \in 0..(PingSize - 1)
    BY <2>1, ValuesAre
  <2> QED
    BY <2>3, <2>4, <2>5
<1> QED
  BY <1>1, LinkInvCorrect, PTL

\* Of a process that started on an empty line, an acknowledgement answers its
\* own whole ping, and there is one.
THEOREM AckCorrect == LinkSpec => []AckProvesPing
BY LinkInvCorrect, PTL DEF LinkInv
=============================================================================
