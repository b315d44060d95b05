------------------------ MODULE UartTxChannelProofs ------------------------
(***************************************************************************)
(* Safety of the transmit channel for every ring capacity, every set of    *)
(* frame lengths and every bound.                                          *)
(***************************************************************************)
EXTENDS UartTxChannel, SequenceTheorems, TLAPS

\* The main loop is about to look at the ring and start it if it is idle.
WillKick == pc \in {"kick", "peek", "arm", "transmit"}

\* The frame in the hands of the enqueue fits behind what is pending.
FrameFits ==
  /\ pc = "check" => length > 0
  /\ Writing => length > 0 /\ length <= Free
  /\ pc = "copy" => copied < length
  /\ pc = "publish" => copied = length

\* Between the test of active_length and the call of the HAL the interrupt
\* is silent, so what the main loop peeked is still what the ring holds.
KickIsAlone ==
  /\ pc \in {"peek", "arm", "transmit"} => gState = "READY"
  /\ pc \in {"arm", "transmit"} =>
       length > 0 /\ length = Contiguous(tail) /\ peeked = tail
  /\ pc = "transmit" => activeLength = length

\* A running transfer is the pending bytes from the tail on, up to a length
\* that does not wrap, and the HAL points at the first one not sent.
TransferInRing ==
  /\ gState = "BUSY_TX" =>
       /\ activeLength <= Contiguous(tail)
       /\ txCount <= activeLength
       /\ txPtr = tail + activeLength - txCount
       /\ Len(wire) = accepted - Pending + activeLength - txCount
  /\ gState = "READY" => Len(wire) = accepted - Pending

Awake == head # tail /\ gState = "READY" => WillKick

IInv ==
  /\ TypeOK
  /\ RingHoldsStream
  /\ FrameFits
  /\ KickIsAlone
  /\ TransferInRing
  /\ ActiveMatchesHal
  /\ Awake
  /\ WireIsAcceptedPrefix
-----------------------------------------------------------------------------
\* The modulo of the ring indices is one conditional subtraction.
LEMMA WrapSubtracts ==
  ASSUME NEW i \in 0..(2 * Capacity - 1)
  PROVE  Wrap(i) = IF i < Capacity THEN i ELSE i - Capacity
BY ConstantsAssumption, SMTT(30) DEF Wrap

\* The main loop starts with an empty ring and an idle transmitter.
LEMMA InitIInv == Init => IInv
<1> SUFFICES ASSUME Init PROVE IInv
  OBVIOUS
<1>1. TypeOK
  BY ConstantsAssumption DEF Init, TypeOK, Slots, MainSteps
<1>2. RingHoldsStream
  BY ConstantsAssumption DEF Init, RingHoldsStream, Offset, Written, Writing, Pending, Slots
<1>3. FrameFits /\ KickIsAlone /\ Awake
  BY DEF Init, FrameFits, KickIsAlone, Awake, Writing
<1>4. TransferInRing /\ ActiveMatchesHal /\ WireIsAcceptedPrefix
  BY DEF Init, TransferInRing, ActiveMatchesHal, WireIsAcceptedPrefix, Pending
<1> QED
  BY <1>1, <1>2, <1>3, <1>4 DEF IInv

\* No step of either side disturbs the invariant.
LEMMA StepIInv == IInv /\ [Next]_vars => IInv'
<1> SUFFICES ASSUME IInv, [Next]_vars PROVE IInv'
  OBVIOUS
<1> USE ConstantsAssumption DEF IInv, TypeOK, Slots, MainSteps
<1>1. ASSUME NEW n \in Lengths, SendFrame(n) PROVE IInv'
  <2>1. TypeOK'
    BY <1>1 DEF SendFrame, queueVars, halVars, mainVars, Pending, Free, Contiguous
  <2>2. RingHoldsStream'
    BY <1>1 DEF SendFrame, queueVars, halVars, mainVars, RingHoldsStream, Offset, Written, Writing, Pending, Free
  <2>3. FrameFits'
    BY <1>1 DEF SendFrame, queueVars, halVars, mainVars, FrameFits, Writing, Free, Pending
  <2>4. KickIsAlone'
    BY <1>1 DEF SendFrame, queueVars, halVars, mainVars, KickIsAlone, Contiguous, ActiveMatchesHal
  <2>5. TransferInRing'
    BY <1>1 DEF SendFrame, queueVars, halVars, mainVars, TransferInRing, KickIsAlone, Contiguous, Pending
  <2>6. ActiveMatchesHal' /\ Awake'
    BY <1>1 DEF SendFrame, queueVars, halVars, mainVars, ActiveMatchesHal, Awake, WillKick, KickIsAlone, Contiguous
  <2>7. WireIsAcceptedPrefix'
    BY <1>1 DEF SendFrame, queueVars, halVars, mainVars, WireIsAcceptedPrefix
  <2> QED
    BY <2>1, <2>2, <2>3, <2>4, <2>5, <2>6, <2>7
<1>2. CASE Poll
  <2>1. TypeOK'
    BY <1>2 DEF Poll, queueVars, halVars, mainVars, Pending, Free, Contiguous
  <2>2. RingHoldsStream'
    BY <1>2 DEF Poll, queueVars, halVars, mainVars, RingHoldsStream, Offset, Written, Writing, Pending, Free
  <2>3. FrameFits'
    BY <1>2 DEF Poll, queueVars, halVars, mainVars, FrameFits, Writing, Free, Pending
  <2>4. KickIsAlone'
    BY <1>2 DEF Poll, queueVars, halVars, mainVars, KickIsAlone, Contiguous, ActiveMatchesHal
  <2>5. TransferInRing'
    BY <1>2 DEF Poll, queueVars, halVars, mainVars, TransferInRing, KickIsAlone, Contiguous, Pending
  <2>6. ActiveMatchesHal' /\ Awake'
    BY <1>2 DEF Poll, queueVars, halVars, mainVars, ActiveMatchesHal, Awake, WillKick, KickIsAlone, Contiguous
  <2>7. WireIsAcceptedPrefix'
    BY <1>2 DEF Poll, queueVars, halVars, mainVars, WireIsAcceptedPrefix
  <2> QED
    BY <2>1, <2>2, <2>3, <2>4, <2>5, <2>6, <2>7
<1>3. CASE CheckFree
  <2>1. TypeOK'
    BY <1>3 DEF CheckFree, queueVars, halVars, mainVars, Pending, Free, Contiguous
  <2>2. RingHoldsStream'
    BY <1>3 DEF CheckFree, queueVars, halVars, mainVars, RingHoldsStream, Offset, Written, Writing, Pending, Free
  <2>3. FrameFits'
    BY <1>3 DEF CheckFree, queueVars, halVars, mainVars, FrameFits, Writing, Free, Pending
  <2>4. KickIsAlone'
    BY <1>3 DEF CheckFree, queueVars, halVars, mainVars, KickIsAlone, Contiguous, ActiveMatchesHal
  <2>5. TransferInRing'
    BY <1>3 DEF CheckFree, queueVars, halVars, mainVars, TransferInRing, KickIsAlone, Contiguous, Pending
  <2>6. ActiveMatchesHal' /\ Awake'
    BY <1>3 DEF CheckFree, queueVars, halVars, mainVars, ActiveMatchesHal, Awake, WillKick, KickIsAlone, Contiguous
  <2>7. WireIsAcceptedPrefix'
    BY <1>3 DEF CheckFree, queueVars, halVars, mainVars, WireIsAcceptedPrefix
  <2> QED
    BY <2>1, <2>2, <2>3, <2>4, <2>5, <2>6, <2>7
<1>4. CASE KickCheckActive
  <2>1. TypeOK'
    BY <1>4 DEF KickCheckActive, queueVars, halVars, mainVars, Pending, Free, Contiguous
  <2>2. RingHoldsStream'
    BY <1>4 DEF KickCheckActive, queueVars, halVars, mainVars, RingHoldsStream, Offset, Written, Writing, Pending, Free
  <2>3. FrameFits'
    BY <1>4 DEF KickCheckActive, queueVars, halVars, mainVars, FrameFits, Writing, Free, Pending
  <2>4. KickIsAlone'
    BY <1>4 DEF KickCheckActive, queueVars, halVars, mainVars, KickIsAlone, Contiguous, ActiveMatchesHal
  <2>5. TransferInRing'
    BY <1>4 DEF KickCheckActive, queueVars, halVars, mainVars, TransferInRing, KickIsAlone, Contiguous, Pending
  <2>6. ActiveMatchesHal' /\ Awake'
    BY <1>4 DEF KickCheckActive, queueVars, halVars, mainVars, ActiveMatchesHal, Awake, WillKick, KickIsAlone, Contiguous
  <2>7. WireIsAcceptedPrefix'
    BY <1>4 DEF KickCheckActive, queueVars, halVars, mainVars, WireIsAcceptedPrefix
  <2> QED
    BY <2>1, <2>2, <2>3, <2>4, <2>5, <2>6, <2>7
<1>5. CASE KickPeek
  <2>1. TypeOK'
    BY <1>5 DEF KickPeek, queueVars, halVars, mainVars, Pending, Free, Contiguous
  <2>2. RingHoldsStream'
    BY <1>5 DEF KickPeek, queueVars, halVars, mainVars, RingHoldsStream, Offset, Written, Writing, Pending, Free
  <2>3. FrameFits'
    BY <1>5 DEF KickPeek, queueVars, halVars, mainVars, FrameFits, Writing, Free, Pending
  <2>4. KickIsAlone'
    BY <1>5 DEF KickPeek, queueVars, halVars, mainVars, KickIsAlone, Contiguous, ActiveMatchesHal
  <2>5. TransferInRing'
    BY <1>5 DEF KickPeek, queueVars, halVars, mainVars, TransferInRing, KickIsAlone, Contiguous, Pending
  <2>6. ActiveMatchesHal' /\ Awake'
    BY <1>5 DEF KickPeek, queueVars, halVars, mainVars, ActiveMatchesHal, Awake, WillKick, KickIsAlone, Contiguous
  <2>7. WireIsAcceptedPrefix'
    BY <1>5 DEF KickPeek, queueVars, halVars, mainVars, WireIsAcceptedPrefix
  <2> QED
    BY <2>1, <2>2, <2>3, <2>4, <2>5, <2>6, <2>7
<1>6. CASE KickArm
  <2>1. TypeOK'
    BY <1>6 DEF KickArm, queueVars, halVars, mainVars, Pending, Free, Contiguous
  <2>2. RingHoldsStream'
    BY <1>6 DEF KickArm, queueVars, halVars, mainVars, RingHoldsStream, Offset, Written, Writing, Pending, Free
  <2>3. FrameFits'
    BY <1>6 DEF KickArm, queueVars, halVars, mainVars, FrameFits, Writing, Free, Pending
  <2>4. KickIsAlone'
    BY <1>6 DEF KickArm, queueVars, halVars, mainVars, KickIsAlone, Contiguous, ActiveMatchesHal
  <2>5. TransferInRing'
    BY <1>6 DEF KickArm, queueVars, halVars, mainVars, TransferInRing, KickIsAlone, Contiguous, Pending
  <2>6. ActiveMatchesHal' /\ Awake'
    BY <1>6 DEF KickArm, queueVars, halVars, mainVars, ActiveMatchesHal, Awake, WillKick, KickIsAlone, Contiguous
  <2>7. WireIsAcceptedPrefix'
    BY <1>6 DEF KickArm, queueVars, halVars, mainVars, WireIsAcceptedPrefix
  <2> QED
    BY <2>1, <2>2, <2>3, <2>4, <2>5, <2>6, <2>7
<1>7. CASE KickTransmit
  <2>1. TypeOK'
    BY <1>7, SMTT(30) DEF KickTransmit, queueVars, halVars, mainVars, Pending, Free, Contiguous
  <2>2. RingHoldsStream'
    BY <1>7 DEF KickTransmit, queueVars, halVars, mainVars, RingHoldsStream, Offset, Written, Writing, Pending, Free
  <2>3. FrameFits'
    BY <1>7 DEF KickTransmit, queueVars, halVars, mainVars, FrameFits, Writing, Free, Pending
  <2>4. KickIsAlone'
    BY <1>7 DEF KickTransmit, queueVars, halVars, mainVars, KickIsAlone, Contiguous, ActiveMatchesHal
  <2>5. TransferInRing'
    BY <1>7 DEF KickTransmit, queueVars, halVars, mainVars, TransferInRing, KickIsAlone, Contiguous, Pending
  <2>6. ActiveMatchesHal' /\ Awake'
    BY <1>7 DEF KickTransmit, queueVars, halVars, mainVars, ActiveMatchesHal, Awake, WillKick, KickIsAlone, Contiguous
  <2>7. WireIsAcceptedPrefix'
    BY <1>7 DEF KickTransmit, queueVars, halVars, mainVars, WireIsAcceptedPrefix
  <2> QED
    BY <2>1, <2>2, <2>3, <2>4, <2>5, <2>6, <2>7
<1>8. CASE CopyByte
  <2> DEFINE slot == Wrap(head + copied)
  <2>1. /\ copied < length /\ length <= Free
        /\ slot \in Slots /\ Offset(tail, slot) = Pending + copied
    <3>1. copied < length /\ length <= Free
      BY <1>8 DEF CopyByte, FrameFits, Writing
    <3>2. head + copied \in 0..(2 * Capacity - 1)
      BY <3>1 DEF Free, Pending
    <3>3. slot = IF head + copied < Capacity THEN head + copied ELSE head + copied - Capacity
      BY <3>2, WrapSubtracts
    <3> HIDE DEF slot
    <3> QED
      BY <3>1, <3>3 DEF Free, Pending, Offset
  <2> HIDE DEF slot
  <2>2. \A s \in Slots : Offset(tail, s) = Offset(tail, slot) => s = slot
    BY <2>1 DEF Offset
  <2>3. /\ storage' = [storage EXCEPT ![slot] = accepted + copied + 1]
        /\ UNCHANGED <<head, tail, accepted>>
        /\ pc' \in {"copy", "publish"} /\ copied' = copied + 1
    BY <1>8 DEF CopyByte, slot
  <2>4. TypeOK'
    <3>1. storage' \in [Slots -> Nat]
      BY <2>1, <2>3
    <3>2. copied' \in Slots
      BY <2>1, <2>3
    <3> QED
      BY <1>8, <3>1, <3>2 DEF CopyByte, halVars
  <2>5. RingHoldsStream'
    <3> SUFFICES ASSUME NEW s \in Slots, Offset(tail, s) < Pending + copied + 1
                 PROVE  storage'[s] = accepted - Pending + Offset(tail, s) + 1
      BY <2>3 DEF RingHoldsStream, Offset, Written, Writing, Pending
    <3>1. CASE s = slot
      BY <2>1, <2>3, <3>1 DEF Pending
    <3>2. CASE s # slot
      <4>1. Offset(tail, s) < Pending + copied
        <5>1. Offset(tail, s) \in Nat /\ Pending \in Nat
          BY DEF Offset, Pending
        <5>2. Offset(tail, s) # Pending + copied
          BY <2>1, <2>2, <3>2
        <5>3. copied \in Nat /\ Offset(tail, s) < Pending + copied + 1
          OBVIOUS
        <5> HIDE DEF IInv
        <5> QED
          BY <5>1, <5>2, <5>3
      <4>2. storage[s] = accepted - Pending + Offset(tail, s) + 1
        BY <4>1, <1>8 DEF RingHoldsStream, Written, Writing, CopyByte
      <4> QED
        BY <2>3, <3>2, <4>2
    <3> QED
      BY <3>1, <3>2
  <2>6. FrameFits' /\ KickIsAlone' /\ TransferInRing'
    BY <1>8 DEF CopyByte, halVars, FrameFits, Writing, Free, Pending, KickIsAlone, TransferInRing,
       Contiguous
  <2>7. ActiveMatchesHal' /\ Awake' /\ WireIsAcceptedPrefix'
    BY <1>8 DEF CopyByte, halVars, ActiveMatchesHal, Awake, WillKick, WireIsAcceptedPrefix
  <2> QED
    BY <2>4, <2>5, <2>6, <2>7
<1>9. CASE PublishHead
  <2>1. length > 0 /\ length <= Free /\ copied = length
    BY <1>9 DEF PublishHead, FrameFits, Writing
  <2>2. /\ head' \in Slots /\ tail' = tail
        /\ Pending' = Pending + length
        /\ activeLength <= Contiguous(tail) => activeLength <= Contiguous(tail)'
    <3>1. head + length \in 0..(2 * Capacity - 1)
      BY <2>1 DEF Free, Pending
    <3>2. head' = IF head + length < Capacity THEN head + length ELSE head + length - Capacity
      BY <1>9, <3>1, WrapSubtracts DEF PublishHead
    <3>3. tail' = tail /\ activeLength' = activeLength
      BY <1>9 DEF PublishHead
    <3> QED
      BY <2>1, <3>2, <3>3 DEF Pending, Free, Contiguous
  <2>3. Pending \in Nat /\ accepted' = accepted + length
    BY <1>9 DEF PublishHead, Pending
  <2>4. TypeOK'
    BY <1>9, <2>2 DEF PublishHead, halVars
  <2>5. RingHoldsStream'
    <3>1. Written' = Written /\ accepted' - Pending' = accepted - Pending
      BY <1>9, <2>1, <2>2, <2>3 DEF PublishHead, Written, Writing
    <3>2. storage' = storage /\ tail' = tail
      BY <1>9 DEF PublishHead
    <3> QED
      BY <3>1, <3>2 DEF RingHoldsStream, Offset
  <2>6. FrameFits' /\ KickIsAlone'
    BY <1>9 DEF PublishHead, halVars, FrameFits, Writing, KickIsAlone
  <2>7. TransferInRing'
    <3>1. UNCHANGED <<tail, activeLength, gState, txPtr, txCount, wire>>
      BY <1>9 DEF PublishHead, halVars
    <3>2. accepted' - Pending' = accepted - Pending
      BY <2>2, <2>3
    <3>3. gState = "BUSY_TX" => activeLength <= Contiguous(tail)'
      BY <2>2 DEF TransferInRing
    <3> QED
      BY <2>2, <2>3, <3>1, <3>2, <3>3 DEF TransferInRing
  <2>8. ActiveMatchesHal' /\ Awake' /\ WireIsAcceptedPrefix'
    BY <1>9, <2>3 DEF PublishHead, halVars, ActiveMatchesHal, Awake, WillKick, WireIsAcceptedPrefix
  <2> QED
    BY <2>4, <2>5, <2>6, <2>7, <2>8
<1>10. CASE TransmitByte
  <2>1. /\ gState = "BUSY_TX" /\ txCount > 0 /\ txCount <= activeLength
        /\ txPtr \in Slots
        /\ Offset(tail, txPtr) = activeLength - txCount
        /\ Offset(tail, txPtr) < Pending
        /\ Len(wire) = accepted - Pending + activeLength - txCount
    BY <1>10 DEF TransmitByte, TransferInRing, Contiguous, Offset, Pending
  <2>2. storage[txPtr] = Len(wire) + 1
    <3>1. Offset(tail, txPtr) < Written
      BY <2>1 DEF Written, Pending, Offset
    <3> QED
      BY <2>1, <3>1 DEF RingHoldsStream
  <2>3. wire' = Append(wire, Len(wire) + 1)
    BY <1>10, <2>2 DEF TransmitByte
  <2>4. /\ wire' \in Seq(Nat) /\ Len(wire') = Len(wire) + 1
        /\ \A i \in 1..Len(wire') : wire'[i] = IF i <= Len(wire) THEN wire[i] ELSE i
    BY <2>3
  <2>5. WireIsAcceptedPrefix'
    <3>1. Len(wire) + 1 <= accepted
      BY <2>1 DEF Pending, Offset
    <3> QED
      BY <1>10, <2>4, <3>1 DEF TransmitByte, WireIsAcceptedPrefix
  <2>6. TypeOK'
    BY <1>10, <2>1, <2>4 DEF TransmitByte, queueVars, mainVars
  <2>7. RingHoldsStream' /\ FrameFits'
    BY <1>10 DEF TransmitByte, queueVars, mainVars, RingHoldsStream, Offset, Written, Writing,
       Pending, FrameFits, Free
  <2>8. KickIsAlone' /\ ActiveMatchesHal' /\ Awake'
    BY <1>10 DEF TransmitByte, queueVars, mainVars, KickIsAlone, Contiguous, ActiveMatchesHal,
       Awake, WillKick
  <2>9. TransferInRing'
    <3>1. activeLength <= Contiguous(tail) /\ txPtr = tail + activeLength - txCount
      BY <2>1 DEF TransferInRing
    <3>2. Contiguous(tail)' = Contiguous(tail) /\ Pending' = Pending /\ Pending \in Nat
      BY <1>10 DEF TransmitByte, queueVars, Contiguous, Pending
    <3> QED
      <4>1. /\ gState' = "BUSY_TX" /\ UNCHANGED <<tail, activeLength, accepted>>
            /\ txPtr' = txPtr + 1 /\ txCount' = txCount - 1
        BY <1>10 DEF TransmitByte, queueVars
      <4> QED
        BY <2>1, <2>4, <3>1, <3>2, <4>1 DEF TransferInRing
  <2> QED
    BY <2>5, <2>6, <2>7, <2>8, <2>9
<1>11. CASE TransmitComplete
  <2> DEFINE next == Contiguous(tail')
  <2>1. /\ gState = "BUSY_TX" /\ txCount = 0
        /\ activeLength > 0 /\ activeLength <= Contiguous(tail)
        /\ Len(wire) = accepted - Pending + activeLength
        /\ pc \notin {"peek", "arm", "transmit"}
    BY <1>11 DEF TransmitComplete, TransferInRing, KickIsAlone, ActiveMatchesHal, Pending
  <2>2. Contiguous(tail) <= Pending /\ Pending \in Nat
    BY DEF Contiguous, Pending
  <2>3. tail' = Wrap(tail + activeLength)
    <3>1. ~ (activeLength > Pending)
      BY <2>1, <2>2 DEF Contiguous
    <3> QED
      BY <1>11, <3>1 DEF TransmitComplete, TailAfter
  <2>4. /\ tail' = IF tail + activeLength = Capacity THEN 0 ELSE tail + activeLength
        /\ tail' \in Slots
    <3>1. tail + activeLength \in 0..(2 * Capacity - 1) /\ tail + activeLength <= Capacity
      BY <2>1 DEF Contiguous
    <3>2. tail' = IF tail + activeLength < Capacity THEN tail + activeLength
                                                   ELSE tail + activeLength - Capacity
      BY <2>3, <3>1, WrapSubtracts
    <3> QED
      BY <3>1, <3>2
  <2>5. /\ UNCHANGED <<storage, head, droppedFrames, mainVars, accepted, wire>>
        /\ activeLength' = next /\ txCount' = next
        /\ txPtr' = IF next = 0 THEN txPtr ELSE tail'
        /\ gState' = IF next = 0 THEN "READY" ELSE "BUSY_TX"
    BY <1>11 DEF TransmitComplete, Contiguous
  <2>6. Pending' = Pending - activeLength
    BY <2>1, <2>4, <2>5 DEF Pending, Contiguous
  <2>7. next \in Slots /\ (next = 0 <=> head = tail') /\ Contiguous(tail)' = next
    BY <2>4, <2>5 DEF Contiguous
  <2>8. TypeOK'
    <3> HIDE DEF next
    <3> QED
      BY <2>4, <2>5, <2>7 DEF mainVars
  <2>9. RingHoldsStream'
    <3> SUFFICES ASSUME NEW s \in Slots, Offset(tail', s) < Written'
                 PROVE  storage[s] = accepted - Pending' + Offset(tail', s) + 1
      BY <2>5 DEF RingHoldsStream, Offset
    <3>1. Written' = Written - activeLength /\ Written < Capacity
      <4>1. pc' = pc /\ copied' = copied
        BY <2>5 DEF mainVars
      <4>2. Pending < Capacity
        BY DEF Pending
      <4> QED
        BY <2>2, <2>6, <4>1, <4>2 DEF Written, Writing, FrameFits, Free
    <3>2. Offset(tail, s) = Offset(tail', s) + activeLength
      BY <2>1, <2>2, <2>4, <3>1 DEF Offset, Contiguous, Written, Pending
    <3>3. Offset(tail, s) < Written
      BY <2>4, <3>1, <3>2 DEF Offset, Written, Pending
    <3> QED
      <4>1. storage[s] = accepted - Pending + Offset(tail, s) + 1
        BY <3>3 DEF RingHoldsStream
      <4>2. Offset(tail', s) \in Nat
        BY <2>4 DEF Offset
      <4> QED
        BY <2>2, <2>6, <3>2, <4>1, <4>2
  <2>10. FrameFits'
    <3>1. Free' = Free + activeLength /\ Free \in Int
      BY <2>2, <2>6 DEF Free
    <3> QED
      BY <2>1, <2>5, <3>1 DEF FrameFits, Writing, mainVars
  <2>11. KickIsAlone' /\ ActiveMatchesHal' /\ Awake'
    <3> HIDE DEF next
    <3> QED
      BY <2>1, <2>5, <2>7 DEF KickIsAlone, ActiveMatchesHal, Awake, mainVars
  <2>12. TransferInRing'
    <3> HIDE DEF next
    <3> QED
      BY <2>1, <2>2, <2>4, <2>5, <2>6, <2>7 DEF TransferInRing
  <2>13. WireIsAcceptedPrefix'
    BY <2>5 DEF WireIsAcceptedPrefix
  <2> QED
    BY <2>8, <2>9, <2>10, <2>11, <2>12, <2>13
<1>12. CASE UNCHANGED vars
  BY <1>12 DEF vars, queueVars, halVars, mainVars, RingHoldsStream, Offset, Written, Writing, Pending,
     FrameFits, Free, KickIsAlone, Contiguous, TransferInRing, ActiveMatchesHal, Awake, WillKick,
     WireIsAcceptedPrefix
<1> QED
  BY <1>1, <1>2, <1>3, <1>4, <1>5, <1>6, <1>7, <1>8, <1>9, <1>10, <1>11, <1>12
     DEF Next, MainStep, Interrupt

\* The invariant holds of every behaviour.
LEMMA InductiveInvariant == Spec => []IInv
BY InitIInv, StepIInv, PTL DEF Spec
-----------------------------------------------------------------------------
\* Every variable of the channel stays in its range: the ring indices inside
\* the storage, the lengths under the capacity, the HAL pointer inside or
\* one past the storage.
THEOREM TypeCorrect == Spec => []TypeOK
<1>1. IInv => TypeOK
  BY DEF IInv
<1> QED
  BY <1>1, InductiveInvariant, PTL

\* For every capacity and every interleaving of the main loop with the
\* interrupt, the bytes on the line are the accepted frames in order.
THEOREM WireCorrect == Spec => []WireIsAcceptedPrefix
<1>1. IInv => WireIsAcceptedPrefix
  BY DEF IInv
<1> QED
  BY <1>1, InductiveInvariant, PTL

\* The ring always holds the accepted stream where the interrupt reads it.
THEOREM RingCorrect == Spec => []RingHoldsStream
<1>1. IInv => RingHoldsStream
  BY DEF IInv
<1> QED
  BY <1>1, InductiveInvariant, PTL

\* active_length agrees with the HAL, so HAL_UART_Transmit_IT never refuses.
THEOREM ActiveCorrect == Spec => []ActiveMatchesHal
<1>1. IInv => ActiveMatchesHal
  BY DEF IInv
<1> QED
  BY <1>1, InductiveInvariant, PTL

\* No accepted byte waits in the ring for a poll while the line is idle.
THEOREM NeverStranded == Spec => []NoStrandedBytes
<1>1. IInv => NoStrandedBytes
  BY DEF IInv, TypeOK, Awake, WillKick, NoStrandedBytes
<1> QED
  BY <1>1, InductiveInvariant, PTL
-----------------------------------------------------------------------------
(* The step simulation of the abstract FIFO. *)

\* The frame in the hands of the enqueue is one the application offered.
Offered ==
  pc \in {"check", "copy", "publish"} => length \in Lengths /\ accepted + length <= MaxBytes

\* The positions accepted and not on the line yet.
Unsent == [i \in 1..(accepted - Len(wire)) |-> Len(wire) + i]

\* Only an enqueue changes the length between its start and its end.
LEMMA OfferedAlways == Spec => []Offered
<1>1. Init => Offered
  BY DEF Init, Offered
<1>2. Offered /\ [Next]_vars => Offered'
  BY DEF Offered, Next, MainStep, Interrupt, SendFrame, Poll, CheckFree, CopyByte, PublishHead,
     KickCheckActive, KickPeek, KickArm, KickTransmit, TransmitByte, TransmitComplete,
     vars, queueVars, halVars, mainVars
<1> QED
  BY <1>1, <1>2, PTL DEF Spec

\* Reading n slots of the ring from a distance h behind its tail t on gives
\* the stream from there, wherever the slots wrap.
LEMMA RingReads ==
  ASSUME NEW st, NEW t \in Slots, NEW p \in 0..(Capacity - 1), NEW base \in Int, NEW h \in 0..p,
         \A s \in Slots : Offset(t, s) < p => st[s] = base + Offset(t, s) + 1
  PROVE  \A i \in 1..(p - h) : st[Wrap(t + h + i - 1)] = base + h + i
<1> USE ConstantsAssumption DEF Slots
<1> TAKE i \in 1..(p - h)
<1> DEFINE slot == Wrap(t + h + i - 1)
<1>1. t + h + i - 1 \in 0..(2 * Capacity - 1)
  OBVIOUS
<1>2. slot = IF t + h + i - 1 < Capacity THEN t + h + i - 1 ELSE t + h + i - 1 - Capacity
  BY <1>1, WrapSubtracts
<1> HIDE DEF slot
<1>3. slot \in Slots /\ Offset(t, slot) = h + i - 1
  BY <1>2 DEF Offset
<1>4. st[slot] = base + (h + i - 1) + 1
  BY <1>3
<1> QED
  BY <1>4 DEF slot

\* What the refinement reads out of the ring is exactly what is accepted and
\* not on the line yet.
LEMMA ContentsAre ==
  IInv => /\ RingContents = Unsent
          /\ accepted - Len(wire) = Pending - Held
          /\ Held \in 0..Pending /\ Pending \in Slots
<1> SUFFICES ASSUME IInv
             PROVE  /\ RingContents = Unsent
                    /\ accepted - Len(wire) = Pending - Held
                    /\ Held \in 0..Pending /\ Pending \in Slots
  OBVIOUS
<1> USE ConstantsAssumption DEF IInv, TypeOK, Slots
<1>1. Pending \in Slots
  BY DEF Pending
<1>2. Contiguous(tail) <= Pending
  BY DEF Contiguous, Pending
<1>3. Held \in 0..Pending /\ Len(wire) = accepted - Pending + Held
  <2>1. CASE gState = "READY"
    BY <1>1, <2>1 DEF TransferInRing, Held
  <2>2. CASE gState = "BUSY_TX"
    <3>1. activeLength <= Pending /\ txCount <= activeLength
      BY <1>1, <1>2, <2>2 DEF TransferInRing, Contiguous
    <3>2. Len(wire) = accepted - Pending + activeLength - txCount
      BY <2>2 DEF TransferInRing
    <3> QED
      BY <1>1, <2>2, <3>1, <3>2 DEF Held
  <2> QED
    BY <2>1, <2>2
<1>4. \A s \in Slots : Offset(tail, s) < Pending
        => storage[s] = (accepted - Pending) + Offset(tail, s) + 1
  <2>1. copied \in Nat /\ Written >= Pending
    BY <1>1 DEF Written
  <2>2. \A s \in Slots : Offset(tail, s) \in Int
    BY DEF Offset
  <2>3. Written \in Int /\ Pending \in Int
    BY <1>1 DEF Written
  <2>4. RingHoldsStream
    OBVIOUS
  <2> HIDE DEF IInv, TypeOK
  <2> QED
    BY <2>1, <2>2, <2>3, <2>4 DEF RingHoldsStream
<1>5. \A i \in 1..(Pending - Held) : storage[Wrap(tail + Held + i - 1)] = (accepted - Pending) + Held + i
  <2> HIDE DEF IInv, Slots
  <2>1. tail \in Slots /\ accepted - Pending \in Int
    BY <1>1 DEF IInv, Slots
  <2>2. Pending \in 0..(Capacity - 1)
    BY <1>1 DEF Slots
  <2> QED
    BY <1>3, <1>4, <2>1, <2>2, RingReads
<1>6. Held \in Nat /\ Pending \in Nat /\ accepted \in Nat /\ Len(wire) \in Nat
  BY <1>1, <1>3
<1>7. accepted - Len(wire) = Pending - Held
  BY <1>3, <1>6
<1>8. \A i \in 1..(Pending - Held) : storage[Wrap(tail + Held + i - 1)] = Len(wire) + i
  <2> HIDE DEF IInv
  <2> QED
    BY <1>3, <1>5, <1>6
<1>9. RingContents = Unsent
  <2> HIDE DEF IInv
  <2> QED
    BY <1>7, <1>8 DEF RingContents, Unsent
<1> QED
  BY <1>1, <1>3, <1>7, <1>9

\* The same of the state behind a step.
ReadsUnsent == RingContents = Unsent

LEMMA ContentsThen == IInv' => RingContents' = Unsent'
<1>1. IInv => ReadsUnsent
  BY ContentsAre DEF ReadsUnsent
<1>2. IInv' => ReadsUnsent'
  BY <1>1, PTL
<1> QED
  BY <1>2 DEF ReadsUnsent

\* The positions of n bytes behind the first m of the stream.
Window(m, n) == [i \in 1..n |-> m + i]

LEMMA WindowSeq ==
  ASSUME NEW m \in Nat, NEW n \in Nat
  PROVE  /\ Window(m, n) \in Seq(Nat) /\ Len(Window(m, n)) = n
         /\ \A i \in 1..n : Window(m, n)[i] = m + i
BY DEF Window

\* A frame behind the stream makes the window longer.
LEMMA WindowGrows ==
  ASSUME NEW m \in Nat, NEW n \in Nat, NEW k \in Nat
  PROVE  Window(m, n) \o Window(m + n, k) = Window(m, n + k)
<1> DEFINE w == Window(m, n)
           f == Window(m + n, k)
           v == Window(m, n + k)
<1>0. m + n \in Nat /\ n + k \in Nat
  OBVIOUS
<1>1. /\ w \in Seq(Nat) /\ Len(w) = n /\ \A i \in 1..n : w[i] = m + i
      /\ f \in Seq(Nat) /\ Len(f) = k /\ \A i \in 1..k : f[i] = m + n + i
      /\ v \in Seq(Nat) /\ Len(v) = n + k /\ \A i \in 1..(n + k) : v[i] = m + i
  BY <1>0, WindowSeq
<1> HIDE DEF w, f, v
<1>2. /\ w \o f \in Seq(Nat) /\ Len(w \o f) = n + k
      /\ \A i \in 1..(n + k) : (w \o f)[i] = IF i <= n THEN w[i] ELSE f[i - n]
  BY <1>1, ConcatProperties
<1>3. \A i \in 1..(n + k) : (w \o f)[i] = v[i]
  <2> TAKE i \in 1..(n + k)
  <2>1. CASE i <= n
    BY <1>1, <1>2, <2>1
  <2>2. CASE ~(i <= n)
    <3>1. i - n \in 1..k /\ m + n + (i - n) = m + i
      BY <2>2
    <3>2. (w \o f)[i] = f[i - n]
      BY <1>2, <2>2
    <3> QED
      BY <1>1, <3>1, <3>2
  <2> QED
    BY <2>1, <2>2
<1> QED
  <2>1. w \o f = v
    BY <1>1, <1>2, <1>3, SeqEqual
  <2> QED
    BY <2>1 DEF w, f, v

\* The first byte of the window leaves.
LEMMA WindowShrinks ==
  ASSUME NEW m \in Nat, NEW n \in Nat, n > 0
  PROVE  /\ Window(m, n) # <<>> /\ Head(Window(m, n)) = m + 1
         /\ Tail(Window(m, n)) = Window(m + 1, n - 1)
<1> DEFINE w == Window(m, n)
           v == Window(m + 1, n - 1)
<1>0. m + 1 \in Nat /\ n - 1 \in Nat
  OBVIOUS
<1>1. /\ w \in Seq(Nat) /\ Len(w) = n /\ \A i \in 1..n : w[i] = m + i
      /\ v \in Seq(Nat) /\ Len(v) = n - 1 /\ \A i \in 1..(n - 1) : v[i] = m + 1 + i
  BY <1>0, WindowSeq
<1> HIDE DEF w, v
<1>2. w # <<>> /\ Head(w) = m + 1
  BY <1>1
<1>3. /\ Tail(w) \in Seq(Nat) /\ Len(Tail(w)) = n - 1
      /\ \A i \in 1..(n - 1) : Tail(w)[i] = w[i + 1]
  BY <1>1, <1>2, HeadTailProperties
<1>4. \A i \in 1..(n - 1) : Tail(w)[i] = v[i]
  BY <1>1, <1>3
<1>5. Tail(w) = v
  BY <1>1, <1>3, <1>4, SeqEqual
<1> QED
  BY <1>2, <1>5 DEF w, v

\* The channel starts as an empty FIFO.
LEMMA FifoStarts == Init => Fifo!Init
<1> SUFFICES ASSUME Init PROVE Fifo!Init
  OBVIOUS
<1>1. Pending = 0 /\ Held = 0 /\ wire = <<>> /\ droppedFrames = 0
  BY DEF Init, Pending, Held
<1>2. RingContents = <<>>
  BY <1>1 DEF RingContents
<1> QED
  BY <1>1, <1>2 DEF Fifo!Init

\* Every step of the channel is a step of the FIFO or invisible to it.
LEMMA FifoStep == IInv /\ IInv' /\ Offered /\ [Next]_vars => [Fifo!Next]_(Fifo!vars)
<1> SUFFICES ASSUME IInv, IInv', Offered, [Next]_vars
             PROVE  [Fifo!Next]_(Fifo!vars)
  OBVIOUS
<1> USE ConstantsAssumption
<1> DEFINE left == accepted - Len(wire)
<1>1. /\ RingContents = Unsent /\ left = Pending - Held
      /\ Held \in 0..Pending /\ Pending \in Slots
  BY ContentsAre
<1>2. RingContents' = Unsent'
  BY ContentsThen
<1>3. TypeOK /\ TypeOK' /\ FrameFits /\ KickIsAlone /\ TransferInRing /\ ActiveMatchesHal
      /\ WireIsAcceptedPrefix'
  BY DEF IInv
<1>4. left \in Nat /\ Len(wire) \in Nat /\ wire \in Seq(Nat) /\ accepted \in Nat
  <2>1. Len(wire) \in Nat /\ wire \in Seq(Nat) /\ accepted \in Nat
    BY <1>3 DEF TypeOK
  <2> HIDE DEF left
  <2> QED
    BY <1>1, <2>1 DEF Slots
<1>5. /\ Unsent = Window(Len(wire), left) /\ Len(Unsent) = left
      /\ Unsent' = Window(Len(wire'), accepted' - Len(wire'))
  BY <1>4, WindowSeq DEF Unsent, Window
<1> HIDE DEF IInv, left
<1>6. ASSUME UNCHANGED <<accepted, wire, droppedFrames>>, Held' = Held
      PROVE  UNCHANGED Fifo!vars
  BY <1>1, <1>2, <1>6 DEF Unsent, Fifo!vars
<1>7. ASSUME UNCHANGED <<activeLength, halVars>> PROVE Held' = Held
  BY <1>7 DEF Held, halVars
<1>8. CASE \/ \E n \in Lengths : SendFrame(n)
           \/ Poll \/ CopyByte \/ KickCheckActive \/ KickPeek
  <2>1. UNCHANGED <<accepted, wire, droppedFrames, activeLength, halVars>>
    BY <1>8 DEF SendFrame, Poll, CopyByte, KickCheckActive, KickPeek
  <2> QED
    BY <1>6, <1>7, <2>1
<1>9. CASE CheckFree
  <2>1. UNCHANGED <<accepted, wire, activeLength, halVars>> /\ Held' = Held /\ pc = "check"
    BY <1>7, <1>9 DEF CheckFree
  <2>2. CASE UNCHANGED droppedFrames
    BY <1>6, <2>1, <2>2
  <2>3. CASE length > Free /\ droppedFrames' = droppedFrames + 1
    <3>1. length \in Lengths
      BY <2>1 DEF Offered
    <3>2. Len(RingContents) + Held + length > Capacity - 1
      <4>1. Len(RingContents) = Pending - Held
        BY <1>1, <1>5
      <4>2. length \in Int /\ length > Capacity - Pending - 1
        BY <1>3, <2>3 DEF Free, TypeOK, Slots
      <4> QED
        BY <1>1, <4>1, <4>2 DEF Slots
    <3>3. RingContents' = RingContents
      BY <1>1, <1>2, <2>1 DEF Unsent
    <3>4. Fifo!Reject(length)
      BY <2>1, <2>3, <3>2, <3>3 DEF Fifo!Reject
    <3> QED
      BY <3>1, <3>4 DEF Fifo!Next
  <2> QED
    BY <1>9, <2>2, <2>3 DEF CheckFree
<1>10. CASE PublishHead
  <2>1. /\ accepted' = accepted + length /\ pc = "publish"
        /\ UNCHANGED <<wire, droppedFrames, activeLength, halVars>>
    BY <1>10 DEF PublishHead
  <2>2. length \in Lengths /\ accepted + length <= MaxBytes /\ length \in Nat /\ length <= Free
    BY <1>3, <2>1 DEF Offered, FrameFits, Writing, TypeOK, Slots
  <2>3. Len(wire) + Len(RingContents) = accepted
    BY <1>1, <1>4, <1>5 DEF left
  <2>4. Len(RingContents) + Held + length <= Capacity - 1
    BY <1>1, <1>5, <2>2 DEF Free, Slots
  <2>5. RingContents' = RingContents \o [i \in 1..length |-> accepted + i]
    <3>1. accepted = Len(wire) + left /\ accepted' - Len(wire') = left + length
      BY <1>4, <2>1, <2>2 DEF left
    <3>2. Unsent' = Window(Len(wire), left) \o Window(accepted, length)
      <4>1. Unsent' = Window(Len(wire), left + length)
        BY <1>5, <2>1, <3>1
      <4>2. Window(Len(wire), left) \o Window(Len(wire) + left, length)
              = Window(Len(wire), left + length)
        BY <1>4, <2>2, WindowGrows
      <4> QED
        BY <3>1, <4>1, <4>2
    <3> QED
      BY <1>1, <1>2, <1>5, <3>2 DEF Window
  <2>6. Held' = Held
    BY <1>7, <2>1
  <2>7. Fifo!Accept(length)
    BY <2>1, <2>2, <2>3, <2>4, <2>5, <2>6 DEF Fifo!Accept, Fifo!Accepted
  <2> QED
    BY <2>2, <2>7 DEF Fifo!Next
<1>11. CASE KickArm
  <2>1. UNCHANGED <<accepted, wire, droppedFrames, halVars>> /\ pc = "arm"
    BY <1>11 DEF KickArm
  <2>2. gState = "READY" /\ gState' = gState
    BY <1>3, <2>1 DEF KickIsAlone, halVars
  <2>3. Held' = Held
    BY <2>2 DEF Held
  <2> QED
    BY <1>6, <2>1, <2>3
<1>12. CASE KickTransmit
  <2>1. pc = "transmit" /\ UNCHANGED <<accepted, wire, droppedFrames>>
    BY <1>12 DEF KickTransmit
  <2>2. gState = "READY"
    BY <1>3, <2>1 DEF KickIsAlone
  <2>3. activeLength' = activeLength /\ txCount' = activeLength /\ activeLength \in Nat
    BY <1>3, <1>12, <2>2 DEF KickTransmit, TypeOK, Slots
  <2>4. Held' = Held
    BY <2>2, <2>3 DEF Held
  <2> QED
    BY <1>6, <2>1, <2>4
<1>13. CASE TransmitByte
  <2>1. /\ gState = "BUSY_TX" /\ gState' = "BUSY_TX" /\ txCount > 0
        /\ UNCHANGED <<activeLength, droppedFrames, accepted>> /\ txCount' = txCount - 1
        /\ wire' = Append(wire, storage[txPtr])
    BY <1>13 DEF TransmitByte
  <2>2. activeLength \in Nat /\ txCount \in Nat /\ txCount <= activeLength
        /\ activeLength <= Pending
    <3>1. activeLength \in Nat /\ txCount \in Nat
      BY <1>3 DEF TypeOK, Slots
    <3>2. txCount <= activeLength /\ activeLength <= Contiguous(tail)
      BY <1>3, <2>1 DEF TransferInRing
    <3>3. Contiguous(tail) <= Pending /\ Contiguous(tail) \in Int /\ Pending \in Int
      BY <1>3 DEF TypeOK, Slots, Contiguous, Pending
    <3> QED
      BY <3>1, <3>2, <3>3
  <2>3. Held' = Held + 1
    BY <2>1, <2>2 DEF Held
  <2>4. left > 0
    BY <1>1, <2>1, <2>2 DEF Held, Slots
  <2>5. wire' = Append(wire, Len(wire) + 1)
    <3>1. Len(wire') = Len(wire) + 1 /\ wire'[Len(wire) + 1] = storage[txPtr]
      BY <1>4, <2>1
    <3>2. wire'[Len(wire) + 1] = Len(wire) + 1
      BY <1>3, <1>4, <3>1 DEF WireIsAcceptedPrefix
    <3> QED
      BY <2>1, <3>1, <3>2
  <2>6. Unsent # <<>> /\ Head(Unsent) = Len(wire) + 1
    BY <1>4, <1>5, <2>4, WindowShrinks
  <2>7. Unsent' = Tail(Unsent)
    <3>1. Len(wire') = Len(wire) + 1 /\ accepted' - Len(wire') = left - 1
      BY <1>4, <2>1, <2>5 DEF left
    <3>2. Tail(Window(Len(wire), left)) = Window(Len(wire) + 1, left - 1)
      BY <1>4, <2>4, WindowShrinks
    <3> QED
      BY <1>5, <3>1, <3>2
  <2>8. Fifo!Emit
    BY <1>1, <1>2, <2>1, <2>3, <2>5, <2>6, <2>7 DEF Fifo!Emit
  <2> QED
    BY <2>8 DEF Fifo!Next
<1>14. CASE TransmitComplete
  <2>1. /\ gState = "BUSY_TX" /\ txCount = 0
        /\ UNCHANGED <<accepted, wire, droppedFrames>>
        /\ activeLength' = txCount'
    BY <1>14 DEF TransmitComplete
  <2>2. Held > 0
    <3>1. pc # "transmit" /\ activeLength > 0
      BY <1>3, <2>1 DEF KickIsAlone, ActiveMatchesHal
    <3> QED
      BY <1>3, <2>1, <3>1 DEF Held, TypeOK, Slots
  <2>3. Held' = 0
    <3>1. txCount' \in Int
      BY <1>3 DEF TypeOK, Slots
    <3>2. \A n \in Int : n - n = 0
      OBVIOUS
    <3>3. activeLength' - txCount' = 0
      BY <2>1, <3>1, <3>2
    <3> QED
      BY <3>3 DEF Held
  <2>4. Fifo!Release
    BY <1>1, <1>2, <2>1, <2>2, <2>3 DEF Unsent, Fifo!Release
  <2> QED
    BY <2>4 DEF Fifo!Next
<1>15. CASE UNCHANGED vars
  BY <1>6, <1>7, <1>15 DEF vars
<1> QED
  BY <1>8, <1>9, <1>10, <1>11, <1>12, <1>13, <1>14, <1>15 DEF Next, MainStep, Interrupt

\* The channel is a bounded FIFO of whole frames: the steps of the lock-free
\* ring, of the kick and of the interrupt are, for every capacity and every
\* interleaving, steps of FrameFifo or stutters.  It is the safety part of
\* ImplementsFrameFifo; that bytes leave in the end stays with TLC.
THEOREM RefinesFrameFifo == Spec => Fifo!Init /\ [][Fifo!Next]_(Fifo!vars)
BY FifoStarts, FifoStep, InductiveInvariant, OfferedAlways, PTL DEF Spec
=============================================================================
