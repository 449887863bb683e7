---------------------------- MODULE Optical_proofs ---------------------------
(***************************************************************************)
(* Proofs about the optical simulator: its telemetry logger, for every     *)
(* capacity N and every number of pushes, and its lifecycle, for every     *)
(* list of devices, whichever of them may fail, and whatever the control   *)
(* loop asks for; and its spindle, which comes nearer to every request.    *)
(***************************************************************************)
EXTENDS TelemetryLogger, Positioning, SequenceTheorems, TLAPS

------------------------------------------------------------------------------
(* The ring.  All its arithmetic is linear: Ahead and Gap never use %. *)

\* The distances on the ring lie within it.
LEMMA GapRange ==
    ASSUME NEW i \in Slot, NEW j \in Slot
    PROVE  /\ Gap(i, j) \in Slot /\ Gap(i, j) \in Nat
           /\ Ahead(i, Gap(i, j)) = j
           /\ (Gap(i, j) = 0) <=> (i = j)
BY TelemetryAssumption DEF Slot, Gap, Ahead

\* An index moved forward by k <= Gap(i, j) stays between i and j.
LEMMA MoveInside ==
    ASSUME NEW i \in Slot, NEW j \in Slot, NEW k \in 0 .. Gap(i, j)
    PROVE  /\ Ahead(i, k) \in Slot
           /\ Gap(i, Ahead(i, k)) = k
           /\ Gap(Ahead(i, k), j) = Gap(i, j) - k
BY TelemetryAssumption DEF Slot, Gap, Ahead

\* Moving tail one place away from i makes the gap one larger, unless it
\* would run into i.
LEMMA GapSucc ==
    ASSUME NEW i \in Slot, NEW j \in Slot, Succ(j) # i
    PROVE  Gap(i, Succ(j)) = Gap(i, j) + 1
BY TelemetryAssumption DEF Slot, Gap, Succ

\* Moving i one place towards a different j makes the gap one smaller.
LEMMA SuccGap ==
    ASSUME NEW i \in Slot, NEW j \in Slot, i # j
    PROVE  Gap(Succ(i), j) = Gap(i, j) - 1
BY TelemetryAssumption DEF Slot, Gap, Succ

\* The code's own (i + 1) % buf_.size() is Succ.
LEMMA SuccIsModulo ==
    ASSUME NEW i \in Slot
    PROVE  Succ(i) = (i + 1) % N
BY TelemetryAssumption DEF Slot, Succ

------------------------------------------------------------------------------
\* The four distances that RingOrder relates are natural numbers.
LEMMA Gaps ==
    ASSUME LoggerTypeOK
    PROVE  /\ Gap(headSeen, head) \in Nat /\ Gap(head, tail) \in Nat
           /\ Gap(headSeen, tail) \in Nat /\ Gap(head, tail) \in Slot
           /\ Gap(head, tailSeen) \in Nat /\ Gap(tailSeen, tail) \in Nat
BY GapRange DEF LoggerTypeOK

LEMMA InitIInv == LoggerInit => IInv
BY TelemetryAssumption
   DEF LoggerInit, IInv, LoggerTypeOK, RingInv, RingOrder, RingContents, OwnerInv, WriterInv,
       FileIsPrefix, Released, Slot, Frame, NoFrame, Gap, Ahead, Succ, Current

\* Loading a newer head_, and refusing or starting a push.
LEMMA PushCheckIInv == ASSUME IInv, PushCheck PROVE IInv'
<1> USE TelemetryAssumption DEF IInv, RingInv
<1>1. PICK k \in 0 .. Gap(headSeen, head) : headSeen' = Ahead(headSeen, k)
  BY DEF PushCheck
<1>2. /\ headSeen' \in Slot
      /\ Gap(headSeen', head) = Gap(headSeen, head) - k
  BY <1>1, MoveInside DEF LoggerTypeOK
<1>3. Gap(headSeen', tail) = Gap(headSeen, tail) - k
  <2>1. k \in 0 .. Gap(headSeen, tail)
    BY <1>1, Gaps DEF RingOrder
  <2> QED BY <1>1, <2>1, MoveInside DEF LoggerTypeOK
<1>4. LoggerTypeOK'
  BY <1>2 DEF LoggerTypeOK, PushCheck
<1>5. RingOrder'
  <2>1. /\ Gap(headSeen, head)' = Gap(headSeen', head)
        /\ Gap(headSeen, tail)' = Gap(headSeen', tail)
        /\ Gap(head, tailSeen)' = Gap(head, tailSeen)
        /\ Gap(head, tail)' = Gap(head, tail)
        /\ Gap(tailSeen, tail)' = Gap(tailSeen, tail)
    BY DEF PushCheck, Gap
  <2>2. accepted' = accepted /\ Released' = Released
    BY DEF PushCheck, Released
  <2> QED BY <1>1, <1>2, <1>3, <2>1, <2>2, Gaps DEF RingOrder
<1>6. RingContents' /\ FileIsPrefix'
  BY DEF RingContents, FileIsPrefix, PushCheck, Released, Gap, Ahead
<1>7. OwnerInv' /\ WriterInv'
  BY DEF OwnerInv, WriterInv, PushCheck, Current, LoggerTypeOK
<1> QED BY <1>4, <1>5, <1>6, <1>7

\* Filling slot tail disturbs no unreleased frame: none lies there.
LEMMA PushFillIInv == ASSUME IInv, PushFill PROVE IInv'
<1> USE TelemetryAssumption DEF IInv, RingInv
<1>1. Current \in Frame
  BY DEF PushFill, OwnerInv, Current, Frame, LoggerTypeOK
<1>2. LoggerTypeOK'
  BY <1>1 DEF LoggerTypeOK, PushFill
<1>3. RingOrder' /\ FileIsPrefix'
  BY DEF RingOrder, FileIsPrefix, PushFill, Released, Gap
<1>4. RingContents'
  <2> SUFFICES ASSUME NEW i \in Slot, i < Gap(head, tail)
               PROVE  buf'[Ahead(head, i)] = accepted[Released + i + 1]
    BY DEF RingContents, PushFill, Released, Gap, Ahead
  <2>1. Ahead(head, i) \in Slot /\ Ahead(head, i) # tail
    BY DEF LoggerTypeOK, Slot, Gap, Ahead
  <2> QED BY <2>1 DEF RingContents, PushFill, LoggerTypeOK
<1>5. OwnerInv' /\ WriterInv'
  BY DEF OwnerInv, WriterInv, PushFill, Current, LoggerTypeOK
<1> QED BY <1>2, <1>3, <1>4, <1>5

\* Publishing extends the ring by the frame that slot tail already holds.
LEMMA PushPublishIInv == ASSUME IInv, PushPublish PROVE IInv'
<1> USE TelemetryAssumption DEF IInv, RingInv
<1>1. Current \in Frame /\ Succ(tail) # headSeen /\ buf[tail] = Current
  BY DEF PushPublish, OwnerInv, Current, Frame, LoggerTypeOK
<1>2. tail' \in Slot
  BY GapRange DEF PushPublish, LoggerTypeOK, Slot, Succ
<1>3. accepted' \in Seq(Frame) /\ Len(accepted') = Len(accepted) + 1
  BY <1>1 DEF PushPublish, LoggerTypeOK
<1>4. LoggerTypeOK'
  BY <1>2, <1>3 DEF LoggerTypeOK, PushPublish
<1>5. Gap(headSeen, tail') = Gap(headSeen, tail) + 1
  BY <1>1, GapSucc DEF PushPublish, LoggerTypeOK
<1>6. Gap(head, tail') = Gap(head, tail) + 1
  BY <1>1 DEF PushPublish, LoggerTypeOK, RingOrder, Gap, Slot, Succ
<1>7. Gap(tailSeen, tail') = Gap(tailSeen, tail) + 1
  BY <1>1, <1>6 DEF PushPublish, LoggerTypeOK, RingOrder, Gap, Slot, Succ
<1>8. Released' = Released
  BY DEF PushPublish, Released
<1>9. RingOrder'
  <2>1. /\ Gap(headSeen, head)' = Gap(headSeen, head)
        /\ Gap(head, tailSeen)' = Gap(head, tailSeen)
        /\ Gap(headSeen, tail)' = Gap(headSeen, tail')
        /\ Gap(head, tail)' = Gap(head, tail')
        /\ Gap(tailSeen, tail)' = Gap(tailSeen, tail')
    BY DEF PushPublish, Gap
  <2>2. /\ Gap(headSeen, head) \in Nat /\ Gap(head, tail) \in Nat
        /\ Gap(head, tailSeen) \in Nat /\ Gap(tailSeen, tail) \in Nat
    BY Gaps
  <2>3. Released \in Nat
    BY DEF RingOrder
  <2>4. Len(accepted)' = Released' + Gap(head, tail)'
    BY <1>3, <1>6, <1>8, <2>1, <2>2, <2>3 DEF RingOrder
  <2>5. (Gap(headSeen, head) + Gap(head, tail))' = Gap(headSeen, tail)'
    BY <1>5, <1>6, <2>1, <2>2 DEF RingOrder
  <2>6. (Gap(head, tailSeen) + Gap(tailSeen, tail))' = Gap(head, tail)'
    BY <1>6, <1>7, <2>1, <2>2 DEF RingOrder
  <2> QED BY <1>8, <2>3, <2>4, <2>5, <2>6 DEF RingOrder
<1>10. RingContents'
  <2> SUFFICES ASSUME NEW i \in Slot, i < Gap(head, tail')
               PROVE  buf[Ahead(head, i)] = accepted'[Released + i + 1]
    BY <1>8 DEF RingContents, PushPublish, Gap, Ahead
  <2>1. Gap(head, tail) \in Slot
    BY Gaps
  <2>2. CASE i < Gap(head, tail)
    <3>1. Released + i + 1 \in 1 .. Len(accepted)
      BY <2>1, <2>2 DEF RingOrder, Slot
    <3>2. accepted'[Released + i + 1] = accepted[Released + i + 1]
      BY <3>1, <1>1 DEF PushPublish, LoggerTypeOK
    <3> QED BY <2>2, <3>2 DEF RingContents
  <2>3. CASE i = Gap(head, tail)
    <3>1. Ahead(head, i) = tail
      BY <2>3, GapRange DEF LoggerTypeOK, Ahead, Gap, Slot
    <3>2. accepted'[Released + i + 1] = Current
      BY <2>3, <1>1 DEF RingOrder, PushPublish, LoggerTypeOK
    <3> QED BY <3>1, <3>2, <1>1
  <2> QED BY <1>6, <2>1, <2>2, <2>3 DEF Slot
<1>11. FileIsPrefix'
  <2>1. \A i \in 1 .. Len(accepted) : accepted'[i] = accepted[i]
    BY <1>1 DEF PushPublish, LoggerTypeOK
  <2> QED BY <1>3, <2>1 DEF FileIsPrefix, PushPublish, LoggerTypeOK
<1>12. OwnerInv' /\ WriterInv'
  BY DEF OwnerInv, WriterInv, PushPublish, LoggerTypeOK
<1> QED BY <1>4, <1>9, <1>10, <1>11, <1>12

\* A newer tail_ makes the writer's view of the ring longer.
LEMMA LoadTailIInv == ASSUME IInv, NEW k \in Slot, LoadTail(k) PROVE IInv'
<1> USE TelemetryAssumption DEF IInv, RingInv
<1>1. k \in 0 .. Gap(tailSeen, tail) /\ tailSeen' = Ahead(tailSeen, k)
  BY DEF LoadTail
<1>2. tailSeen' \in Slot /\ Gap(tailSeen', tail) = Gap(tailSeen, tail) - k
  BY <1>1, MoveInside DEF LoggerTypeOK
<1>3. Gap(head, tailSeen') = Gap(head, tailSeen) + k
  BY <1>1 DEF LoggerTypeOK, RingOrder, Gap, Ahead, Slot
<1>4. LoggerTypeOK'
  BY <1>2 DEF LoggerTypeOK, LoadTail
<1>5. RingOrder'
  <2>1. /\ Gap(headSeen, head)' = Gap(headSeen, head)
        /\ Gap(headSeen, tail)' = Gap(headSeen, tail)
        /\ Gap(head, tailSeen)' = Gap(head, tailSeen')
        /\ Gap(head, tail)' = Gap(head, tail)
        /\ Gap(tailSeen, tail)' = Gap(tailSeen', tail)
    BY DEF LoadTail, Gap
  <2>2. accepted' = accepted /\ Released' = Released
    BY DEF LoadTail, Released
  <2> QED BY <1>1, <1>2, <1>3, <2>1, <2>2, Gaps DEF RingOrder
<1>6. RingContents' /\ FileIsPrefix'
  BY DEF RingContents, FileIsPrefix, LoadTail, Released, Gap, Ahead
<1>7. OwnerInv' /\ WriterInv'
  BY DEF OwnerInv, WriterInv, LoadTail, Current, LoggerTypeOK
<1> QED BY <1>4, <1>5, <1>6, <1>7

\* The row written is the next accepted frame.
LEMMA WriteRowIInv == ASSUME IInv, WriteRow PROVE IInv'
<1> USE TelemetryAssumption DEF IInv, RingInv
<1>1. Gap(head, tail) \in Slot /\ 0 < Gap(head, tail)
  <2>1. head # tailSeen /\ head \in Slot /\ tailSeen \in Slot
    BY DEF WriteRow, WriterInv, LoggerTypeOK
  <2> QED BY <2>1, Gaps, GapRange DEF RingOrder
<1>2. Released = Len(written) /\ Released' = Released
  BY DEF WriteRow, Released, LoggerTypeOK
<1>3. Len(written) + 1 \in 1 .. Len(accepted)
  BY <1>1, <1>2 DEF RingOrder, Slot, LoggerTypeOK
<1>4. buf[head] = accepted[Len(written) + 1]
  <2>1. Ahead(head, 0) = head
    BY DEF Ahead, LoggerTypeOK, Slot
  <2> QED BY <1>1, <1>2, <2>1 DEF RingContents, Slot, LoggerTypeOK
<1>5. buf[head] \in Frame
  BY <1>3, <1>4 DEF LoggerTypeOK
<1>6. LoggerTypeOK'
  BY <1>5 DEF LoggerTypeOK, WriteRow
<1>7. RingOrder'
  BY <1>2 DEF RingOrder, WriteRow, Gap
<1>8. RingContents'
  BY <1>2 DEF RingContents, WriteRow, Gap, Ahead
<1>9. FileIsPrefix'
  BY <1>3, <1>4, <1>5 DEF FileIsPrefix, WriteRow, LoggerTypeOK
<1>10. OwnerInv' /\ WriterInv'
  BY DEF OwnerInv, WriterInv, WriteRow, Current, LoggerTypeOK
<1> QED BY <1>6, <1>7, <1>8, <1>9, <1>10

\* Releasing the slot moves head_ and the count of released frames together.
LEMMA ReleaseSlotIInv == ASSUME IInv, ReleaseSlot PROVE IInv'
<1> USE TelemetryAssumption DEF IInv, RingInv
<1>1. head # tailSeen /\ head # tail
  <2>1. head # tailSeen /\ head \in Slot /\ tailSeen \in Slot /\ tail \in Slot
    BY DEF ReleaseSlot, WriterInv, LoggerTypeOK
  <2>2. Gap(head, tailSeen) > 0
    BY <2>1, Gaps, GapRange
  <2>3. Gap(head, tail) > 0
    BY <2>2, Gaps DEF RingOrder
  <2> QED BY <2>1, <2>3, GapRange
<1>2. head' \in Slot
  BY DEF ReleaseSlot, LoggerTypeOK, Slot, Succ
<1>3. /\ Gap(head', tail) = Gap(head, tail) - 1
      /\ Gap(head', tailSeen) = Gap(head, tailSeen) - 1
  BY <1>1, SuccGap DEF ReleaseSlot, LoggerTypeOK
<1>4. Gap(headSeen, head') = Gap(headSeen, head) + 1
  BY <1>1 DEF ReleaseSlot, RingOrder, LoggerTypeOK, Gap, Slot, Succ
<1>5. Released' = Released + 1
  BY DEF ReleaseSlot, Released, LoggerTypeOK
<1>6. LoggerTypeOK'
  BY <1>2 DEF LoggerTypeOK, ReleaseSlot
<1>7. RingOrder'
  <2>1. /\ Gap(headSeen, head)' = Gap(headSeen, head')
        /\ Gap(head, tailSeen)' = Gap(head', tailSeen)
        /\ Gap(headSeen, tail)' = Gap(headSeen, tail)
        /\ Gap(head, tail)' = Gap(head', tail)
        /\ Gap(tailSeen, tail)' = Gap(tailSeen, tail)
    BY DEF ReleaseSlot, Gap
  <2>2. /\ Gap(headSeen, head) \in Nat /\ Gap(head, tail) \in Nat
        /\ Gap(head, tailSeen) \in Nat /\ Gap(tailSeen, tail) \in Nat
    BY Gaps
  <2>3. accepted' = accepted /\ Released \in Nat
    BY DEF ReleaseSlot, RingOrder
  <2> QED BY <1>3, <1>4, <1>5, <2>1, <2>2, <2>3 DEF RingOrder
<1>8. RingContents'
  <2> SUFFICES ASSUME NEW i \in Slot, i < Gap(head', tail)
               PROVE  buf[Ahead(head', i)] = accepted[Released' + i + 1]
    BY DEF RingContents, ReleaseSlot, Gap, Ahead
  <2>1. i + 1 \in Slot /\ i + 1 < Gap(head, tail)
    <3>1. Gap(head, tail) \in Slot
      BY DEF LoggerTypeOK, Slot, Gap
    <3> QED BY <1>3, <3>1 DEF Slot
  <2>2. Ahead(head', i) = Ahead(head, i + 1)
    BY <2>1 DEF ReleaseSlot, LoggerTypeOK, Slot, Succ, Ahead
  <2>3. Released' + i + 1 = Released + (i + 1) + 1
    BY <1>5 DEF RingOrder, Slot
  <2> QED BY <2>1, <2>2, <2>3 DEF RingContents
<1>9. FileIsPrefix'
  BY DEF FileIsPrefix, ReleaseSlot
<1>10. OwnerInv' /\ WriterInv'
  BY DEF OwnerInv, WriterInv, ReleaseSlot, Current, LoggerTypeOK
<1> QED BY <1>6, <1>7, <1>8, <1>9, <1>10

\* The steps that move no index and no frame.
LEMMA QuietStepIInv ==
    ASSUME IInv,
           \/ StopAsk \/ StopJoin \/ SeeRunning \/ SeeStopped \/ Flush
           \/ UNCHANGED loggerVars
    PROVE  IInv'
<1> USE TelemetryAssumption DEF IInv, RingInv
<1>1. CASE StopAsk
  BY <1>1 DEF StopAsk, LoggerTypeOK, RingOrder, RingContents, OwnerInv, WriterInv,
              FileIsPrefix, Released, Current, Gap, Ahead
<1>2. CASE StopJoin
  BY <1>2 DEF StopJoin, LoggerTypeOK, RingOrder, RingContents, OwnerInv, WriterInv,
              FileIsPrefix, Released, Current, Gap, Ahead
<1>3. CASE SeeRunning
  BY <1>3 DEF SeeRunning, LoggerTypeOK, RingOrder, RingContents, OwnerInv, WriterInv,
              FileIsPrefix, Released, Current, Gap, Ahead
<1>4. CASE SeeStopped
  BY <1>4 DEF SeeStopped, LoggerTypeOK, RingOrder, RingContents, OwnerInv, WriterInv,
              FileIsPrefix, Released, Current, Gap, Ahead
<1>5. CASE Flush
  BY <1>5 DEF Flush, LoggerTypeOK, RingOrder, RingContents, OwnerInv, WriterInv,
              FileIsPrefix, Released, Current, Gap, Ahead
<1>6. CASE UNCHANGED loggerVars
  BY <1>6 DEF loggerVars, LoggerTypeOK, RingOrder, RingContents, OwnerInv, WriterInv,
              FileIsPrefix, Released, Current, Gap, Ahead
<1> QED BY <1>1, <1>2, <1>3, <1>4, <1>5, <1>6

\* Every reachable state is well typed and satisfies the ring invariant:
\* the accepted frames are the rows of the file followed by the slots from
\* head_ to tail_ (TelemetryLogger.cpp:14-60), for every capacity.
THEOREM RingInvariant == LoggerSpec => []IInv
<1>1. IInv /\ [LoggerNext]_loggerVars => IInv'
  BY PushCheckIInv, PushFillIInv, PushPublishIInv, LoadTailIInv, WriteRowIInv,
     ReleaseSlotIInv, QuietStepIInv
  DEF LoggerNext, Owner, Writer, Stopped
<1> QED BY <1>1, InitIInv, PTL DEF LoggerSpec

\* The safety properties the model checker also checks, for every capacity:
\* the file is a prefix of the accepted frames, the two threads never touch
\* the same slot, the writer leaves nothing it saw, the ring never overfills.
THEOREM RingSafety == LoggerSpec => []RingSafe
<1>1. ASSUME LoggerTypeOK, RingInv PROVE NoSlotRace
  <2> SUFFICES ASSUME owner = "fill", writer = "row", tail = head PROVE FALSE
    BY DEF NoSlotRace
  <2>1. head # tailSeen /\ head \in Slot /\ tailSeen \in Slot
    BY <1>1 DEF RingInv, WriterInv, LoggerTypeOK
  <2>2. Gap(head, tailSeen) > 0 /\ Gap(head, tail) = 0
    BY <2>1, <1>1, Gaps, GapRange
  <2> QED BY <2>2, <1>1, Gaps DEF RingInv, RingOrder
<1>2. ASSUME LoggerTypeOK, RingInv PROVE ExitIsFlushed
  BY <1>2 DEF ExitIsFlushed, RingInv, WriterInv
<1>3. ASSUME LoggerTypeOK, RingInv PROVE NeverOverfull
  <2>1. Len(accepted) = Released + Gap(head, tail) /\ Gap(head, tail) < N
    BY <1>3, Gaps, TelemetryAssumption DEF RingInv, RingOrder, Slot
  <2>2. Len(written) \in Nat /\ Released <= Len(written) /\ Released \in Nat
    BY <1>3 DEF Released, LoggerTypeOK, RingInv, RingOrder
  <2>3. Gap(head, tail) \in Nat
    BY <1>3, Gaps
  <2> QED BY <2>1, <2>2, <2>3, TelemetryAssumption DEF NeverOverfull
<1>4. LoggerTypeOK /\ RingInv => FileIsPrefix
  BY DEF RingInv
<1>5. IInv => RingSafe
  BY <1>1, <1>2, <1>3, <1>4 DEF IInv, RingSafe
<1> QED BY <1>5, RingInvariant, PTL

------------------------------------------------------------------------------
\* A push that is published fits the promised room of N - 1 frames.
LEMMA PublishFits ==
    ASSUME IInv, PushPublish
    PROVE  Len(accepted) - Len(written) < N - 1
<1>1. Succ(tail) # headSeen
  BY DEF IInv, RingInv, PushPublish, OwnerInv
<1>2. Gap(headSeen, tail) + 1 < N
  <2>1. Succ(tail) \in Slot
    BY TelemetryAssumption DEF IInv, LoggerTypeOK, Slot, Succ
  <2>2. Gap(headSeen, Succ(tail)) = Gap(headSeen, tail) + 1
    BY <1>1, GapSucc DEF IInv, LoggerTypeOK
  <2>3. headSeen \in Slot /\ Gap(headSeen, tail) \in Nat
    BY Gaps DEF IInv, LoggerTypeOK
  <2>4. Gap(headSeen, Succ(tail)) \in Slot
    BY <2>1, <2>3, GapRange
  <2> QED BY <2>2, <2>3, <2>4, TelemetryAssumption DEF Slot
<1>3. Gap(head, tail) <= Gap(headSeen, tail)
  BY Gaps DEF IInv, RingInv, RingOrder
<1>4. Len(accepted) = Released + Gap(head, tail)
  BY DEF IInv, RingInv, RingOrder
<1>5. Len(written) \in Nat /\ Released <= Len(written) /\ Released \in Nat
  BY DEF Released, IInv, LoggerTypeOK, RingInv, RingOrder
<1>6. Gap(head, tail) \in Nat /\ Gap(headSeen, tail) \in Nat
  BY Gaps DEF IInv
<1> QED BY <1>2, <1>3, <1>4, <1>5, <1>6, TelemetryAssumption

\* The ring of atomics implements the bounded lossy FIFO its users rely on:
\* publishing is Accept, a refused push is Refuse, a row is Deliver, and
\* every other step of either thread is invisible.
THEOREM RingImplementsLossyFifo == LoggerSpec => ImplementsLossyFifo
<1>1. LoggerInit => Fifo!Init
  BY DEF LoggerInit, Fifo!Init
<1>2. ASSUME IInv, [LoggerNext]_loggerVars PROVE [Fifo!Next]_(Fifo!vars)
  <2> USE <1>2
  <2>1. CASE PushCheck
    BY <2>1 DEF PushCheck, Fifo!Next, Fifo!Refuse, Fifo!vars
  <2>2. CASE PushPublish
    <3>1. Current \in Frame
      BY <2>2 DEF IInv, RingInv, OwnerInv, PushPublish, Current, Frame, LoggerTypeOK
    <3>2. Fifo!Accept(Current)
      BY <2>2, PublishFits DEF PushPublish, Fifo!Accept
    <3> QED BY <3>1, <3>2 DEF Fifo!Next
  <2>3. CASE WriteRow
    <3>1. Len(written) < Len(accepted) /\ buf[head] = accepted[Len(written) + 1]
      <4>1. WriteRow => Released = Len(written)
        BY DEF WriteRow, Released
      <4>2. head # tailSeen /\ head \in Slot /\ tailSeen \in Slot
        BY <2>3 DEF IInv, RingInv, WriteRow, WriterInv, LoggerTypeOK
      <4>3. Gap(head, tail) > 0
        BY <4>2, GapRange, Gaps DEF IInv, RingInv, RingOrder
      <4>4. Ahead(head, 0) = head /\ 0 \in Slot
        BY <4>2, TelemetryAssumption DEF Ahead, Slot
      <4>5. Len(written) \in Nat /\ Gap(head, tail) \in Nat
        BY Gaps DEF IInv, LoggerTypeOK
      <4>6. buf[Ahead(head, 0)] = accepted[Released + 0 + 1]
        BY <4>3, <4>4 DEF IInv, RingInv, RingContents
      <4>7. Len(accepted) = Len(written) + Gap(head, tail)
        BY <2>3, <4>1 DEF IInv, RingInv, RingOrder
      <4> QED BY <2>3, <4>1, <4>3, <4>4, <4>5, <4>6, <4>7
    <3> QED BY <2>3, <3>1 DEF WriteRow, Fifo!Next, Fifo!Deliver
  <2>4. CASE \/ PushFill \/ StopAsk \/ StopJoin \/ \E k \in Slot : LoadTail(k)
             \/ SeeRunning \/ SeeStopped \/ ReleaseSlot \/ Flush
             \/ Stopped \/ UNCHANGED loggerVars
    BY <2>4 DEF PushFill, StopAsk, StopJoin, LoadTail, SeeRunning, SeeStopped,
       ReleaseSlot, Flush, Stopped, loggerVars, Fifo!vars
  <2> QED BY <2>1, <2>2, <2>3, <2>4 DEF LoggerNext, Owner, Writer
<1>3. LoggerSpec => []IInv
  BY RingInvariant, PTL DEF IInv
<1> QED BY <1>1, <1>2, <1>3, PTL DEF LoggerSpec, ImplementsLossyFifo, Fifo!Spec

------------------------------------------------------------------------------
(* The lifecycle. *)

\* The devices brought up by a complete start() are all of them.
LEMMA StartBringsUpAll == ToSet(SubSeq(Devices, 1, Len(Devices))) = All
<1>1. Devices \in Seq(STRING)
  BY PositioningAssumption
<1>2. SubSeq(Devices, 1, Len(Devices)) = Devices
  BY <1>1, SubSeqFull
<1> QED BY <1>2 DEF All

\* The two devices that move are among them.
LEMMA MoversAreDevices == "axis" \in All /\ "spindle" \in All
  BY PositioningAssumption DEF All

\* A request is clamped to what the spindle can do, and a period of the ramp
\* does not leave that range.
LEMMA ClampInRange == ASSUME NEW r \in Int PROVE Clamp(r) \in 0 .. MaxRpm
  BY PositioningAssumption DEF Clamp, Least

LEMMA RampInRange ==
    ASSUME TypeOK, Spin PROVE rpm' \in 0 .. MaxRpm
<1>1. rpm \in 0 .. MaxRpm /\ targetRpm \in 0 .. MaxRpm /\ MaxRpm \in Nat /\ Ramp \in Nat \ {0}
  BY PositioningAssumption DEF TypeOK
<1>2. CASE targetRpm - rpm \in -Ramp .. Ramp
  BY <1>1, <1>2 DEF Spin
<1>3. CASE targetRpm - rpm \notin -Ramp .. Ramp
  <2>1. \/ targetRpm > rpm /\ targetRpm - rpm > Ramp /\ rpm' = rpm + Ramp
        \/ targetRpm < rpm /\ rpm - targetRpm > Ramp /\ rpm' = rpm - Ramp
    BY <1>1, <1>3 DEF Spin
  <2> QED BY <1>1, <2>1
<1> QED BY <1>2, <1>3

\* The invariant: the types are needed for the ramp, which goes on in every
\* state of the lifecycle.
PInv == TypeOK /\ NothingMovesUnasked

LEMMA InitInvariant == Init => PInv
<1> SUFFICES ASSUME Init PROVE PInv
  OBVIOUS
<1>1. Interval + 1 \in 0 .. Interval + 1 /\ 0 \in 0 .. MaxRpm /\ FALSE \in BOOLEAN
  BY PositioningAssumption
<1>2. TypeOK
  BY <1>1 DEF Init, TypeOK
<1>3. NothingMovesUnasked
  BY DEF Init, NothingMovesUnasked
<1> QED BY <1>2, <1>3 DEF PInv

\* A fault, from wherever it comes, leaves all devices off and at zero.
LEMMA FailInvariant ==
    ASSUME PInv, NEW reason, Fail(reason), silence' \in 0 .. Interval + 1 PROVE PInv'
<1>1. 0 \in 0 .. MaxRpm /\ FALSE \in BOOLEAN
  BY PositioningAssumption
<1>2. TypeOK'
  BY <1>1 DEF Fail, ShutdownAll, ShutdownSpindle, ShutdownAxis, ShutdownSensor, TypeOK
<1>3. NothingMovesUnasked'
  BY DEF Fail, ShutdownAll, ShutdownSpindle, ShutdownAxis, NothingMovesUnasked
<1> QED BY <1>2, <1>3 DEF PInv

LEMMA NextInvariant == PInv /\ [Next]_vars => PInv'
<1> SUFFICES ASSUME PInv, [Next]_vars PROVE PInv'
  OBVIOUS
<1> USE PositioningAssumption
<1>0. silence \in 0 .. Interval + 1 /\ 0 \in 0 .. Interval + 1
  BY DEF PInv, TypeOK
<1>1. CASE StartOk
  <2>1. on' = All /\ state' = "INITIALISING" /\ commanded' = {}
    BY <1>1, StartBringsUpAll DEF StartOk, InitDevices, PInv, TypeOK
  <2>2. /\ force' = force /\ silence' \in {0, silence}
        /\ rpm' = 0 /\ targetRpm' = 0 /\ pos' = 0 /\ targetPos' = 0
    BY <1>1, StartBringsUpAll
       DEF StartOk, InitDevices, InitSpindle, InitAxis, InitInterlock, All
  <2>3. TypeOK'
    BY <1>0, <2>1, <2>2 DEF PInv, TypeOK
  <2> QED BY <2>1, <2>2, <2>3 DEF PInv, NothingMovesUnasked
<1>2. CASE StartFails
  <2>1. PICK k \in 1 .. Len(Devices) :
            /\ Fail(<<"init", Devices[k]>>)
            /\ silence' = IF "interlock" \in ToSet(SubSeq(Devices, 1, k - 1)) THEN 0 ELSE silence
    BY <1>2 DEF StartFails
  <2>2. silence' \in 0 .. Interval + 1
    BY <1>0, <2>1
  <2> QED BY <2>1, <2>2, FailInvariant
<1>3. CASE CalibrateOk
  BY <1>3 DEF CalibrateOk, PInv, TypeOK, NothingMovesUnasked, devices, spindle, axis
<1>4. CASE CalibrateFails
  <2>1. PICK k \in 1 .. Len(Devices) : Fail(<<"selfTest", Devices[k]>>)
    BY <1>4 DEF CalibrateFails
  <2>2. silence' \in 0 .. Interval + 1
    BY <1>0, <1>4 DEF CalibrateFails
  <2> QED BY <2>1, <2>2, FailInvariant
<1>5. CASE Activate
  BY <1>5 DEF Activate, PInv, TypeOK, NothingMovesUnasked, devices, spindle, axis
<1>6. CASE Pause
  BY <1>6 DEF Pause, PInv, TypeOK, NothingMovesUnasked, devices, spindle, axis
<1>7. CASE RaiseFault
  BY <1>0, <1>7, FailInvariant DEF RaiseFault
<1>8. CASE Reset
  BY <1>8 DEF Reset, PInv, TypeOK, NothingMovesUnasked, devices, spindle, axis
<1>9. CASE \E r \in RpmRequest : SetTargetRpm(r)
  <2>1. PICK r \in RpmRequest : SetTargetRpm(r)
    BY <1>9
  <2>2. targetRpm' \in 0 .. MaxRpm
    BY <2>1, ClampInRange DEF SetTargetRpm
  <2>3. commanded' \subseteq All /\ "spindle" \in commanded'
        /\ ("axis" \in commanded => "axis" \in commanded')
    BY <2>1, MoversAreDevices DEF SetTargetRpm, PInv, TypeOK
  <2> QED BY <2>1, <2>2, <2>3
      DEF SetTargetRpm, PInv, TypeOK, NothingMovesUnasked, lifecycle, axis
<1>10. CASE Spin
  <2>1. rpm' \in 0 .. MaxRpm
    BY <1>10, RampInRange DEF PInv
  <2> QED BY <1>10, <2>1 DEF Spin, PInv, TypeOK, NothingMovesUnasked, lifecycle, devices, axis
<1>11. CASE \E p \in Position : SetTarget(p)
  <2>1. PICK p \in Position : SetTarget(p)
    BY <1>11
  <2>2. commanded' \subseteq All /\ "axis" \in commanded'
        /\ ("spindle" \in commanded => "spindle" \in commanded')
    BY <2>1, MoversAreDevices DEF SetTarget, PInv, TypeOK
  <2> QED BY <2>1, <2>2
      DEF SetTarget, PInv, TypeOK, NothingMovesUnasked, lifecycle, spindle
<1>12. CASE Move
  BY <1>12 DEF Move, PInv, TypeOK, NothingMovesUnasked, lifecycle, devices, spindle
<1>13. CASE SetBaseForce
  BY <1>13 DEF SetBaseForce, PInv, TypeOK, NothingMovesUnasked, lifecycle, devices, spindle, axis
<1>14. CASE Ping
  BY <1>0, <1>14 DEF Ping, PInv, TypeOK, NothingMovesUnasked, lifecycle, devices, spindle, axis
<1>15. CASE Tick
  BY <1>0, <1>15 DEF Tick, PInv, TypeOK, NothingMovesUnasked, lifecycle, devices, spindle, axis
<1>16. CASE UNCHANGED vars
  BY <1>16 DEF vars, PInv, TypeOK, NothingMovesUnasked, lifecycle, devices, spindle, axis
<1> QED BY <1>1, <1>2, <1>3, <1>4, <1>5, <1>6, <1>7, <1>8, <1>9, <1>10, <1>11,
           <1>12, <1>13, <1>14, <1>15, <1>16 DEF Next

\* For any list of devices with the two that move in it, any that may fail and
\* any commands at any time: what moves was commanded since the last start() or
\* fault, and only devices that came up are operated (PositioningFsm.cpp:18-69).
THEOREM OnlyTheCommandedMoves == Spec => []NothingMovesUnasked
<1>1. PInv => NothingMovesUnasked
  BY DEF PInv
<1> QED BY <1>1, InitInvariant, NextInvariant, PTL DEF Spec

THEOREM PositioningTypes == Spec => []TypeOK
<1>1. PInv => TypeOK
  BY DEF PInv
<1> QED BY <1>1, InitInvariant, NextInvariant, PTL DEF Spec

\* Whichever call falls into FAULT, it stops all motion in the same step.
THEOREM FaultStopsAll == Spec => FaultStopsMotion
<1>1. Next /\ state # "FAULT" /\ state' = "FAULT" =>
          rpm' = 0 /\ targetRpm' = 0 /\ pos' = 0 /\ targetPos' = 0
  <2> SUFFICES ASSUME Next, state # "FAULT", state' = "FAULT"
               PROVE  \E reason : Fail(reason)
    BY DEF Fail, ShutdownAll, ShutdownSpindle, ShutdownAxis
  <2>1. CASE StartFails
    BY <2>1 DEF StartFails
  <2>2. CASE CalibrateFails
    BY <2>2 DEF CalibrateFails
  <2>3. CASE RaiseFault
    BY <2>3 DEF RaiseFault
  <2>4. CASE StartOk \/ CalibrateOk \/ Activate \/ Pause \/ Reset
    BY <2>4 DEF StartOk, CalibrateOk, Activate, Pause, Reset
  <2>5. CASE UNCHANGED lifecycle
    BY <2>5 DEF lifecycle
  <2> QED BY <2>1, <2>2, <2>3, <2>4, <2>5
      DEF Next, SetTargetRpm, Spin, SetTarget, Move, SetBaseForce, Ping, Tick
<1>2. [Next]_vars => [state # "FAULT" /\ state' = "FAULT" =>
         rpm' = 0 /\ targetRpm' = 0 /\ pos' = 0 /\ targetPos' = 0]_vars
  BY <1>1
<1> QED BY <1>2, PTL DEF Spec, FaultStopsMotion

\* A step of the spindle that comes nearer to the request, and not past it.
Nearer == rpm' \in (rpm + 1 .. targetRpm) \cup (targetRpm .. rpm - 1)

SpindleNears ==
    [][/\ targetRpm' = targetRpm /\ rpm' # rpm => Nearer
       /\ Spin => Nearer]_vars

\* Whatever the ramp, the limit and the requests: every period in which the
\* spindle is off its target brings it nearer, from either side, and as long
\* as the request stands nothing else moves it but to its target; so it is
\* there within MaxRpm periods and never swings around (SpindleMotor.cpp:26-36).
THEOREM SpindleComesNearer == Spec => SpindleNears
<1>1. ASSUME TypeOK, Spin PROVE Nearer
  <2>1. rpm \in 0 .. MaxRpm /\ targetRpm \in 0 .. MaxRpm /\ MaxRpm \in Nat /\ Ramp \in Nat \ {0}
    BY <1>1, PositioningAssumption DEF TypeOK
  <2>2. rpm # targetRpm
    BY <1>1 DEF Spin
  <2>3. CASE targetRpm - rpm \in -Ramp .. Ramp
    BY <1>1, <2>1, <2>2, <2>3 DEF Spin, Nearer
  <2>4. CASE targetRpm - rpm \notin -Ramp .. Ramp
    <3>1. \/ targetRpm > rpm /\ targetRpm - rpm > Ramp /\ rpm' = rpm + Ramp
          \/ targetRpm < rpm /\ rpm - targetRpm > Ramp /\ rpm' = rpm - Ramp
      BY <1>1, <2>1, <2>4 DEF Spin
    <3> QED BY <2>1, <3>1 DEF Nearer
  <2> QED BY <2>3, <2>4
<1>2. ASSUME TypeOK, Next, targetRpm' = targetRpm, rpm' # rpm PROVE Nearer
  <2>1. rpm \in Nat /\ targetRpm \in Nat
    BY <1>2, PositioningAssumption DEF TypeOK
  <2>2. CASE Spin
    BY <1>1, <1>2, <2>2
  <2>3. CASE StartOk \/ StartFails \/ CalibrateFails \/ RaiseFault
    <3>1. StartOk => rpm' = 0 /\ targetRpm' = 0
      BY StartBringsUpAll, MoversAreDevices DEF StartOk, InitDevices, InitSpindle
    <3>2. StartFails \/ CalibrateFails \/ RaiseFault => rpm' = 0 /\ targetRpm' = 0
      BY DEF StartFails, CalibrateFails, RaiseFault, Fail, ShutdownAll, ShutdownSpindle
    <3>3. rpm' = 0 /\ targetRpm' = 0
      BY <2>3, <3>1, <3>2
    <3> QED BY <1>2, <2>1, <3>3 DEF Nearer
  <2>4. CASE ~(Spin \/ StartOk \/ StartFails \/ CalibrateFails \/ RaiseFault)
    BY <1>2, <2>4 DEF Next, CalibrateOk, Activate, Pause, Reset, SetTargetRpm, SetTarget,
       Move, SetBaseForce, Ping, Tick, spindle
  <2> QED BY <2>2, <2>3, <2>4
<1>3. TypeOK /\ [Next]_vars =>
          [/\ targetRpm' = targetRpm /\ rpm' # rpm => Nearer
           /\ Spin => Nearer]_vars
  BY <1>1, <1>2
<1> QED BY <1>3, PositioningTypes, PTL DEF Spec, SpindleNears
==============================================================================
