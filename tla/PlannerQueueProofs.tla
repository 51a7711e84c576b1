------------------------- MODULE PlannerQueueProofs -------------------------
(***************************************************************************)
(* PlannerQueue, proved for every length of the ring and every set of      *)
(* blocks: the types, that the block being ticked stays untouched, and     *)
(* that the ring implements the bounded queue of BlockFifo.                *)
(***************************************************************************)
EXTENDS PlannerQueue, SequenceTheorems, TLAPS

-----------------------------------------------------------------------------
(* The ring.                                                               *)

(* next(n) is the successor of n on the ring.                              *)
LEMMA NextOnRing ==
    ASSUME NEW n \in Slots
    PROVE  next(n) = IF n = Size - 1 THEN 0 ELSE n + 1
<1>1. CASE n = Size - 1
  <2>1. (n + 1) % Size = 0
    BY <1>1, SizeAssumption DEF Slots
  <2> QED BY <2>1, <1>1 DEF next
<1>2. CASE n # Size - 1
  <2>1. n + 1 \in 0 .. Size - 1
    BY <1>2, SizeAssumption DEF Slots
  <2>2. (n + 1) % Size = n + 1
    BY <2>1, SizeAssumption
  <2> QED BY <2>2, <1>2 DEF next
<1> QED BY <1>1, <1>2

(* The committed slots are slots, and none of them is the head.            *)
LEMMA BehindIsCommitted ==
    ASSUME NEW r \in Slots, NEW w \in Slots, NEW i \in 0 .. Distance(r, w) - 1
    PROVE  Behind(r, i) \in Slots \ {w}
BY SizeAssumption DEF Slots, Distance, Behind

LEMMA DistanceRange ==
    ASSUME NEW r \in Slots, NEW w \in Slots
    PROVE  /\ Distance(r, w) \in 0 .. Size - 1
           /\ Distance(r, w) = 0 <=> r = w
           /\ next(w) # r <=> Distance(r, w) < Size - 1
BY NextOnRing, SizeAssumption DEF Slots, Distance

(* Committing one block makes the queue one longer at the back ...         *)
LEMMA DistanceCommit ==
    ASSUME NEW r \in Slots, NEW w \in Slots, next(w) # r
    PROVE  /\ next(w) \in Slots
           /\ Distance(r, next(w)) = Distance(r, w) + 1
           /\ Behind(r, Distance(r, w)) = w
BY NextOnRing, SizeAssumption DEF Slots, Distance, Behind

(* ... and releasing one makes it one shorter at the front.                *)
LEMMA DistanceRelease ==
    ASSUME NEW r \in Slots, NEW w \in Slots, r # w
    PROVE  /\ next(r) \in Slots
           /\ Distance(next(r), w) = Distance(r, w) - 1
           /\ Behind(r, 0) = r
           /\ \A i \in 0 .. Distance(r, w) - 2 : Behind(next(r), i) = Behind(r, i + 1)
BY NextOnRing, SizeAssumption DEF Slots, Distance, Behind

-----------------------------------------------------------------------------
(* The invariant.                                                          *)

LEMMA InitInv == Init => Inv
BY SizeAssumption, NullAssumption
   DEF Init, Inv, TypeOK, TailUntouched, HeadPlanned, QueuePlanned, RoomSeen,
       Slots, Distance

(* Writing the head slot leaves what is committed and what is ticked alone. *)
LEMMA HeadWrite ==
    ASSUME Inv, NEW c \in Blocks \cup {Cleared},
           m_buffer' = [m_buffer EXCEPT ![m_wIndex] = c],
           UNCHANGED <<m_rIndex, m_wIndex, current_block, taken>>
    PROVE  /\ m_buffer' \in [Slots -> Blocks \cup {Cleared}]
           /\ m_buffer'[m_wIndex] = c
           /\ TailUntouched'
           /\ QueuePlanned'
<1> USE DEF Inv
<1>1. m_buffer' \in [Slots -> Blocks \cup {Cleared}] /\ m_buffer'[m_wIndex] = c
  BY DEF TypeOK
<1>2. TailUntouched'
  BY DEF TypeOK, TailUntouched, empty
<1>3. QueuePlanned'
  <2> SUFFICES ASSUME NEW i \in 0 .. Distance(m_rIndex, m_wIndex) - 1
               PROVE  m_buffer'[Behind(m_rIndex, i)] \in Blocks
    BY DEF QueuePlanned
  <2>1. Behind(m_rIndex, i) \in Slots \ {m_wIndex}
    BY BehindIsCommitted DEF TypeOK
  <2> QED BY <2>1 DEF TypeOK, QueuePlanned
<1> QED BY <1>1, <1>2, <1>3

LEMMA NextInv == Inv /\ [Next]_vars => Inv'
<1> SUFFICES ASSUME Inv, [Next]_vars PROVE Inv'
  OBVIOUS
<1> USE DEF Inv
<1>1. CASE GetHead
  BY <1>1, HeadWrite DEF GetHead, TypeOK, HeadPlanned, RoomSeen
<1>2. CASE DropHead
  BY <1>2, HeadWrite DEF DropHead, TypeOK, HeadPlanned, RoomSeen
<1>3. ASSUME NEW b \in Blocks, Fill(b) PROVE Inv'
  BY <1>3, HeadWrite DEF Fill, TypeOK, HeadPlanned, RoomSeen
<1>4. CASE TestFull
  BY <1>4 DEF TestFull, TypeOK, TailUntouched, HeadPlanned, QueuePlanned,
              RoomSeen, empty, full
<1>5. CASE queue_head
  <2>1. next(m_wIndex) # m_rIndex
    BY <1>5 DEF queue_head, RoomSeen, full
  <2>2. /\ m_wIndex' \in Slots
        /\ Distance(m_rIndex, m_wIndex') = Distance(m_rIndex, m_wIndex) + 1
        /\ Behind(m_rIndex, Distance(m_rIndex, m_wIndex)) = m_wIndex
    BY <1>5, <2>1, DistanceCommit DEF queue_head, TypeOK
  <2>3. TypeOK' /\ TailUntouched' /\ HeadPlanned' /\ RoomSeen'
    BY <1>5, <2>1, <2>2
       DEF queue_head, TypeOK, TailUntouched, HeadPlanned, RoomSeen, empty
  <2>4. QueuePlanned'
    <3> SUFFICES ASSUME NEW i \in 0 .. Distance(m_rIndex, m_wIndex)
                 PROVE  m_buffer[Behind(m_rIndex, i)] \in Blocks
      BY <1>5, <2>2, DistanceRange DEF queue_head, QueuePlanned, TypeOK
    <3>1. m_buffer[m_wIndex] \in Blocks
      BY <1>5 DEF queue_head, HeadPlanned
    <3>2. CASE i = Distance(m_rIndex, m_wIndex)
      BY <3>1, <3>2, <2>2
    <3>3. CASE i # Distance(m_rIndex, m_wIndex)
      BY <3>3, DistanceRange DEF QueuePlanned, TypeOK
    <3> QED BY <3>2, <3>3
  <2> QED BY <2>3, <2>4
<1>6. CASE Retry
  BY <1>6 DEF Retry, TypeOK, TailUntouched, HeadPlanned, QueuePlanned, RoomSeen, empty
<1>7. CASE Abort
  BY <1>7, HeadWrite DEF Abort, TypeOK, HeadPlanned, RoomSeen
<1>8. CASE get_tail
  BY <1>8 DEF get_tail, TypeOK, TailUntouched, HeadPlanned, QueuePlanned,
              RoomSeen, empty, full
<1>9. CASE release_tail
  <2>1. m_rIndex # m_wIndex
    BY <1>9 DEF release_tail, TailUntouched, empty
  <2>2. /\ m_rIndex' = next(m_rIndex)
        /\ m_rIndex' \in Slots
        /\ Distance(m_rIndex', m_wIndex) = Distance(m_rIndex, m_wIndex) - 1
        /\ \A i \in 0 .. Distance(m_rIndex, m_wIndex) - 2 :
               Behind(m_rIndex', i) = Behind(m_rIndex, i + 1)
    BY <1>9, <2>1, DistanceRelease DEF release_tail, TypeOK, empty
  <2>3. TypeOK' /\ TailUntouched' /\ HeadPlanned'
    BY <1>9, <2>2 DEF release_tail, TypeOK, TailUntouched, HeadPlanned
  <2>4. QueuePlanned'
    <3> SUFFICES ASSUME NEW i \in 0 .. Distance(m_rIndex, m_wIndex) - 2
                 PROVE  m_buffer[Behind(m_rIndex, i + 1)] \in Blocks
      BY <1>9, <2>2, DistanceRange DEF release_tail, QueuePlanned, TypeOK
    <3> QED BY DistanceRange DEF QueuePlanned, TypeOK
  <2>5. RoomSeen'
    <3>1. next(m_wIndex) # m_rIndex' <=> Distance(m_rIndex', m_wIndex) < Size - 1
      BY <2>2, DistanceRange DEF TypeOK
    <3>2. Distance(m_rIndex, m_wIndex) <= Size - 1 /\ Size \in Nat
      BY DistanceRange, SizeAssumption DEF TypeOK
    <3>3. Distance(m_rIndex, m_wIndex) \in Nat
      BY DistanceRange DEF TypeOK
    <3> QED BY <1>9, <2>2, <3>1, <3>2, <3>3 DEF release_tail, RoomSeen, full
  <2> QED BY <2>3, <2>4, <2>5
<1>10. CASE Forget
  BY <1>10 DEF Forget, TypeOK, TailUntouched, HeadPlanned, QueuePlanned, RoomSeen, full
<1>11. CASE Flush
  <2>1. m_rIndex' = m_wIndex /\ Distance(m_wIndex, m_wIndex) = 0
    BY <1>11, DistanceRange DEF Flush, TypeOK
  <2>2. next(m_wIndex) # m_wIndex
    BY NextOnRing, SizeAssumption DEF TypeOK, Slots
  <2> QED BY <1>11, <2>1, <2>2
          DEF Flush, TypeOK, TailUntouched, HeadPlanned, QueuePlanned, RoomSeen, full
<1>12. CASE UNCHANGED vars
  BY <1>12 DEF vars, TypeOK, TailUntouched, HeadPlanned, QueuePlanned, RoomSeen,
               empty, full
<1> QED BY <1>1, <1>2, <1>3, <1>4, <1>5, <1>6, <1>7, <1>8, <1>9, <1>10, <1>11,
           <1>12 DEF Next

THEOREM Invariance == Spec => []Inv
BY InitInv, NextInv, PTL DEF Spec

(* PlannerQueue keeps its types.                                           *)
THEOREM TypeCorrect == Spec => []TypeOK
BY Invariance, PTL DEF Inv

(* For every ring length the block that the interrupt is ticking is never  *)
(* written by the planner.                                                 *)
THEOREM TailIsUntouched == Spec => []TailUntouched
BY Invariance, PTL DEF Inv

-----------------------------------------------------------------------------
(* The ring implements the bounded queue.                                  *)

fifoNow == Queued(m_buffer, m_rIndex, m_wIndex)

LEMMA QueuedSeq ==
    ASSUME NEW buf \in [Slots -> Blocks \cup {Cleared}],
           NEW r \in Slots, NEW w \in Slots,
           \A i \in 0 .. Distance(r, w) - 1 : buf[Behind(r, i)] \in Blocks
    PROVE  /\ Queued(buf, r, w) \in Seq(Blocks)
           /\ Len(Queued(buf, r, w)) = Distance(r, w)
           /\ \A i \in 1 .. Distance(r, w) :
                 Queued(buf, r, w)[i] = buf[Behind(r, i - 1)]
<1>1. Distance(r, w) \in Nat
  BY DistanceRange
<1>2. \A i \in 1 .. Distance(r, w) : buf[Behind(r, i - 1)] \in Blocks
  BY <1>1
<1>3. Queued(buf, r, w) \in [1 .. Distance(r, w) -> Blocks]
  BY <1>2 DEF Queued
<1>4. Queued(buf, r, w) \in Seq(Blocks)
  BY <1>1, <1>3
<1>5. Len(Queued(buf, r, w)) = Distance(r, w)
  BY <1>1, <1>3, <1>4, LenProperties
<1> QED BY <1>4, <1>5 DEF Queued

(* A write to the head slot is invisible.                                  *)
LEMMA HeadWriteInvisible ==
    ASSUME Inv, NEW c,
           m_buffer' = [m_buffer EXCEPT ![m_wIndex] = c],
           UNCHANGED <<m_rIndex, m_wIndex>>
    PROVE  UNCHANGED fifoNow
<1>1. \A i \in 1 .. Distance(m_rIndex, m_wIndex) :
         m_buffer'[Behind(m_rIndex, i - 1)] = m_buffer[Behind(m_rIndex, i - 1)]
  <2> SUFFICES ASSUME NEW i \in 1 .. Distance(m_rIndex, m_wIndex)
               PROVE  m_buffer'[Behind(m_rIndex, i - 1)] = m_buffer[Behind(m_rIndex, i - 1)]
    OBVIOUS
  <2>1. i - 1 \in 0 .. Distance(m_rIndex, m_wIndex) - 1
    BY DistanceRange DEF Inv, TypeOK
  <2>2. Behind(m_rIndex, i - 1) \in Slots \ {m_wIndex}
    BY <2>1, BehindIsCommitted DEF Inv, TypeOK
  <2> QED BY <2>2 DEF Inv, TypeOK
<1> QED BY <1>1 DEF fifoNow, Queued

LEMMA CommitRefines == Inv /\ Inv' /\ queue_head => Fifo!Commit(m_buffer[m_wIndex])
<1> SUFFICES ASSUME Inv, Inv', queue_head
             PROVE  Fifo!Commit(m_buffer[m_wIndex])
  OBVIOUS
<1> DEFINE d == Distance(m_rIndex, m_wIndex)
           b == m_buffer[m_wIndex]
<1>1. next(m_wIndex) # m_rIndex
  BY DEF queue_head, Inv, RoomSeen, full
<1>2. /\ d < Size - 1
      /\ d \in Nat
      /\ Distance(m_rIndex', m_wIndex') = d + 1
      /\ Behind(m_rIndex, d) = m_wIndex
  BY <1>1, DistanceCommit, DistanceRange DEF queue_head, Inv, TypeOK
<1>3. /\ fifoNow \in Seq(Blocks)
      /\ Len(fifoNow) = d
      /\ \A i \in 1 .. d : fifoNow[i] = m_buffer[Behind(m_rIndex, i - 1)]
  BY QueuedSeq DEF fifoNow, Inv, TypeOK, QueuePlanned
<1>4. /\ fifoNow' \in Seq(Blocks)
      /\ Len(fifoNow') = d + 1
      /\ \A i \in 1 .. d + 1 : fifoNow'[i] = m_buffer'[Behind(m_rIndex', i - 1)]
  BY <1>2, QueuedSeq DEF fifoNow, Inv, TypeOK, QueuePlanned
<1>5. b \in Blocks
  BY DEF queue_head, Inv, HeadPlanned
<1>6. /\ Append(fifoNow, b) \in Seq(Blocks)
      /\ Len(Append(fifoNow, b)) = d + 1
      /\ \A i \in 1 .. d : Append(fifoNow, b)[i] = fifoNow[i]
      /\ Append(fifoNow, b)[d + 1] = b
  BY <1>3, <1>5, AppendProperties, <1>2
<1>7. \A i \in 1 .. d + 1 : fifoNow'[i] = Append(fifoNow, b)[i]
  <2> SUFFICES ASSUME NEW i \in 1 .. d + 1
               PROVE  fifoNow'[i] = Append(fifoNow, b)[i]
    OBVIOUS
  <2>1. fifoNow'[i] = m_buffer[Behind(m_rIndex, i - 1)]
    BY <1>4 DEF queue_head
  <2>2. CASE i = d + 1
    BY <2>1, <2>2, <1>2, <1>6
  <2>3. CASE i # d + 1
    BY <2>1, <2>3, <1>2, <1>3, <1>6
  <2> QED BY <2>2, <2>3
<1>8. fifoNow' = Append(fifoNow, b)
  BY <1>4, <1>6, <1>7, SeqEqual
<1> QED BY <1>2, <1>3, <1>8 DEF Fifo!Commit, fifoNow

LEMMA ReleaseRefines == Inv /\ Inv' /\ release_tail => Fifo!Release
<1> SUFFICES ASSUME Inv, Inv', release_tail PROVE Fifo!Release
  OBVIOUS
<1> DEFINE d == Distance(m_rIndex, m_wIndex)
<1>1. m_rIndex # m_wIndex
  BY DEF release_tail, Inv, TailUntouched, empty
<1>2. /\ d \in Nat \ {0}
      /\ Distance(m_rIndex', m_wIndex') = d - 1
      /\ \A i \in 0 .. d - 2 : Behind(m_rIndex', i) = Behind(m_rIndex, i + 1)
  BY <1>1, DistanceRelease, DistanceRange DEF release_tail, Inv, TypeOK, empty
<1>3. /\ fifoNow \in Seq(Blocks)
      /\ Len(fifoNow) = d
      /\ \A i \in 1 .. d : fifoNow[i] = m_buffer[Behind(m_rIndex, i - 1)]
  BY QueuedSeq DEF fifoNow, Inv, TypeOK, QueuePlanned
<1>4. /\ fifoNow' \in Seq(Blocks)
      /\ Len(fifoNow') = d - 1
      /\ \A i \in 1 .. d - 1 : fifoNow'[i] = m_buffer'[Behind(m_rIndex', i - 1)]
  <2>1. /\ fifoNow' \in Seq(Blocks)
        /\ Len(fifoNow') = Distance(m_rIndex', m_wIndex')
        /\ \A i \in 1 .. Distance(m_rIndex', m_wIndex') :
              fifoNow'[i] = m_buffer'[Behind(m_rIndex', i - 1)]
    BY QueuedSeq DEF fifoNow, Inv, TypeOK, QueuePlanned
  <2>2. Distance(m_rIndex', m_wIndex') = d - 1
    BY <1>2 DEF release_tail
  <2> HIDE DEF d
  <2> QED BY <2>1, <2>2
<1>5. fifoNow # <<>>
  BY <1>2, <1>3, EmptySeq
<1>6. /\ Tail(fifoNow) \in Seq(Blocks)
      /\ Len(Tail(fifoNow)) = d - 1
      /\ \A i \in 1 .. d - 1 : Tail(fifoNow)[i] = fifoNow[i + 1]
  BY <1>3, <1>5, HeadTailProperties
<1>7. \A i \in 1 .. d - 1 : fifoNow'[i] = Tail(fifoNow)[i]
  <2> SUFFICES ASSUME NEW i \in 1 .. d - 1
               PROVE  fifoNow'[i] = Tail(fifoNow)[i]
    OBVIOUS
  <2>1. fifoNow'[i] = m_buffer[Behind(m_rIndex', i - 1)]
    BY <1>4 DEF release_tail
  <2>2. i - 1 \in 0 .. d - 2 /\ (i - 1) + 1 = i /\ i + 1 \in 1 .. d /\ (i + 1) - 1 = i
    BY <1>2
  <2>3. Behind(m_rIndex', i - 1) = Behind(m_rIndex, i)
    BY <1>2, <2>2
  <2>4. fifoNow[i + 1] = m_buffer[Behind(m_rIndex, i)]
    BY <1>3, <2>2
  <2> QED BY <2>1, <2>3, <2>4, <1>6
<1>8. fifoNow' = Tail(fifoNow)
  BY <1>4, <1>6, <1>7, SeqEqual
<1> QED BY <1>5, <1>8 DEF Fifo!Release, fifoNow

LEMMA FlushRefines == Inv /\ Flush => Fifo!Discard
<1> SUFFICES ASSUME Inv, Flush PROVE Fifo!Discard
  OBVIOUS
<1>1. /\ Distance(m_rIndex, m_wIndex) \in Nat \ {0}
      /\ Distance(m_rIndex', m_wIndex') = 0
  BY DistanceRange DEF Flush, Inv, TypeOK, empty
<1>2. fifoNow # <<>>
  <2>1. Len(fifoNow) # 0
    BY <1>1, QueuedSeq DEF fifoNow, Inv, TypeOK, QueuePlanned
  <2> QED BY <2>1
<1>3. fifoNow' = <<>>
  BY <1>1 DEF fifoNow, Queued
<1> QED BY <1>2, <1>3 DEF Fifo!Discard, fifoNow

LEMMA StepRefines == Inv /\ Inv' /\ [Next]_vars => [Fifo!Next]_(Queued(m_buffer, m_rIndex, m_wIndex))
<1> SUFFICES ASSUME Inv, Inv', [Next]_vars
             PROVE  Fifo!Next \/ UNCHANGED fifoNow
  BY DEF fifoNow
<1>1. CASE GetHead \/ DropHead \/ Abort
  BY <1>1, HeadWriteInvisible DEF GetHead, DropHead, Abort
<1>2. ASSUME NEW b \in Blocks, Fill(b) PROVE UNCHANGED fifoNow
  BY <1>2, HeadWriteInvisible DEF Fill
<1>3. CASE TestFull \/ Retry \/ get_tail \/ Forget \/ UNCHANGED vars
  BY <1>3 DEF TestFull, Retry, get_tail, Forget, vars, fifoNow
<1>4. CASE queue_head
  <2>1. m_buffer[m_wIndex] \in Blocks
    BY <1>4 DEF queue_head, Inv, HeadPlanned
  <2> QED BY <1>4, <2>1, CommitRefines DEF Fifo!Next
<1>5. CASE release_tail
  BY <1>5, ReleaseRefines DEF Fifo!Next
<1>6. CASE Flush
  BY <1>6, FlushRefines DEF Fifo!Next
<1> QED BY <1>1, <1>2, <1>3, <1>4, <1>5, <1>6 DEF Next

(* The ring implements the bounded queue of BlockFifo, whatever its length *)
(* and whatever the interrupt does between two accesses of the planner.    *)
THEOREM RingIsFifo == Spec => IsFifo
<1>1. Init => Fifo!Init
  <2> SUFFICES ASSUME Init PROVE Queued(m_buffer, m_rIndex, m_wIndex) = <<>>
    BY DEF Fifo!Init
  <2>1. Distance(m_rIndex, m_wIndex) = 0
    BY SizeAssumption DEF Init, Distance
  <2> QED BY <2>1 DEF Queued
<1> QED BY <1>1, Invariance, StepRefines, PTL DEF Spec, IsFifo, Fifo!Spec
=============================================================================
