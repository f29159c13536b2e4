------------------------- MODULE NvencSessionProofs -------------------------
(***************************************************************************)
(* Proofs about NvencSession, for every pool size, every set of surfaces   *)
(* and frames, and with or without lock errors and lost frames.            *)
(*                                                                         *)
(* TypeOK and BacklogBounded are inductive as they stand (the latter given *)
(* the former).  ExactlyOnce and MappedUntilUnlocked are not: both follow  *)
(* from Places, which says where every frame is.  OwedBuffersPending is    *)
(* proved in the form Owed, which speaks of the queue entry by entry.      *)
(* What is mapped and nothing remembers (Astray) comes of one step only;   *)
(* the counts of that are the balance of map and unmap.  Of CallsReturn    *)
(* the part without fairness is here: a call is bounded, and it can always *)
(* go on but for the lock after SUCCESS, which waits for its own frame.    *)
(***************************************************************************)
EXTENDS NvencSession, FiniteSetTheorems, SequenceTheorems, WellFoundedInduction, TLAPS

\* The pool is finite and has PoolSize slots (POOL_SIZE in session.rs).
LEMMA SlotsFinite == IsFiniteSet(Slots) /\ Cardinality(Slots) = PoolSize
  BY PoolSizeAssumption, FS_Interval DEF Slots

\* The elements of a sequence over S are in S: what InFlight needs.
LEMMA SeqElements ==
  ASSUME NEW S, NEW s \in Seq(S)
  PROVE  {s[k] : k \in 1 .. Len(s)} \subseteq S
  OBVIOUS

\* RemoveAt (the drain taking a slot NVENC gave up out of the encode queue)
\* shortens a sequence by one and moves up what came after.
LEMMA RemoveAtProperties ==
  ASSUME NEW S, NEW s \in Seq(S), NEW n \in 1 .. Len(s)
  PROVE  /\ RemoveAt(s, n) \in Seq(S)
         /\ Len(RemoveAt(s, n)) = Len(s) - 1
         /\ \A k \in 1 .. Len(s) - 1 :
               RemoveAt(s, n)[k] = IF k < n THEN s[k] ELSE s[k + 1]
<1> DEFINE a == SubSeq(s, 1, n - 1)
           b == SubSeq(s, n + 1, Len(s))
<1>1. /\ a \in Seq(S) /\ Len(a) = n - 1
      /\ \A k \in 1 .. n - 1 : a[k] = s[k]
  BY SubSeqProperties
<1>2. /\ b \in Seq(S) /\ Len(b) = Len(s) - n
      /\ \A k \in 1 .. Len(s) - n : b[k] = s[k + n]
  BY SubSeqProperties
<1>3. RemoveAt(s, n) = a \o b
  BY DEF RemoveAt
<1> HIDE DEF a, b
<1>4. /\ a \o b \in Seq(S) /\ Len(a \o b) = Len(a) + Len(b)
      /\ \A k \in 1 .. Len(a) + Len(b) :
            (a \o b)[k] = IF k <= Len(a) THEN a[k] ELSE b[k - Len(a)]
  BY <1>1, <1>2, ConcatProperties
<1>5. ASSUME NEW k \in 1 .. Len(s) - 1
      PROVE  RemoveAt(s, n)[k] = IF k < n THEN s[k] ELSE s[k + 1]
  <2>1. CASE k < n
    BY <2>1, <1>1, <1>2, <1>3, <1>4
  <2>2. CASE ~(k < n)
    BY <2>2, <1>1, <1>2, <1>3, <1>4
  <2> QED
    BY <2>1, <2>2
<1> QED
  BY <1>1, <1>2, <1>3, <1>4, <1>5

\* The encode queue stays a sequence of slots when NVENC gives one up.
LEMMA WithdrawnType ==
  ASSUME NEW i, queue \in Seq(Slots)
  PROVE  Withdrawn(i) \in Seq(Slots)
  BY RemoveAtProperties DEF Withdrawn, InFlight

\* Every step of the session keeps every variable in its type; above all the
\* slot indices of encode_frame and `new` stay inside the pool.
THEOREM TypeCorrect == Spec => []TypeOK
<1>1. Init => TypeOK
  BY PoolSizeAssumption DEF Init, TypeOK, Slots, Phases, Answers, Answer
<1>2. TypeOK /\ [Next]_vars => TypeOK'
  <2> SUFFICES ASSUME TypeOK, [Next]_vars PROVE TypeOK'
    OBVIOUS
  <2> USE PoolSizeAssumption, NullAssumption
          DEF TypeOK, Phases, Slots, SlotAfter, Release, KeepsMapped, PopFront,
              CreatedSoFar
  <2>1. CASE OpenSession
    BY <2>1 DEF OpenSession
  <2>2. CASE CreateBitstreamBuffer
    BY <2>2 DEF CreateBitstreamBuffer
  <2>3. CASE CreateBitstreamBufferFails
    BY <2>3 DEF CreateBitstreamBufferFails
  <2>4. ASSUME NEW s \in Surfaces, RegisterSurface(s) PROVE TypeOK'
    BY <2>4 DEF RegisterSurface, nvenc
  <2>5. ASSUME NEW s \in Surfaces, UnregisterSurface(s) PROVE TypeOK'
    BY <2>5 DEF UnregisterSurface, nvenc
  <2>6. ASSUME NEW s \in Surfaces, EncodeFrame(s) PROVE TypeOK'
    BY <2>6 DEF EncodeFrame, nvenc, Answers, Answer
  <2>7. ASSUME NEW i \in Slots, DrainReady(i) PROVE TypeOK'
    BY <2>7 DEF DrainReady, IsNextDrained, PendingSlots
  <2>8. ASSUME NEW i \in Slots, DrainBusy(i) PROVE TypeOK'
    BY <2>8 DEF DrainBusy, nvenc
  <2>9. ASSUME NEW i \in Slots, DrainError(i) PROVE TypeOK'
    BY <2>9, WithdrawnType DEF DrainError
  <2>10. CASE InvalidSurface
    BY <2>10 DEF InvalidSurface, ReturnError, nvenc, Answers, Answer
  <2>11. CASE PoolExhausted
    BY <2>11 DEF PoolExhausted, ReturnError, nvenc, Answers, Answer
  <2>12. CASE MapInputFails
    BY <2>12 DEF MapInputFails, ReturnError, nvenc, Answers, Answer
  <2>13. ASSUME NEW f \in Frames, MapInput(f) PROVE TypeOK'
    BY <2>13 DEF MapInput
  <2>14. ASSUME NEW i \in Slots, EncodeSuccess(i) PROVE TypeOK'
    BY <2>14 DEF EncodeSuccess
  <2>15. CASE LockOutput
    BY <2>15 DEF LockOutput
  <2>25. CASE LockOutputFails
    BY <2>25, WithdrawnType DEF LockOutputFails, ReturnError, Answers, Answer
  <2>16. ASSUME NEW i \in Slots, EncodeNeedMoreInput(i) PROVE TypeOK'
    BY <2>16 DEF EncodeNeedMoreInput
  <2>17. CASE EncodePictureFails
    BY <2>17 DEF EncodePictureFails, ReturnError, Answers, Answer
  <2>18. ASSUME NEW i \in Slots, ProbeReady(i) PROVE TypeOK'
    BY <2>18 DEF ProbeReady, IsProbedSlot, PendingSlots
  <2>19. CASE ReturnBytes
    BY <2>19 DEF ReturnBytes, nvenc, Answers, BytesOf
  <2>20. CASE ReturnPending
    BY <2>20 DEF ReturnPending, nvenc, Answers, Answer
  <2>21. CASE HwComplete
    BY <2>21, HeadTailProperties DEF HwComplete, driver
  <2>22. CASE Reconfigure
    BY <2>22 DEF Reconfigure, driver
  <2>23. CASE DropSession
    BY <2>23 DEF DropSession, Answers, Answer
  <2>24. CASE UNCHANGED vars
    BY <2>24 DEF vars
  <2> QED
    BY <2>1, <2>2, <2>3, <2>4, <2>5, <2>6, <2>7, <2>8, <2>9, <2>10, <2>11,
       <2>12, <2>13, <2>14, <2>15, <2>16, <2>17, <2>18, <2>19, <2>20, <2>21,
       <2>22, <2>23, <2>24, <2>25 DEF Next, Drain, Admit, Submit, Lock, Collect
<1> QED
  BY <1>1, <1>2, PTL DEF Spec
---------------------------------------------------------------------------
(* The backlog.  The number of Pending slots moves by one with every slot    *)
(* freed or filled, and a Free slot leaves room for one more frame.          *)

\* The Pending slots can be counted, and there are at most PoolSize of them.
LEMMA PendingSlotsCount ==
  IsFiniteSet(PendingSlots) /\ Cardinality(PendingSlots) \in 0 .. PoolSize
<1>1. PendingSlots \in SUBSET Slots
  BY DEF PendingSlots
<1> QED
  BY <1>1, SlotsFinite, FS_Subset, FS_CardinalityType, PoolSizeAssumption

\* SlotState::Free stored in a Pending slot: one Pending slot less.
LEMMA FreeingASlot ==
  ASSUME TypeOK, NEW i \in PendingSlots, pool' = [pool EXCEPT ![i] = NoFrame]
  PROVE  /\ PendingSlots' = PendingSlots \ {i}
         /\ Cardinality(PendingSlots') = Cardinality(PendingSlots) - 1
<1>1. PendingSlots' = PendingSlots \ {i}
  BY DEF PendingSlots, TypeOK
<1> QED
  BY <1>1, PendingSlotsCount, FS_RemoveElement

\* SlotState::Pending stored in a Free slot: one Pending slot more.
LEMMA FillingASlot ==
  ASSUME TypeOK, NEW i \in FreeSlots, NEW f \in Frames,
         pool' = [pool EXCEPT ![i] = f]
  PROVE  /\ PendingSlots' = PendingSlots \cup {i}
         /\ Cardinality(PendingSlots') = Cardinality(PendingSlots) + 1
<1>1. PendingSlots' = PendingSlots \cup {i} /\ i \notin PendingSlots
  BY NullAssumption DEF PendingSlots, FreeSlots, TypeOK
<1> QED
  BY <1>1, PendingSlotsCount, FS_AddElement

\* A new pool has no Pending slot.
LEMMA EmptyPool ==
  ASSUME pool = [i \in Slots |-> NoFrame]
  PROVE  PendingSlots = {} /\ Cardinality(PendingSlots) = 0
<1>1. PendingSlots = {}
  BY DEF PendingSlots
<1> QED
  BY <1>1, FS_EmptySet

\* A session never holds more deferred work than its pool has buffers: the
\* FIFO of session.rs has no bound of its own, the round-robin pool gives it one.
THEOREM BacklogIsBounded == Spec => []BacklogBounded
<1>1. Init => BacklogBounded
  BY EmptyPool, PoolSizeAssumption DEF Init, BacklogBounded
<1>2. TypeOK /\ BacklogBounded /\ [Next]_vars => BacklogBounded'
  <2> SUFFICES ASSUME TypeOK, BacklogBounded, [Next]_vars PROVE BacklogBounded'
    OBVIOUS
  <2> USE PoolSizeAssumption, PendingSlotsCount DEF BacklogBounded, Release, PopFront
  <2>0. pending_outputs \in Seq(Frames) /\ Len(pending_outputs) \in Nat
    BY DEF TypeOK
  <2>1. ASSUME pool' = pool, pending_outputs' = pending_outputs, pc # "collect"
        PROVE  BacklogBounded'
    <3>1. PendingSlots' = PendingSlots
      BY <2>1 DEF PendingSlots
    <3> QED
      BY <2>0, <2>1, <3>1
  <2>2. ASSUME NEW i \in Slots, DrainReady(i) PROVE BacklogBounded'
    <3>1. pool[i] \in Frames
      BY <2>2 DEF DrainReady, IsNextDrained, PendingSlots, TypeOK
    <3>2. Len(pending_outputs') = Len(pending_outputs) + 1
      BY <2>0, <2>2, <3>1 DEF DrainReady
    <3>3. Cardinality(PendingSlots') = Cardinality(PendingSlots) - 1
      BY <2>2, FreeingASlot DEF DrainReady, IsNextDrained
    <3> QED
      BY <2>0, <2>2, <3>2, <3>3 DEF DrainReady
  <2>3. ASSUME NEW i \in Slots, DrainError(i) PROVE BacklogBounded'
    <3>1. Cardinality(PendingSlots') = Cardinality(PendingSlots) - 1
      BY <2>3, FreeingASlot DEF DrainError, IsNextDrained
    <3> QED
      BY <2>0, <2>3, <3>1 DEF DrainError
  <2>4. CASE LockOutput
    <3>1. current \in Frames
      BY <2>4 DEF LockOutput, TypeOK
    <3>2. Len(pending_outputs') = Len(pending_outputs) + 1
      BY <2>0, <2>4, <3>1 DEF LockOutput
    <3>3. PendingSlots' = PendingSlots
      BY <2>4 DEF LockOutput, PendingSlots
    <3> QED
      BY <2>0, <2>4, <3>2, <3>3 DEF LockOutput
  <2>5. ASSUME NEW i \in Slots, EncodeNeedMoreInput(i) PROVE BacklogBounded'
    <3>1. current \in Frames
      BY <2>5 DEF EncodeNeedMoreInput, TypeOK
    <3>2. Cardinality(PendingSlots') = Cardinality(PendingSlots) + 1
      BY <2>5, <3>1, FillingASlot DEF EncodeNeedMoreInput, IsNextFreeSlot
    <3> QED
      BY <2>0, <2>5, <3>2 DEF EncodeNeedMoreInput
  <2>6. ASSUME NEW i \in Slots, ProbeReady(i) PROVE BacklogBounded'
    <3>1. Cardinality(PendingSlots') = Cardinality(PendingSlots) - 1
      BY <2>6, FreeingASlot DEF ProbeReady, IsProbedSlot
    <3>2. Len(pending_outputs) = 0 /\ Len(pending_outputs') = 1
      BY <2>6 DEF ProbeReady
    <3> QED
      BY <2>0, <2>6, <3>1, <3>2 DEF ProbeReady
  <2>7. CASE ReturnBytes
    <3>1. Len(pending_outputs') = Len(pending_outputs) - 1
      BY <2>0, <2>7, HeadTailProperties DEF ReturnBytes
    <3>2. PendingSlots' = PendingSlots
      BY <2>7 DEF ReturnBytes, PendingSlots
    <3> QED
      BY <2>0, <2>7, <3>1, <3>2 DEF ReturnBytes
  <2>8. CASE ReturnPending
    \* Nothing in the FIFO: the Pending slots alone are at most PoolSize.
    <3>1. PendingSlots' = PendingSlots
      BY <2>8 DEF ReturnPending, PendingSlots
    <3> QED
      BY <2>0, <2>8, <3>1 DEF ReturnPending
  <2>9. CASE HwComplete \/ UNCHANGED vars
    <3>1. pc' = pc /\ pool' = pool /\ pending_outputs' = pending_outputs
      BY <2>9 DEF HwComplete, driver, vars
    <3>2. PendingSlots' = PendingSlots
      BY <3>1 DEF PendingSlots
    <3> QED
      BY <2>0, <3>1, <3>2
  <2>10. CASE DropSession
    <3>1. PendingSlots' = {}
      BY <2>10 DEF DropSession, PendingSlots
    <3> QED
      BY <2>10, <3>1, FS_EmptySet DEF DropSession
  <2>11. CASE OpenSession \/ CreateBitstreamBuffer \/ CreateBitstreamBufferFails
    BY <2>1, <2>11 DEF OpenSession, CreateBitstreamBuffer, CreateBitstreamBufferFails
  <2>12. ASSUME NEW s \in Surfaces,
                RegisterSurface(s) \/ UnregisterSurface(s) \/ EncodeFrame(s)
         PROVE  BacklogBounded'
    BY <2>1, <2>12 DEF RegisterSurface, UnregisterSurface, EncodeFrame
  <2>13. ASSUME NEW i \in Slots, DrainBusy(i) PROVE BacklogBounded'
    BY <2>1, <2>13 DEF DrainBusy
  <2>14. CASE Admit
    BY <2>1, <2>14 DEF Admit, InvalidSurface, PoolExhausted, MapInputFails, MapInput
  <2>15. CASE LockOutputFails \/ EncodePictureFails \/ \E i \in Slots : EncodeSuccess(i)
    BY <2>1, <2>15 DEF LockOutputFails, EncodePictureFails, EncodeSuccess
  <2>16. CASE Reconfigure
    BY <2>1, <2>16 DEF Reconfigure, driver
  <2> QED
    BY <2>2, <2>3, <2>4, <2>5, <2>6, <2>7, <2>8, <2>9, <2>10, <2>11, <2>12,
       <2>13, <2>14, <2>15, <2>16 DEF Next, Drain, Submit, Lock, Collect
<1> QED
  BY <1>1, <1>2, TypeCorrect, PTL DEF Spec
---------------------------------------------------------------------------
(* Where frames are.  ExactlyOnce and MappedUntilUnlocked are inductive only *)
(* together: unmapping the input of one frame leaves every other Pending     *)
(* input mapped because no two slots hold the same frame.  Places says both  *)
(* element by element, and that the frame being submitted is mapped.         *)

Places ==
    /\ \A i, j \in Slots : pool[i] = pool[j] /\ pool[i] # NoFrame => i = j
    /\ \A k, l \in 1 .. Len(pending_outputs) :
           pending_outputs[k] = pending_outputs[l] => k = l
    /\ \A i \in Slots, k \in 1 .. Len(pending_outputs) :
           pool[i] # pending_outputs[k]
    /\ \A i \in Slots : pool[i] # NoFrame => pool[i] \in mapped
    /\ \A k \in 1 .. Len(pending_outputs) : pending_outputs[k] \notin mapped
    /\ pc \in {"submit", "lock"} =>
         /\ current \in mapped
         /\ \A i \in Slots : pool[i] # current
         /\ \A k \in 1 .. Len(pending_outputs) : pending_outputs[k] # current
    /\ pc \in {"closed", "creating"} =>
         pending_outputs = <<>> /\ \A i \in Slots : pool[i] = NoFrame

\* Before the first session nothing is anywhere.
LEMMA PlacesInit == Init => Places
  BY DEF Init, Places, Answer

\* Every step of encode_frame, of the hardware and of the session keeps Places.
LEMMA PlacesNext == TypeOK /\ Places /\ [Next]_vars => Places'
<1> SUFFICES ASSUME TypeOK, Places, [Next]_vars PROVE Places'
  OBVIOUS
<1> USE PoolSizeAssumption, NullAssumption DEF Release, KeepsMapped, PopFront
<1>0. /\ pending_outputs \in Seq(Frames) /\ Len(pending_outputs) \in Nat
      /\ pool \in [Slots -> Frames \cup {NoFrame}]
  BY DEF TypeOK
<1>1. ASSUME pool' = pool, pending_outputs' = pending_outputs, mapped' = mapped,
             pc' \notin {"submit", "lock"}, pc' \in {"closed", "creating"} => pc' = pc
      PROVE  Places'
  BY <1>1 DEF Places
<1>2. ASSUME NEW i \in Slots, DrainReady(i) PROVE Places'
  <2>1. pool[i] \in Frames
    BY <1>2 DEF DrainReady, IsNextDrained, PendingSlots, TypeOK
  <2>2. /\ Len(pending_outputs') = Len(pending_outputs) + 1
        /\ \A k \in 1 .. Len(pending_outputs) : pending_outputs'[k] = pending_outputs[k]
        /\ pending_outputs'[Len(pending_outputs) + 1] = pool[i]
    BY <1>0, <1>2, <2>1, AppendProperties DEF DrainReady
  <2> QED
    BY <1>0, <1>2, <2>1, <2>2 DEF DrainReady, Places
<1>3. ASSUME NEW i \in Slots, DrainError(i) PROVE Places'
  BY <1>0, <1>3 DEF DrainError, Places
<1>4. ASSUME NEW f \in Frames, MapInput(f) PROVE Places'
  <2>1. /\ \A i \in Slots : pool[i] # f
        /\ \A k \in 1 .. Len(pending_outputs) : pending_outputs[k] # f
    BY <1>0, <1>4 DEF MapInput, Held, PendingFrames, PendingSlots, QueuedOutputs
  <2> QED
    BY <1>0, <1>4, <2>1 DEF MapInput, Places
<1>5. CASE LockOutput
  <2>1. current \in Frames
    BY <1>5 DEF LockOutput, TypeOK
  <2>2. /\ Len(pending_outputs') = Len(pending_outputs) + 1
        /\ \A k \in 1 .. Len(pending_outputs) : pending_outputs'[k] = pending_outputs[k]
        /\ pending_outputs'[Len(pending_outputs) + 1] = current
    BY <1>0, <1>5, <2>1, AppendProperties DEF LockOutput
  <2> QED
    BY <1>0, <1>5, <2>1, <2>2 DEF LockOutput, Places
<1>18. ASSUME NEW i \in Slots, EncodeSuccess(i) PROVE Places'
  BY <1>18 DEF EncodeSuccess, Places
<1>6. ASSUME NEW i \in Slots, EncodeNeedMoreInput(i) PROVE Places'
  <2>1. current \in Frames
    BY <1>6 DEF EncodeNeedMoreInput, TypeOK
  <2> QED
    BY <1>0, <1>6, <2>1 DEF EncodeNeedMoreInput, Places
<1>7. CASE EncodePictureFails
  BY <1>0, <1>7 DEF EncodePictureFails, ReturnError, Places
<1>8. ASSUME NEW i \in Slots, ProbeReady(i) PROVE Places'
  <2>1. pool[i] \in Frames
    BY <1>8 DEF ProbeReady, IsProbedSlot, PendingSlots, TypeOK
  <2>2. Len(pending_outputs') = 1 /\ pending_outputs'[1] = pool[i]
    BY <1>8 DEF ProbeReady
  <2> QED
    BY <1>0, <1>8, <2>1, <2>2 DEF ProbeReady, Places
<1>9. CASE ReturnBytes
  <2>1. /\ Len(pending_outputs') = Len(pending_outputs) - 1
        /\ \A k \in 1 .. Len(pending_outputs) - 1 :
              pending_outputs'[k] = pending_outputs[k + 1]
    BY <1>0, <1>9, HeadTailProperties DEF ReturnBytes
  <2> QED
    BY <1>0, <1>9, <2>1 DEF ReturnBytes, nvenc, Places
<1>10. CASE OpenSession
  \* A closed session holds nothing whose input could be mapped.
  BY <1>10 DEF OpenSession, Places
<1>11. CASE DropSession
  BY <1>11 DEF DropSession, Places
<1>12. CASE HwComplete \/ UNCHANGED vars
  BY <1>12 DEF HwComplete, driver, vars, Places
<1>13. CASE ReturnPending \/ Reconfigure
  BY <1>1, <1>13 DEF ReturnPending, Reconfigure, nvenc, driver
<1>14. CASE CreateBitstreamBuffer \/ CreateBitstreamBufferFails
  BY <1>14 DEF CreateBitstreamBuffer, CreateBitstreamBufferFails, Places
<1>15. ASSUME NEW s \in Surfaces,
              RegisterSurface(s) \/ UnregisterSurface(s) \/ EncodeFrame(s)
       PROVE  Places'
  BY <1>1, <1>15 DEF RegisterSurface, UnregisterSurface, EncodeFrame, nvenc
<1>16. ASSUME NEW i \in Slots, DrainBusy(i) PROVE Places'
  BY <1>1, <1>16 DEF DrainBusy, nvenc
<1>17. CASE InvalidSurface \/ PoolExhausted \/ MapInputFails \/ LockOutputFails
  BY <1>1, <1>17 DEF InvalidSurface, PoolExhausted, MapInputFails,
                     LockOutputFails, ReturnError, nvenc
<1> QED
  BY <1>2, <1>3, <1>4, <1>5, <1>6, <1>7, <1>8, <1>9, <1>10, <1>11, <1>12, <1>13,
     <1>14, <1>15, <1>16, <1>17, <1>18 DEF Next, Drain, Admit, Submit, Lock, Collect

\* So Places holds in every reachable state.
LEMMA PlacesAlways == Spec => []Places
  BY PlacesInit, PlacesNext, TypeCorrect, PTL DEF Spec

\* An accepted frame is in one Pending slot or one FIFO entry, never in two:
\* its bytes are handed to one caller at most.
THEOREM FramesAreKeptOnce == Spec => []ExactlyOnce
<1>1. TypeOK /\ Places => ExactlyOnce
  BY DEF TypeOK, Places, ExactlyOnce, Held, PendingFrames, PendingSlots, QueuedOutputs
<1> QED
  BY <1>1, PlacesAlways, TypeCorrect, PTL

\* The input of a deferred frame stays mapped until its output was read, on
\* every path through encode_frame, lock errors included.
THEOREM DeferredInputsStayMapped == Spec => []MappedUntilUnlocked
<1>1. TypeOK /\ Places => MappedUntilUnlocked
  BY DEF TypeOK, Places, MappedUntilUnlocked, PendingFrames, PendingSlots, QueuedOutputs
<1> QED
  BY <1>1, PlacesAlways, TypeCorrect, PTL
---------------------------------------------------------------------------
(* What NVENC owes.  OwedBuffersPending is inductive given the types; Owed is *)
(* the same said element by element, which is how the steps change it, and    *)
(* that the call waiting in lock_and_copy waits for what NVENC owes it.       *)

Awaited(i) == pool[i] # NoFrame \/ (pc = "lock" /\ cursor = i)

Owed ==
    /\ \A k \in 1 .. Len(queue) : Awaited(queue[k]) /\ queue[k] \notin done
    /\ \A i \in done : Awaited(i)
    /\ \A k, l \in 1 .. Len(queue) : queue[k] = queue[l] => k = l
    /\ pc = "lock" => pool[cursor] = NoFrame /\ cursor \in InFlight \cup done

\* A slot whose lock failed is not in the encode queue any more, nothing else
\* left it, and its order is kept.
LEMMA WithdrawnProperties ==
  ASSUME NEW i, queue \in Seq(Slots),
         \A k, l \in 1 .. Len(queue) : queue[k] = queue[l] => k = l
  PROVE  /\ \A k \in 1 .. Len(Withdrawn(i)) :
               Withdrawn(i)[k] \in InFlight /\ Withdrawn(i)[k] # i
         /\ \A k, l \in 1 .. Len(Withdrawn(i)) :
               Withdrawn(i)[k] = Withdrawn(i)[l] => k = l
<1>0. Len(queue) \in Nat
  OBVIOUS
<1>1. CASE i \in InFlight
  <2> DEFINE n == CHOOSE k \in 1 .. Len(queue) : queue[k] = i
             w == RemoveAt(queue, n)
  <2>1. n \in 1 .. Len(queue) /\ queue[n] = i
    BY <1>1 DEF InFlight
  <2>2. Withdrawn(i) = w
    BY <1>1 DEF Withdrawn
  <2> HIDE DEF n
  <2>3. /\ Len(w) = Len(queue) - 1
        /\ \A k \in 1 .. Len(queue) - 1 :
              w[k] = IF k < n THEN queue[k] ELSE queue[k + 1]
    BY <2>1, RemoveAtProperties
  <2> HIDE DEF w
  <2>4. ASSUME NEW k \in 1 .. Len(w)
        PROVE  \E l \in 1 .. Len(queue) \ {n} :
                 w[k] = queue[l] /\ l = IF k < n THEN k ELSE k + 1
    BY <1>0, <2>1, <2>3
  <2>5. \A k \in 1 .. Len(w) : w[k] \in InFlight /\ w[k] # i
    BY <2>1, <2>4 DEF InFlight
  <2>6. ASSUME NEW k \in 1 .. Len(w), NEW l \in 1 .. Len(w), w[k] = w[l]
        PROVE  k = l
    BY <1>0, <2>1, <2>3, <2>4, <2>6
  <2> QED
    BY <2>2, <2>5, <2>6
<1>2. CASE i \notin InFlight
  BY <1>0, <1>2 DEF Withdrawn, InFlight
<1> QED
  BY <1>1, <1>2

\* Every step keeps Owed: no step frees a slot NVENC still has output for.
LEMMA OwedNext == TypeOK /\ Owed /\ [Next]_vars => Owed'
<1> SUFFICES ASSUME TypeOK, Owed, [Next]_vars PROVE Owed'
  OBVIOUS
<1> USE NullAssumption DEF Release, KeepsMapped
<1>0. /\ queue \in Seq(Slots) /\ Len(queue) \in Nat /\ done \subseteq Slots
      /\ pool \in [Slots -> Frames \cup {NoFrame}]
  BY DEF TypeOK
<1>1. ASSUME pool' = pool, queue' = queue, done' = done, pc # "lock", pc' # "lock"
      PROVE  Owed'
  BY <1>1 DEF Owed, Awaited
<1>2. ASSUME NEW i \in done, pool' = [pool EXCEPT ![i] = NoFrame],
             queue' = queue, done' = done \ {i}, pc # "lock", pc' # "lock"
      PROVE  Owed'
  BY <1>0, <1>2 DEF Owed, Awaited
<1>3. ASSUME NEW i \in Slots, queue' = Withdrawn(i), done' = done \ {i}, pc' # "lock",
             pool' = [pool EXCEPT ![i] = NoFrame], pc = "lock" => i = cursor
      PROVE  Owed'
  <2>1. \A k \in 1 .. Len(queue') : queue'[k] \in InFlight /\ queue'[k] # i
    BY <1>0, <1>3, WithdrawnProperties DEF Owed
  <2>2. \A k, l \in 1 .. Len(queue') : queue'[k] = queue'[l] => k = l
    BY <1>0, <1>3, WithdrawnProperties DEF Owed
  <2> QED
    BY <1>0, <1>3, <2>1, <2>2 DEF Owed, Awaited, InFlight
<1>4. ASSUME NEW i \in Slots, DrainError(i) PROVE Owed'
  BY <1>3, <1>4 DEF DrainError
<1>5. ASSUME NEW i \in FreeSlots, queue' = Append(queue, i), done' = done, pc # "lock",
             \/ pool' = pool /\ pc' = "lock" /\ cursor' = i
             \/ pool' = [pool EXCEPT ![i] = current] /\ current # NoFrame /\ pc' # "lock"
      PROVE  Owed'
  <2>1. i \in Slots /\ pool[i] = NoFrame
    BY DEF FreeSlots
  <2>2. i \notin done /\ \A k \in 1 .. Len(queue) : queue[k] # i
    BY <1>5, <2>1 DEF Owed, Awaited
  <2>3. /\ Len(queue') = Len(queue) + 1
        /\ \A k \in 1 .. Len(queue) : queue'[k] = queue[k]
        /\ queue'[Len(queue) + 1] = i
    BY <1>0, <1>5, <2>1, AppendProperties
  <2>4. i \in InFlight'
    BY <1>0, <2>3 DEF InFlight
  <2>5. CASE pool' = pool /\ pc' = "lock" /\ cursor' = i
    BY <1>0, <1>5, <2>1, <2>2, <2>3, <2>4, <2>5 DEF Owed, Awaited
  <2>6. CASE pool' = [pool EXCEPT ![i] = current] /\ current # NoFrame /\ pc' # "lock"
    BY <1>0, <1>5, <2>1, <2>2, <2>3, <2>6 DEF Owed, Awaited
  <2> QED
    BY <1>5, <2>5, <2>6
<1>6. CASE HwComplete
  <2>1. /\ Len(queue) > 0 /\ Len(queue') = Len(queue) - 1
        /\ \A k \in 1 .. Len(queue) - 1 : queue'[k] = queue[k + 1]
        /\ done' = done \cup {queue[1]}
        /\ pool' = pool /\ pc' = pc /\ cursor' = cursor
    BY <1>0, <1>6, HeadTailProperties, EmptySeq DEF HwComplete, driver
  <2>2. InFlight \cup done = InFlight' \cup done'
    <3>1. ASSUME NEW i \in InFlight PROVE i \in InFlight' \cup done'
      <4>1. PICK k \in 1 .. Len(queue) : queue[k] = i
        BY DEF InFlight
      <4>2. CASE k = 1
        BY <2>1, <4>1, <4>2
      <4>3. CASE k # 1
        <5>1. k - 1 \in 1 .. Len(queue') /\ queue'[k - 1] = i
          BY <1>0, <2>1, <4>1, <4>3
        <5> QED
          BY <5>1 DEF InFlight
      <4> QED
        BY <4>2, <4>3
    <3>2. ASSUME NEW i \in InFlight' PROVE i \in InFlight
      <4>1. PICK k \in 1 .. Len(queue') : queue'[k] = i
        BY DEF InFlight
      <4>2. k + 1 \in 1 .. Len(queue) /\ queue[k + 1] = i
        BY <1>0, <2>1, <4>1
      <4> QED
        BY <4>2 DEF InFlight
    <3>3. queue[1] \in InFlight
      BY <1>0, <2>1 DEF InFlight
    <3> QED
      BY <2>1, <3>1, <3>2, <3>3
  <2> QED
    BY <1>0, <2>1, <2>2 DEF Owed, Awaited
<1>7. ASSUME NEW i \in Slots, DrainReady(i) \/ ProbeReady(i) PROVE Owed'
  BY <1>2, <1>7 DEF DrainReady, ProbeReady
<1>8. CASE Submit
  <2>1. ASSUME NEW i \in Slots, EncodeSuccess(i) \/ EncodeNeedMoreInput(i) PROVE Owed'
    BY <1>5, <2>1 DEF EncodeSuccess, EncodeNeedMoreInput, IsNextFreeSlot, TypeOK
  <2>2. CASE EncodePictureFails
    BY <1>1, <2>2 DEF EncodePictureFails, ReturnError
  <2> QED
    BY <1>8, <2>1, <2>2 DEF Submit
<1>9. CASE DropSession \/ Reconfigure
  BY <1>0, <1>9 DEF DropSession, Reconfigure, driver, Owed, Awaited
<1>10. CASE \/ OpenSession \/ CreateBitstreamBuffer \/ CreateBitstreamBufferFails
            \/ InvalidSurface \/ PoolExhausted \/ MapInputFails
            \/ ReturnBytes \/ ReturnPending
  BY <1>1, <1>10 DEF OpenSession, CreateBitstreamBuffer, CreateBitstreamBufferFails,
       InvalidSurface, PoolExhausted, MapInputFails, ReturnError,
       ReturnBytes, ReturnPending, nvenc
<1>11. ASSUME NEW s \in Surfaces,
              RegisterSurface(s) \/ UnregisterSurface(s) \/ EncodeFrame(s)
       PROVE  Owed'
  BY <1>1, <1>11 DEF RegisterSurface, UnregisterSurface, EncodeFrame, nvenc
<1>12. ASSUME NEW i \in Slots, DrainBusy(i) PROVE Owed'
  BY <1>1, <1>12 DEF DrainBusy, nvenc
<1>13. ASSUME NEW f \in Frames, MapInput(f) PROVE Owed'
  BY <1>1, <1>13 DEF MapInput
<1>14. CASE LockOutput
  <2>1. \A k \in 1 .. Len(queue) : queue[k] # cursor
    BY <1>14 DEF LockOutput, Owed
  <2> QED
    BY <1>0, <1>14, <2>1 DEF LockOutput, Owed, Awaited
<1>15. CASE LockOutputFails
  <2>1. cursor \in Slots /\ pool[cursor] = NoFrame
    BY <1>15 DEF LockOutputFails, TypeOK, Owed
  <2>2. pool' = [pool EXCEPT ![cursor] = NoFrame]
    BY <1>0, <1>15, <2>1 DEF LockOutputFails
  <2> QED
    BY <1>3, <1>15, <2>1, <2>2 DEF LockOutputFails, ReturnError
<1>16. CASE UNCHANGED vars
  BY <1>16 DEF vars, Owed, Awaited, InFlight
<1> QED
  BY <1>4, <1>6, <1>7, <1>8, <1>9, <1>10, <1>11, <1>12, <1>13, <1>14, <1>15, <1>16
     DEF Next, Drain, Admit, Lock, Collect

LEMMA OwedAlways == Spec => []Owed
<1>1. Init => Owed
  BY DEF Init, Owed
<1> QED
  BY <1>1, OwedNext, TypeCorrect, PTL DEF Spec

\* NVENC owes output only into Pending slots, or the one the call waits for,
\* each once: find_free_slot never
\* hands out a bitstream buffer whose coded frame was not read or given up.
THEOREM OwedBuffersStayPending == Spec => []OwedBuffersPending
<1>1. TypeOK /\ Owed => OwedBuffersPending
  BY SeqElements DEF TypeOK, Owed, Awaited, OwedBuffersPending, InFlight, PendingSlots
<1> QED
  BY <1>1, OwedAlways, TypeCorrect, PTL
---------------------------------------------------------------------------
(* Map and unmap.  An input is astray if it is mapped and neither a Pending  *)
(* slot nor the frame being submitted accounts for it: the elements of       *)
(* Unaccounted.  What a session in creation, or a closed one, owns is a      *)
(* matter of its own, Created.                                               *)

Astray(f) == /\ f \in mapped /\ \A i \in Slots : pool[i] # f
             /\ ~(pc \in {"submit", "lock"} /\ current = f)

\* No step but the one of a failing lock leaves an input astray, and that step
\* leaves the call's own.
LEMMA AstrayNext ==
  ASSUME TypeOK, Places, [Next]_vars, NEW f \in Frames, Astray(f)'
  PROVE  Astray(f) \/ (LockOutputFails /\ f = current)
<1> USE NullAssumption DEF Astray
<1>0. pool \in [Slots -> Frames \cup {NoFrame}]
  BY DEF TypeOK
<1>1. ASSUME mapped' = mapped, pool' = pool, pc \notin {"submit", "lock"}
      PROVE  Astray(f)
  BY <1>1
<1>2. ASSUME NEW i \in Slots, Release(i), pc \notin {"submit", "lock"}
      PROVE  Astray(f)
  \* The only frame the slot accounted for is the one it unmaps.
  BY <1>0, <1>2 DEF Release
<1>3. ASSUME NEW i \in Slots, DrainReady(i) \/ DrainError(i) \/ ProbeReady(i) PROVE Astray(f)
  BY <1>2, <1>3 DEF DrainReady, DrainError, ProbeReady
<1>4. ASSUME NEW i \in Slots, EncodeNeedMoreInput(i) PROVE Astray(f)
  \* The frame being submitted is now the slot's; the slot was Free.
  BY <1>0, <1>4 DEF EncodeNeedMoreInput, KeepsMapped, IsNextFreeSlot, FreeSlots
<1>5. CASE EncodePictureFails \/ LockOutput \/ \E i \in Slots : EncodeSuccess(i)
  BY <1>5 DEF EncodePictureFails, LockOutput, EncodeSuccess
<1>6. CASE LockOutputFails
  BY <1>6 DEF LockOutputFails
<1>7. ASSUME NEW g \in Frames, MapInput(g) PROVE Astray(f)
  BY <1>7 DEF MapInput
<1>8. CASE OpenSession
  BY <1>8 DEF OpenSession
<1>9. CASE DropSession
  <2>1. mapped' = mapped \ PendingFrames /\ pc = "idle"
    BY <1>9 DEF DropSession
  <2>2. \A i \in Slots : pool[i] # f
    BY <2>1 DEF PendingFrames, PendingSlots
  <2> QED
    BY <2>1, <2>2
<1>10. CASE HwComplete \/ Reconfigure \/ UNCHANGED vars
  BY <1>10 DEF HwComplete, Reconfigure, driver, vars
<1>11. ASSUME NEW s \in Surfaces,
              RegisterSurface(s) \/ UnregisterSurface(s) \/ EncodeFrame(s)
       PROVE  Astray(f)
  BY <1>1, <1>11 DEF RegisterSurface, UnregisterSurface, EncodeFrame, nvenc
<1>12. CASE \/ CreateBitstreamBuffer \/ CreateBitstreamBufferFails
            \/ InvalidSurface \/ PoolExhausted \/ MapInputFails
            \/ ReturnBytes \/ ReturnPending
  BY <1>1, <1>12 DEF CreateBitstreamBuffer, CreateBitstreamBufferFails, InvalidSurface,
                     PoolExhausted, MapInputFails, ReturnBytes, ReturnPending, nvenc
<1>13. ASSUME NEW i \in Slots, DrainBusy(i) PROVE Astray(f)
  BY <1>1, <1>13 DEF DrainBusy, nvenc
<1> QED
  BY <1>3, <1>4, <1>5, <1>6, <1>7, <1>8, <1>9, <1>10, <1>11, <1>12, <1>13
     DEF Next, Drain, Admit, Submit, Lock, Collect

\* The same of the whole set, as the property says it.
LEMMA UnaccountedNext ==
  ASSUME TypeOK, TypeOK', Places, [Next]_vars
  PROVE  \/ Unaccounted' \subseteq Unaccounted
         \/ LockOutputFails /\ Unaccounted' = Unaccounted \cup {current}
<1>1. Unaccounted = {f \in Frames : Astray(f)} /\ Unaccounted' = {f \in Frames : Astray(f)'}
  <2>1. mapped \subseteq Frames /\ mapped' \subseteq Frames
    BY DEF TypeOK
  <2> QED
    BY <2>1, NullAssumption DEF Unaccounted, OwnInput, PendingFrames, PendingSlots, Astray
<1>2. CASE ~LockOutputFails
  BY <1>1, <1>2, AstrayNext
<1>3. CASE LockOutputFails
  <2>1. pc = "lock" /\ pc' = "idle" /\ mapped' = mapped /\ pool' = pool /\ current \in Frames
    BY <1>3 DEF LockOutputFails, ReturnError, TypeOK
  <2>2. \A f \in Frames : Astray(f) => Astray(f)'
    BY <2>1 DEF Astray
  <2>3. \A f \in Frames : f = current => Astray(f)'
    BY <2>1 DEF Astray, Places
  <2> QED
    BY <1>1, <1>3, <2>1, <2>2, <2>3, AstrayNext
<1> QED
  BY <1>2, <1>3

\* Whatever fails, in NVENC or by way of a reconfigure, one path of encode_frame
\* leaks a mapping, and only the one it made.
THEOREM OneLeak == Spec => OnlyFailedLockLeaks
<1>1. TypeOK /\ TypeOK' /\ Places /\ [Next]_vars =>
        [\/ Unaccounted' \subseteq Unaccounted
         \/ LockOutputFails /\ Unaccounted' = Unaccounted \cup {current}]_vars
  BY UnaccountedNext
<1> QED
  BY <1>1, TypeCorrect, PlacesAlways, PTL DEF Spec, OnlyFailedLockLeaks

\* What exists of a session before it is open and after it was dropped.
Created ==
    /\ pc = "creating" => buffers = CreatedSoFar /\ registered = {}
    /\ pc = "closed" => buffers = {} /\ registered = {}

\* Every step keeps Created, above all each step of the roll-back in `new`.
LEMMA CreatedNext == TypeOK /\ Created /\ [Next]_vars => Created'
<1> SUFFICES ASSUME TypeOK, Created, [Next]_vars PROVE Created'
  OBVIOUS
<1>1. ASSUME pc' \in {"idle", "drain", "submit", "lock", "collect"} PROVE Created'
  BY <1>1 DEF Created
<1>2. CASE OpenSession
  BY <1>2 DEF OpenSession, CreatedSoFar, Created
<1>3. CASE CreateBitstreamBuffer
  <2>1. cursor \in Slots /\ 0 .. cursor = (0 .. cursor - 1) \cup {cursor}
    BY <1>3 DEF CreateBitstreamBuffer, TypeOK, Slots
  <2>2. pc' = "idle" \/ (pc' = "creating" /\ cursor' - 1 = cursor)
    BY <1>3, <2>1, PoolSizeAssumption DEF CreateBitstreamBuffer, Slots
  <2>3. /\ buffers' = (0 .. cursor - 1) \cup {cursor}
        /\ registered = {} /\ registered' = registered
    BY <1>3 DEF CreateBitstreamBuffer, CreatedSoFar, Created
  <2> QED
    BY <2>1, <2>2, <2>3 DEF CreatedSoFar, Created
<1>4. CASE CreateBitstreamBufferFails
  BY <1>4 DEF CreateBitstreamBufferFails, Created
<1>5. CASE DropSession
  BY <1>5 DEF DropSession, Created
<1>6. CASE HwComplete \/ Reconfigure \/ UNCHANGED vars
  BY <1>6 DEF HwComplete, Reconfigure, driver, vars, CreatedSoFar, Created
<1>7. ASSUME NEW s \in Surfaces,
             RegisterSurface(s) \/ UnregisterSurface(s) \/ EncodeFrame(s)
      PROVE  Created'
  BY <1>1, <1>7 DEF RegisterSurface, UnregisterSurface, EncodeFrame
<1>8. CASE Drain
  BY <1>1, <1>8 DEF Drain, DrainReady, DrainBusy, DrainError
<1>9. CASE Admit
  BY <1>1, <1>9 DEF Admit, InvalidSurface, PoolExhausted, MapInputFails, ReturnError, MapInput
<1>10. CASE Submit \/ Lock
  BY <1>1, <1>10 DEF Submit, EncodeSuccess, EncodeNeedMoreInput, EncodePictureFails,
                     Lock, LockOutput, LockOutputFails, ReturnError
<1>11. CASE Collect
  BY <1>1, <1>11 DEF Collect, ProbeReady, ReturnBytes, ReturnPending
<1> QED
  BY <1>2, <1>3, <1>4, <1>5, <1>6, <1>7, <1>8, <1>9, <1>10, <1>11 DEF Next

LEMMA CreatedAlways == Spec => []Created
<1>1. Init => Created
  BY DEF Init, Created
<1> QED
  BY <1>1, CreatedNext, TypeCorrect, PTL DEF Spec

\* A session that failed to open at any buffer, or was dropped, leaves no
\* bitstream buffer and no registration behind, whatever failed before; of the
\* mappings it leaves those that OneLeak speaks of and no other.
THEOREM TeardownFreesTheRest ==
  Spec => [](pc = "closed" => buffers = {} /\ registered = {} /\ mapped = Unaccounted)
<1>1. TypeOK /\ Places /\ Created =>
        (pc = "closed" => buffers = {} /\ registered = {} /\ mapped = Unaccounted)
  BY NullAssumption DEF Created, Places, Unaccounted, OwnInput, PendingFrames, PendingSlots
<1> QED
  BY <1>1, CreatedAlways, TypeCorrect, PlacesAlways, PTL

\* On hardware whose locks do not fail nothing is ever unaccounted for.
LEMMA NothingUnaccounted ==
  ASSUME ~LockMayFail
  PROVE  Spec => [](Unaccounted = {})
<1>1. Init => Unaccounted = {}
  BY DEF Init, Unaccounted
<1>2. TypeOK /\ TypeOK' /\ Places /\ Unaccounted = {} /\ [Next]_vars => (Unaccounted = {})'
  <2>1. ~LockOutputFails
    BY DEF LockOutputFails
  <2> QED
    BY <2>1, UnaccountedNext
<1> QED
  BY <1>1, <1>2, TypeCorrect, PlacesAlways, PTL DEF Spec

\* If no lock fails, map and unmap are balanced on every other path of
\* encode_frame: what is mapped is a Pending slot's or the call's own input.
THEOREM MapsAreBalanced ==
  ASSUME ~LockMayFail
  PROVE  Spec => []InputsBalanced
<1>1. TypeOK /\ Places /\ Unaccounted = {} => InputsBalanced
  BY DEF Unaccounted, OwnInput, Places, PendingFrames, PendingSlots, InputsBalanced
<1> QED
  BY <1>1, NothingUnaccounted, TypeCorrect, PlacesAlways, PTL

\* If no lock fails, a session that failed to open at any buffer, or was
\* dropped, leaves no buffer, mapping or registration behind.
THEOREM TeardownIsClean ==
  ASSUME ~LockMayFail
  PROVE  Spec => []CleanTeardown
<1>1. (pc = "closed" => buffers = {} /\ registered = {} /\ mapped = Unaccounted)
        /\ Unaccounted = {} => CleanTeardown
  BY DEF CleanTeardown
<1> QED
  BY <1>1, TeardownFreesTheRest, NothingUnaccounted, PTL
---------------------------------------------------------------------------
(* encode_frame is bounded, and waits in one place only.                     *)

\* Each step of a call leaves less to do, and no step of NVENC or of a client
\* leaves more than PoolSize + 5 steps.
LEMMA StepsLeftNext ==
  ASSUME TypeOK, TypeOK', [Next]_vars
  PROVE  /\ StepsLeft' <= PoolSize + 5
         /\ InCall => StepsLeft' < StepsLeft \/ UNCHANGED driver
<1> USE PoolSizeAssumption DEF InCall, StepsLeft
<1>0. /\ cursor \in 0 .. PoolSize /\ cursor' \in 0 .. PoolSize
      /\ pending_outputs \in Seq(Frames) /\ pc' \in Phases
  BY DEF TypeOK
<1>1. StepsLeft' <= PoolSize + 5
  BY <1>0 DEF Phases
<1>2. ASSUME NEW i \in Slots, DrainReady(i) \/ DrainBusy(i) \/ DrainError(i)
      PROVE  StepsLeft' < StepsLeft
  BY <1>0, <1>2 DEF DrainReady, DrainBusy, DrainError, IsNextDrained, Slots
<1>3. ASSUME pc' = "idle", InCall PROVE StepsLeft' < StepsLeft
  BY <1>0, <1>3
<1>4. ASSUME NEW f \in Frames, MapInput(f) PROVE StepsLeft' < StepsLeft
  BY <1>0, <1>4 DEF MapInput
<1>5. CASE LockOutput \/ \E i \in Slots : EncodeSuccess(i) \/ EncodeNeedMoreInput(i)
  BY <1>0, <1>5 DEF LockOutput, EncodeSuccess, EncodeNeedMoreInput
<1>6. ASSUME NEW i \in Slots, ProbeReady(i) PROVE StepsLeft' < StepsLeft
  BY <1>6 DEF ProbeReady
<1>7. CASE \/ InvalidSurface \/ PoolExhausted \/ MapInputFails
           \/ LockOutputFails \/ EncodePictureFails \/ ReturnBytes \/ ReturnPending
  BY <1>3, <1>7 DEF InvalidSurface, PoolExhausted, MapInputFails, ReturnError,
                    LockOutputFails, EncodePictureFails, ReturnBytes, ReturnPending
<1>8. ASSUME HwComplete \/ Reconfigure \/ UNCHANGED vars PROVE UNCHANGED driver
  BY <1>8 DEF HwComplete, Reconfigure, vars, driver
<1>9. CASE \/ OpenSession \/ CreateBitstreamBuffer \/ CreateBitstreamBufferFails \/ DropSession
           \/ \E s \in Surfaces : RegisterSurface(s) \/ UnregisterSurface(s) \/ EncodeFrame(s)
  BY <1>1, <1>9 DEF OpenSession, CreateBitstreamBuffer, CreateBitstreamBufferFails, DropSession,
              RegisterSurface, UnregisterSurface, EncodeFrame
<1> QED
  BY <1>1, <1>2, <1>4, <1>5, <1>6, <1>7, <1>8, <1>9 DEF Next, Drain, Admit, Submit, Lock, Collect

\* A call of encode_frame takes at most PoolSize + 5 steps, whatever NVENC does
\* between them.
THEOREM CallsAreBounded == Spec => CallBounded
<1>1. TypeOK /\ TypeOK' /\ [Next]_vars =>
        [/\ StepsLeft' <= PoolSize + 5
         /\ InCall => StepsLeft' < StepsLeft \/ UNCHANGED driver]_vars
  BY StepsLeftNext
<1> QED
  BY <1>1, TypeCorrect, PTL DEF Spec, CallBounded

\* Every set of numbers that is not empty has a least one.
Less == {pair \in Nat \X Nat : pair[1] < pair[2]}

LEMMA LessIsWellFounded == IsWellFoundedOn(Less, Nat)
  BY NatLessThanWellFounded, Zenon DEF OpToRel, Less

LEMMA LeastExists ==
  ASSUME NEW T, T \subseteq Nat, T # {}
  PROVE  \E x \in T : \A y \in T : x <= y
<1>1. \A x, y \in Nat : x < y => <<x, y>> \in Less
  BY DEF Less
<1>2. \E x \in T : \A y \in T : ~ (<<y, x>> \in Less)
  BY LessIsWellFounded, WFMin, Zenon
<1>3. PICK x \in T : \A y \in T : ~ (<<y, x>> \in Less)
  BY <1>2
<1>4. \A y \in T : x \in Nat /\ y \in Nat /\ ~ (y < x)
  BY <1>1, <1>3
<1> QED
  BY <1>4

\* find_free_slot finds a slot whenever one is Free, wherever next_slot points.
LEMMA FreeSlotFound ==
  ASSUME TypeOK, FreeSlots # {}
  PROVE  \E i \in Slots : IsNextFreeSlot(i)
<1> DEFINE distances == {Ahead(j) : j \in FreeSlots}
<1>1. \A j \in Slots : Ahead(j) \in Nat
  BY PoolSizeAssumption DEF TypeOK, Ahead, Slots
<1>2. distances \subseteq Nat /\ distances # {}
  BY <1>1 DEF FreeSlots
<1>3. PICK d \in distances : \A e \in distances : d <= e
  BY <1>2, LeastExists
<1>4. PICK i \in FreeSlots : d = Ahead(i)
  BY <1>3
<1>5. \A j \in FreeSlots : Ahead(i) <= Ahead(j)
  BY <1>3, <1>4
<1> QED
  BY <1>4, <1>5 DEF IsNextFreeSlot, FreeSlots

\* What a call in progress can do next, whatever NVENC has completed by now: the
\* drain visits a slot or has none left, the submission has a Free slot, the
\* collection has a frame to return, a finished slot to probe, or "pending" to
\* answer.  Only in the lock after SUCCESS it may have to wait, and then for a
\* frame that NVENC has queued: no earlier frame, orphaned or deferred, and no
\* frame NVENC owes nothing for.
CanMove ==
    /\ pc = "drain" => DrainDone \/ \E i \in Slots : IsNextDrained(i)
    /\ pc = "submit" => \E i \in Slots : IsNextFreeSlot(i)
    /\ pc = "lock" => /\ cursor \in done \/ cursor \in InFlight
                      /\ cursor \notin PendingSlots
    /\ pc = "collect" => \/ pending_outputs # <<>> \/ NothingReady
                         \/ \E i \in done : IsProbedSlot(i)

\* The slot that encode_frame found Free before it mapped the input is Free
\* when it submits.
SubmitsToFree == pc = "submit" => FreeSlots # {}

LEMMA SubmitsToFreeNext == SubmitsToFree /\ [Next]_vars => SubmitsToFree'
<1> SUFFICES ASSUME SubmitsToFree, [Next]_vars PROVE SubmitsToFree'
  OBVIOUS
<1> USE DEF SubmitsToFree
<1>1. ASSUME pc' # "submit" PROVE SubmitsToFree'
  BY <1>1
<1>2. ASSUME NEW f \in Frames, MapInput(f) PROVE SubmitsToFree'
  BY <1>2 DEF MapInput, FreeSlots
<1>3. CASE HwComplete \/ Reconfigure \/ UNCHANGED vars
  BY <1>3 DEF HwComplete, Reconfigure, driver, vars, FreeSlots
<1>4. CASE OpenSession \/ CreateBitstreamBuffer \/ CreateBitstreamBufferFails \/ DropSession
  BY <1>1, <1>4 DEF OpenSession, CreateBitstreamBuffer, CreateBitstreamBufferFails, DropSession
<1>5. ASSUME NEW s \in Surfaces,
             RegisterSurface(s) \/ UnregisterSurface(s) \/ EncodeFrame(s)
      PROVE  SubmitsToFree'
  BY <1>1, <1>5 DEF RegisterSurface, UnregisterSurface, EncodeFrame
<1>6. CASE Drain
  BY <1>1, <1>6 DEF Drain, DrainReady, DrainBusy, DrainError
<1>7. CASE InvalidSurface \/ PoolExhausted \/ MapInputFails
  BY <1>1, <1>7 DEF InvalidSurface, PoolExhausted, MapInputFails, ReturnError
<1>8. CASE Submit \/ Lock
  BY <1>1, <1>8 DEF Submit, EncodeSuccess, EncodeNeedMoreInput, EncodePictureFails,
                    Lock, LockOutput, LockOutputFails, ReturnError
<1>9. CASE Collect
  BY <1>1, <1>9 DEF Collect, ProbeReady, ReturnBytes, ReturnPending
<1> QED
  BY <1>2, <1>3, <1>4, <1>5, <1>6, <1>7, <1>8, <1>9 DEF Next, Admit

\* With CallsAreBounded: a call takes only so many steps, and it always has one
\* to take, of its own and not NVENC's, but in the lock after SUCCESS, which
\* blocks until NVENC completes the frame it took in this call.
THEOREM CallsNeverStuck == Spec => []CanMove
<1>1. Init => SubmitsToFree
  BY DEF Init, SubmitsToFree
<1>2. TypeOK /\ SubmitsToFree /\ Owed => CanMove
  <2> SUFFICES ASSUME TypeOK, SubmitsToFree, Owed PROVE CanMove
    OBVIOUS
  <2>1. CASE pc = "drain"
    <3> DEFINE rest == {i \in PendingSlots : cursor <= i}
    <3>1. rest \subseteq Nat /\ PendingSlots \subseteq Slots /\ cursor \in Nat /\ Slots \subseteq Nat
      BY PoolSizeAssumption DEF TypeOK, PendingSlots, Slots
    <3>2. CASE rest = {}
      BY <2>1, <3>1, <3>2 DEF CanMove, DrainDone
    <3>3. CASE rest # {}
      <4>1. PICK i \in rest : \A j \in rest : i <= j
        BY <3>1, <3>3, LeastExists
      <4>2. IsNextDrained(i) /\ i \in Slots
        BY <3>1, <4>1 DEF IsNextDrained
      <4> QED
        BY <2>1, <4>2 DEF CanMove
    <3> QED
      BY <3>2, <3>3
  <2>2. CASE pc = "submit"
    BY <2>2, FreeSlotFound DEF CanMove, SubmitsToFree
  <2>3. CASE pc = "collect"
    BY <2>3 DEF CanMove, NothingReady
  <2>4. CASE pc = "lock"
    BY <2>4 DEF CanMove, Owed, PendingSlots
  <2> QED
    BY <2>1, <2>2, <2>3, <2>4 DEF CanMove
<1> QED
  BY <1>1, <1>2, SubmitsToFreeNext, OwedAlways, TypeCorrect, PTL DEF Spec
=============================================================================
