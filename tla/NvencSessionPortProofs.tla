----------------------- MODULE NvencSessionPortProofs -----------------------
(***************************************************************************)
(* NvencSession implements EncoderPort and SessionCalls: every step of     *)
(* encode_frame, of the hardware and of the session is a step of the       *)
(* abstract one or leaves it alone.                                        *)
(*                                                                         *)
(* The port accepts and defers frames only while it holds at most Capacity *)
(* of them, so the proof counts the held frames; and it defers only a      *)
(* frame it holds, so the frame of a call must not get lost on the way.    *)
(* SessionCalls has whole calls: what a call did to its own frame counts   *)
(* when it answers, and the surface of that frame is registered until then.*)
(***************************************************************************)
EXTENDS NvencSessionProofs

\* The frame a call had accepted is held until the call answers.
CurrentHeld == pc = "collect" => current \in Held

\* The indices of a sequence of length n are n in number.
LEMMA CountTo ==
  ASSUME NEW n \in Nat
  PROVE  IsFiniteSet(1 .. n) /\ Cardinality(1 .. n) = n
<1>1. 1 \in Int /\ n \in Int
  OBVIOUS
<1>2. /\ IsFiniteSet(1 .. n)
      /\ Cardinality(1 .. n) = IF 1 > n THEN 0 ELSE n - 1 + 1
  BY <1>1, FS_Interval, Zenon
<1> QED
  BY <1>2

\* Pending slots hold no more frames than there are such slots, and the FIFO
\* no more than its length.
LEMMA HeldCount ==
  ASSUME TypeOK
  PROVE  /\ IsFiniteSet(Held)
         /\ Cardinality(Held) \in Nat
         /\ Cardinality(Held) <= Cardinality(PendingSlots) + Len(pending_outputs)
<1> DEFINE slotFrame == [i \in PendingSlots |-> pool[i]]
           entry == [k \in 1 .. Len(pending_outputs) |-> pending_outputs[k]]
<1>0. Len(pending_outputs) \in Nat
  BY DEF TypeOK
<1>1. IsFiniteSet(PendingFrames) /\ Cardinality(PendingFrames) <= Cardinality(PendingSlots)
  <2>1. slotFrame \in Surjection(PendingSlots, PendingFrames)
    BY DEF PendingFrames, Surjection
  <2> HIDE DEF slotFrame
  <2> QED
    BY <2>1, PendingSlotsCount, FS_Surjection
<1>2. IsFiniteSet(QueuedOutputs) /\ Cardinality(QueuedOutputs) <= Len(pending_outputs)
  <2>1. entry \in Surjection(1 .. Len(pending_outputs), QueuedOutputs)
    BY DEF QueuedOutputs, Surjection
  <2>2. /\ IsFiniteSet(1 .. Len(pending_outputs))
        /\ Cardinality(1 .. Len(pending_outputs)) = Len(pending_outputs)
    BY <1>0, CountTo
  <2> HIDE DEF entry
  <2> QED
    BY <2>1, <2>2, FS_Surjection
<1>3. /\ Cardinality(PendingFrames) \in Nat /\ Cardinality(QueuedOutputs) \in Nat
      /\ Cardinality(PendingFrames \cap QueuedOutputs) \in Nat
  BY <1>1, <1>2, FS_CardinalityType, FS_Intersection
<1>4. /\ IsFiniteSet(Held)
      /\ Cardinality(Held) = Cardinality(PendingFrames) + Cardinality(QueuedOutputs)
                               - Cardinality(PendingFrames \cap QueuedOutputs)
  BY <1>1, <1>2, FS_Union DEF Held
<1>5. Cardinality(Held) \in Nat
  BY <1>4, FS_CardinalityType
<1> QED
  BY <1>0, <1>1, <1>2, <1>3, <1>4, <1>5, PendingSlotsCount

\* What is held after a step that touches neither the pool nor the FIFO.
LEMMA HeldUnchanged ==
  ASSUME pool' = pool, pending_outputs' = pending_outputs
  PROVE  Held' = Held
BY DEF Held, PendingFrames, PendingSlots, QueuedOutputs

\* The frame of a slot moves to the end of the FIFO: it is held as before.
LEMMA HeldMoves ==
  ASSUME TypeOK, NEW i \in PendingSlots, pool' = [pool EXCEPT ![i] = NoFrame],
         pending_outputs' = Append(pending_outputs, pool[i])
  PROVE  Held' = Held
<1>1. pending_outputs \in Seq(Frames) /\ pool \in [Slots -> Frames \cup {NoFrame}]
  BY DEF TypeOK
<1>2. pool[i] \in Frames /\ i \in Slots
  BY <1>1 DEF PendingSlots
<1>3. /\ Len(pending_outputs) \in Nat
      /\ Len(pending_outputs') = Len(pending_outputs) + 1
      /\ \A k \in 1 .. Len(pending_outputs) : pending_outputs'[k] = pending_outputs[k]
      /\ pending_outputs'[Len(pending_outputs) + 1] = pool[i]
  BY <1>1, <1>2, AppendProperties
<1>4. QueuedOutputs' = QueuedOutputs \cup {pool[i]}
  BY <1>3 DEF QueuedOutputs
<1>5. PendingFrames' \cup {pool[i]} = PendingFrames
  BY <1>1, <1>2, NullAssumption DEF PendingFrames, PendingSlots
<1> QED
  BY <1>4, <1>5 DEF Held

\* A slot is freed and its frame goes nowhere: that frame alone is lost.
LEMMA HeldLoses ==
  ASSUME TypeOK, Places, NEW i \in PendingSlots,
         pool' = [pool EXCEPT ![i] = NoFrame], pending_outputs' = pending_outputs
  PROVE  pool[i] \in Held /\ Held' = Held \ {pool[i]}
<1>1. pool \in [Slots -> Frames \cup {NoFrame}] /\ i \in Slots /\ pool[i] # NoFrame
  BY DEF TypeOK, PendingSlots
<1>2. PendingFrames' = PendingFrames \ {pool[i]} /\ pool[i] \in PendingFrames
  BY <1>1 DEF Places, PendingFrames, PendingSlots
<1>3. QueuedOutputs' = QueuedOutputs /\ pool[i] \notin QueuedOutputs
  BY <1>1 DEF Places, QueuedOutputs
<1> QED
  BY <1>2, <1>3 DEF Held

\* A slot is filled with a frame, or a frame is appended: it is held as well.
LEMMA HeldGains ==
  ASSUME TypeOK, NEW f \in Frames,
         \/ /\ \E i \in FreeSlots : pool' = [pool EXCEPT ![i] = f]
            /\ pending_outputs' = pending_outputs
         \/ pool' = pool /\ pending_outputs' = Append(pending_outputs, f)
  PROVE  Held' = Held \cup {f}
<1>1. pending_outputs \in Seq(Frames) /\ pool \in [Slots -> Frames \cup {NoFrame}]
  BY DEF TypeOK
<1>2. ASSUME NEW i \in FreeSlots, pool' = [pool EXCEPT ![i] = f],
             pending_outputs' = pending_outputs
      PROVE  Held' = Held \cup {f}
  <2>1. i \in Slots /\ pool[i] = NoFrame /\ f # NoFrame
    BY <1>2, NullAssumption DEF FreeSlots
  <2>2. PendingFrames' = PendingFrames \cup {f}
    BY <1>1, <1>2, <2>1 DEF PendingFrames, PendingSlots
  <2> QED
    BY <1>2, <2>2 DEF Held, QueuedOutputs
<1>3. ASSUME pool' = pool, pending_outputs' = Append(pending_outputs, f)
      PROVE  Held' = Held \cup {f}
  <2>1. /\ Len(pending_outputs) \in Nat
        /\ Len(pending_outputs') = Len(pending_outputs) + 1
        /\ \A k \in 1 .. Len(pending_outputs) : pending_outputs'[k] = pending_outputs[k]
        /\ pending_outputs'[Len(pending_outputs) + 1] = f
    BY <1>1, <1>3, AppendProperties
  <2>2. QueuedOutputs' = QueuedOutputs \cup {f}
    BY <2>1 DEF QueuedOutputs
  <2> QED
    BY <1>3, <2>2 DEF Held, PendingFrames, PendingSlots
<1> QED
  BY <1>2, <1>3

\* The head of the FIFO is popped: it alone is no longer held.
LEMMA HeldPops ==
  ASSUME TypeOK, Places, pending_outputs # <<>>, pool' = pool,
         pending_outputs' = Tail(pending_outputs)
  PROVE  /\ Head(pending_outputs) \in Held
         /\ Held' = Held \ {Head(pending_outputs)}
<1>1. pending_outputs \in Seq(Frames) /\ Len(pending_outputs) \in Nat
  BY DEF TypeOK
<1>2. /\ Len(pending_outputs) > 0 /\ Head(pending_outputs) = pending_outputs[1]
      /\ Len(pending_outputs') = Len(pending_outputs) - 1
      /\ \A k \in 1 .. Len(pending_outputs) - 1 :
            pending_outputs'[k] = pending_outputs[k + 1]
  BY <1>1, HeadTailProperties, EmptySeq
<1>3. \A k \in 1 .. Len(pending_outputs) :
         pending_outputs[k] = pending_outputs[1] => k = 1
  BY <1>1, <1>2 DEF Places
<1>4. QueuedOutputs' = QueuedOutputs \ {pending_outputs[1]}
      /\ pending_outputs[1] \in QueuedOutputs
  <2>1. ASSUME NEW f \in QueuedOutputs, f # pending_outputs[1]
        PROVE  f \in QueuedOutputs'
    <3>1. PICK k \in 1 .. Len(pending_outputs) : f = pending_outputs[k]
      BY <2>1 DEF QueuedOutputs
    <3>2. k - 1 \in 1 .. Len(pending_outputs') /\ pending_outputs'[k - 1] = f
      BY <1>1, <1>2, <2>1, <3>1
    <3> QED
      BY <3>2 DEF QueuedOutputs
  <2>2. ASSUME NEW f \in QueuedOutputs'
        PROVE  f \in QueuedOutputs /\ f # pending_outputs[1]
    <3>1. PICK k \in 1 .. Len(pending_outputs') : f = pending_outputs'[k]
      BY <2>2 DEF QueuedOutputs
    <3>2. k + 1 \in 1 .. Len(pending_outputs) /\ pending_outputs[k + 1] = f /\ k + 1 # 1
      BY <1>1, <1>2, <3>1
    <3> QED
      BY <1>3, <3>2 DEF QueuedOutputs
  <2>3. pending_outputs[1] \in QueuedOutputs
    BY <1>1, <1>2 DEF QueuedOutputs
  <2> HIDE DEF QueuedOutputs
  <2> QED
    BY <2>1, <2>2, <2>3
<1>5. PendingFrames' = PendingFrames /\ pending_outputs[1] \notin PendingFrames
  BY <1>1, <1>2 DEF Places, PendingFrames, PendingSlots
<1> QED
  BY <1>2, <1>4, <1>5 DEF Held
---------------------------------------------------------------------------
\* A session not yet opened is a port that was never called.
LEMMA PortInit == Init => Port!Init
<1>1. Init => Held = {}
  BY DEF Init, Held, PendingFrames, PendingSlots, QueuedOutputs
<1> QED
  BY <1>1 DEF Init, Answer, InCall, Port!Init

\* EncoderPort counts with the Cardinality of this module.
LEMMA PortCardinality == Port!Cardinality(Held) = Cardinality(Held)
BY DEF Port!Cardinality, Cardinality

PortStep == [Port!Next]_(Port!vars)

\* Every step of the session is a step of the port, or none.
LEMMA PortNext ==
  TypeOK /\ Places /\ BacklogBounded /\ CurrentHeld /\ [Next]_vars
    => PortStep /\ CurrentHeld'
<1> SUFFICES ASSUME TypeOK, Places, BacklogBounded, CurrentHeld, [Next]_vars
             PROVE  PortStep /\ CurrentHeld'
  OBVIOUS
<1> USE DEF Release, KeepsMapped, PopFront, CurrentHeld, InCall
<1>0. pending_outputs \in Seq(Frames) /\ Len(pending_outputs) \in Nat
  BY DEF TypeOK
<1>1. pc # "collect" => Cardinality(Held) <= PoolSize
  BY <1>0, HeldCount, PendingSlotsCount, PoolSizeAssumption DEF BacklogBounded
<1>2. ASSUME Held' = Held, ret' = ret, pc' # "collect", pc # "collect",
             InCall' <=> InCall
      PROVE  PortStep /\ CurrentHeld'
  BY <1>2 DEF PortStep, Port!vars
<1>3. ASSUME ReturnError, InCall, pc # "collect", pool' = pool,
             pending_outputs' = pending_outputs
      PROVE  PortStep /\ CurrentHeld'
  <2>1. Port!Refuse
    BY <1>3, HeldUnchanged DEF ReturnError, Answer, Port!Refuse, Port!Answer
  <2> QED
    BY <1>3, <2>1 DEF ReturnError, PortStep, Port!Next
<1>4. CASE OpenSession \/ CreateBitstreamBuffer \/ CreateBitstreamBufferFails
  <2>1. Held' = Held
    BY <1>4, HeldUnchanged DEF OpenSession, CreateBitstreamBuffer, CreateBitstreamBufferFails
  <2> QED
    BY <1>2, <1>4, <2>1 DEF OpenSession, CreateBitstreamBuffer, CreateBitstreamBufferFails
<1>5. ASSUME NEW s \in Surfaces, RegisterSurface(s) \/ UnregisterSurface(s)
      PROVE  PortStep /\ CurrentHeld'
  <2>1. Held' = Held
    BY <1>5, HeldUnchanged DEF RegisterSurface, UnregisterSurface
  <2> QED
    BY <1>2, <1>5, <2>1 DEF RegisterSurface, UnregisterSurface
<1>6. ASSUME NEW s \in Surfaces, EncodeFrame(s)
      PROVE  PortStep /\ CurrentHeld'
  <2>1. Port!Call
    BY <1>6, HeldUnchanged DEF EncodeFrame, Answer, Port!Call
  <2> QED
    BY <1>6, <2>1 DEF EncodeFrame, PortStep, Port!Next
<1>7. ASSUME NEW i \in Slots, DrainReady(i)
      PROVE  PortStep /\ CurrentHeld'
  <2>1. Held' = Held
    BY <1>7, HeldMoves DEF DrainReady, IsNextDrained
  <2> QED
    BY <1>2, <1>7, <2>1 DEF DrainReady
<1>8. ASSUME NEW i \in Slots, DrainBusy(i)
      PROVE  PortStep /\ CurrentHeld'
  <2>1. Held' = Held
    BY <1>8, HeldUnchanged DEF DrainBusy
  <2> QED
    BY <1>2, <1>8, <2>1 DEF DrainBusy
<1>9. ASSUME NEW i \in Slots, DrainError(i)
      PROVE  PortStep /\ CurrentHeld'
  <2>1. pool[i] \in Frames /\ pool[i] \in Held /\ Held' = Held \ {pool[i]}
    BY <1>9, HeldLoses DEF DrainError, IsNextDrained, PendingSlots, TypeOK
  <2>2. Port!Lose(pool[i])
    BY <1>9, <2>1 DEF DrainError, Port!Lose
  <2> QED
    BY <1>9, <2>1, <2>2 DEF DrainError, PortStep, Port!Next
<1>10. CASE InvalidSurface \/ PoolExhausted \/ MapInputFails
             \/ LockOutputFails \/ EncodePictureFails
  BY <1>3, <1>10 DEF InvalidSurface, PoolExhausted, MapInputFails,
                     LockOutputFails, EncodePictureFails
<1>11. ASSUME NEW f \in Frames, MapInput(f)
       PROVE  PortStep /\ CurrentHeld'
  <2>1. Held' = Held
    BY <1>11, HeldUnchanged DEF MapInput
  <2> QED
    BY <1>2, <1>11, <2>1 DEF MapInput
<1>12. ASSUME pc \in {"submit", "lock"}, pc' = "collect", current' = current, ret' = ret,
              Held' = Held \cup {current}
       PROVE  PortStep /\ CurrentHeld'
  <2>1. current \in Frames /\ current \notin Held
    BY <1>12 DEF TypeOK, Places, Held, PendingFrames, PendingSlots, QueuedOutputs
  <2>2. Port!Accept(current)
    BY <1>1, <1>12, <2>1, PortCardinality DEF Port!Accept
  <2> QED
    BY <1>12, <2>1, <2>2 DEF PortStep, Port!Next
<1>13. CASE LockOutput
  <2>1. current \in Frames
    BY <1>13 DEF LockOutput, TypeOK
  <2>2. Held' = Held \cup {current}
    BY <1>13, <2>1, HeldGains DEF LockOutput
  <2> QED
    BY <1>12, <1>13, <2>2 DEF LockOutput
<1>20. ASSUME NEW i \in Slots, EncodeSuccess(i)
       PROVE  PortStep /\ CurrentHeld'
  <2>1. Held' = Held
    BY <1>20, HeldUnchanged DEF EncodeSuccess
  <2> QED
    BY <1>2, <1>20, <2>1 DEF EncodeSuccess
<1>14. ASSUME NEW i \in Slots, EncodeNeedMoreInput(i)
       PROVE  PortStep /\ CurrentHeld'
  <2>1. current \in Frames
    BY <1>14 DEF EncodeNeedMoreInput, TypeOK
  <2>2. Held' = Held \cup {current}
    BY <1>14, <2>1, HeldGains DEF EncodeNeedMoreInput, IsNextFreeSlot
  <2> QED
    BY <1>12, <1>14, <2>2 DEF EncodeNeedMoreInput
<1>15. ASSUME NEW i \in Slots, ProbeReady(i)
       PROVE  PortStep /\ CurrentHeld'
  <2>1. pool[i] \in Frames /\ i \in PendingSlots
    BY <1>15 DEF ProbeReady, IsProbedSlot, PendingSlots, TypeOK
  <2>2. pending_outputs' = Append(pending_outputs, pool[i])
    BY <1>15, <2>1 DEF ProbeReady
  <2>3. Held' = Held
    BY <1>15, <2>1, <2>2, HeldMoves DEF ProbeReady
  <2> QED
    BY <1>15, <2>3 DEF ProbeReady, PortStep, Port!vars
<1>16. CASE ReturnBytes
  <2>1. /\ Head(pending_outputs) \in Held
        /\ Held' = Held \ {Head(pending_outputs)}
    BY <1>16, HeldPops DEF ReturnBytes
  <2>2. Head(pending_outputs) \in Frames /\ current \in Frames /\ current # NoFrame
    BY <1>0, <1>16, HeadTailProperties, NullAssumption DEF ReturnBytes, TypeOK
  <2>3. Port!Deliver(Head(pending_outputs))
    BY <1>16, <2>1, <2>2 DEF ReturnBytes, BytesOf, Port!Deliver, Port!Answer
  <2> QED
    BY <1>16, <2>2, <2>3 DEF ReturnBytes, PortStep, Port!Next
<1>17. CASE ReturnPending
  <2>1. Cardinality(Held) <= PoolSize
    <3>1. Len(pending_outputs) = 0
      BY <1>17 DEF ReturnPending
    <3> QED
      BY <3>1, HeldCount, PendingSlotsCount, PoolSizeAssumption
  <2>2. Held' = Held
    BY <1>17, HeldUnchanged DEF ReturnPending
  <2>3. Port!Defer
    BY <1>17, <2>1, <2>2, PortCardinality DEF ReturnPending, Answer, Port!Defer, Port!Answer
  <2> QED
    BY <1>17, <2>3 DEF ReturnPending, PortStep, Port!Next
<1>18. CASE HwComplete \/ Reconfigure \/ UNCHANGED vars
  <2>1. pc' = pc /\ current' = current /\ ret' = ret /\ Held' = Held
    BY <1>18, HeldUnchanged DEF HwComplete, Reconfigure, driver, vars
  <2> QED
    BY <2>1 DEF PortStep, Port!vars
<1>19. CASE DropSession
  <2>1. Held' = {}
    BY <1>19 DEF DropSession, Held, PendingFrames, PendingSlots, QueuedOutputs
  <2>2. Port!Reset
    BY <1>19, <2>1 DEF DropSession, Answer, Port!Reset
  <2> QED
    BY <1>19, <2>2 DEF DropSession, PortStep, Port!Next
<1> QED
  BY <1>4, <1>5, <1>6, <1>7, <1>8, <1>9, <1>10, <1>11, <1>13, <1>14, <1>15, <1>16,
     <1>17, <1>18, <1>19, <1>20 DEF Next, Drain, Admit, Submit, Lock, Collect

\* encode_frame keeps the promise of EncoderPort: it never returns a frame
\* twice nor one it did not accept, loses none in the call that accepted it,
\* and answers "pending" only while it holds no more than the pool has slots.
THEOREM SessionImplementsPort == Spec => ImplementsPort
<1>1. Init => CurrentHeld
  BY DEF Init, CurrentHeld
<1>2. Spec => []CurrentHeld
  BY <1>1, PortNext, TypeCorrect, BacklogIsBounded, PlacesAlways, PTL DEF Spec
<1> QED
  BY <1>2, PortInit, PortNext, TypeCorrect, BacklogIsBounded, PlacesAlways, PTL
     DEF Spec, ImplementsPort, Port!Spec, PortStep
---------------------------------------------------------------------------
(* NvencSession implements SessionCalls: between two calls a session is what *)
(* it holds, defers and has registered, and a whole call is one step.        *)

\* The surface of the frame of a call stays registered until the call answers:
\* the driver lock keeps an unregister out.
CurrentRegistered == pc \in {"submit", "lock", "collect"} => current.key \in registered

LEMMA CurrentRegisteredNext == CurrentRegistered /\ [Next]_vars => CurrentRegistered'
<1> SUFFICES ASSUME CurrentRegistered, [Next]_vars PROVE CurrentRegistered'
  OBVIOUS
<1> USE DEF CurrentRegistered
<1>1. ASSUME pc' \notin {"submit", "lock", "collect"} PROVE CurrentRegistered'
  BY <1>1
<1>2. CASE OpenSession \/ CreateBitstreamBuffer \/ CreateBitstreamBufferFails \/ DropSession
  BY <1>2 DEF OpenSession, CreateBitstreamBuffer, CreateBitstreamBufferFails, DropSession
<1>3. ASSUME NEW s \in Surfaces,
             RegisterSurface(s) \/ UnregisterSurface(s) \/ EncodeFrame(s)
      PROVE  CurrentRegistered'
  BY <1>3 DEF RegisterSurface, UnregisterSurface, EncodeFrame
<1>4. CASE Drain
  BY <1>4 DEF Drain, DrainReady, DrainBusy, DrainError
<1>5. CASE Admit
  BY <1>5 DEF Admit, InvalidSurface, PoolExhausted, MapInputFails, ReturnError, MapInput
<1>6. CASE Submit \/ Lock
  BY <1>6 DEF Submit, EncodeSuccess, EncodeNeedMoreInput, EncodePictureFails,
              Lock, LockOutput, LockOutputFails, ReturnError
<1>7. CASE Collect
  BY <1>7 DEF Collect, ProbeReady, ReturnBytes, ReturnPending
<1>8. CASE HwComplete \/ Reconfigure \/ UNCHANGED vars
  BY <1>8 DEF HwComplete, Reconfigure, driver, vars
<1> QED
  BY <1>2, <1>3, <1>4, <1>5, <1>6, <1>7, <1>8 DEF Next

LEMMA CallsCardinality == \A S : Calls!Cardinality(S) = Cardinality(S)
BY DEF Calls!Cardinality, Cardinality

LEMMA CallsInit == Init => Calls!Init
<1>1. Init => Held = {} /\ PendingFrames = {}
  BY DEF Init, Held, PendingFrames, PendingSlots, QueuedOutputs
<1> QED
  BY <1>1 DEF Init, Answer, Calls!Init, Calls!Answer

\* What is deferred after a step that touches no slot, frees one, or fills one.
LEMMA PendingUnchanged == pool' = pool => PendingFrames' = PendingFrames
BY DEF PendingFrames, PendingSlots

LEMMA PendingLoses ==
  ASSUME TypeOK, Places, NEW i \in PendingSlots, pool' = [pool EXCEPT ![i] = NoFrame]
  PROVE  pool[i] \in PendingFrames /\ PendingFrames' = PendingFrames \ {pool[i]}
<1>1. pool \in [Slots -> Frames \cup {NoFrame}] /\ i \in Slots /\ pool[i] # NoFrame
  BY DEF TypeOK, PendingSlots
<1> QED
  BY <1>1 DEF Places, PendingFrames, PendingSlots

LEMMA PendingGains ==
  ASSUME TypeOK, NEW i \in FreeSlots, NEW f \in Frames, pool' = [pool EXCEPT ![i] = f]
  PROVE  PendingFrames' = PendingFrames \cup {f}
<1>1. pool \in [Slots -> Frames \cup {NoFrame}] /\ i \in Slots /\ pool[i] = NoFrame
  BY DEF TypeOK, FreeSlots
<1> QED
  BY <1>1, NullAssumption DEF PendingFrames, PendingSlots

CallsStep == [Calls!Next]_(Calls!vars)

\* Every step of the session is a step of SessionCalls, or none.
LEMMA CallsNext ==
  ASSUME TypeOK, TypeOK', Places, BacklogBounded, CurrentHeld, CurrentRegistered,
         [Next]_vars
  PROVE  CallsStep
<1> USE DEF Release, KeepsMapped, PopFront, OfThisCall, InCall
<1> DEFINE held == Held \ OfThisCall
           deferred == PendingFrames \ OfThisCall
<1>0. /\ pending_outputs \in Seq(Frames) /\ PendingFrames \subseteq Frames
      /\ PendingFrames \subseteq Held
  BY DEF TypeOK, PendingFrames, PendingSlots, Held
<1>1. ASSUME Held' = Held, PendingFrames' = PendingFrames, ret' = ret, registered' = registered,
             \/ pc # "collect" /\ pc' # "collect"
             \/ pc' = pc /\ current' = current
      PROVE  CallsStep
  BY <1>1 DEF CallsStep, Calls!vars
<1>2. ASSUME ReturnError, InCall, pc # "collect", pool' = pool,
             pending_outputs' = pending_outputs, registered' = registered
      PROVE  CallsStep
  <2>1. Calls!Refuse
    BY <1>2, HeldUnchanged, PendingUnchanged
       DEF ReturnError, Answer, Calls!Refuse, Calls!Answer
  <2> QED
    BY <2>1 DEF CallsStep, Calls!Next
<1>3. ASSUME NEW f \in PendingFrames \ OfThisCall, OfThisCall' = OfThisCall,
             PendingFrames' = PendingFrames \ {f}, Held' = Held \/ Held' = Held \ {f},
             ret' = ret, registered' = registered
      PROVE  CallsStep
  <2>1. Calls!Retire(f)
    BY <1>0, <1>3 DEF Calls!Retire
  <2> QED
    BY <1>0, <1>3, <2>1 DEF CallsStep, Calls!Next
<1>4. CASE OpenSession \/ CreateBitstreamBuffer \/ CreateBitstreamBufferFails
  <2>1. Held' = Held /\ PendingFrames' = PendingFrames
    BY <1>4, HeldUnchanged, PendingUnchanged
       DEF OpenSession, CreateBitstreamBuffer, CreateBitstreamBufferFails
  <2> QED
    BY <1>1, <1>4, <2>1 DEF OpenSession, CreateBitstreamBuffer, CreateBitstreamBufferFails
<1>5. ASSUME NEW s \in Surfaces, RegisterSurface(s) \/ UnregisterSurface(s)
      PROVE  CallsStep
  <2>1. Held' = Held /\ PendingFrames' = PendingFrames
    BY <1>5, HeldUnchanged, PendingUnchanged DEF RegisterSurface, UnregisterSurface
  <2>2. Calls!Register(s) \/ Calls!Unregister(s)
    BY <1>5, <2>1 DEF RegisterSurface, UnregisterSurface, Calls!Register, Calls!Unregister
  <2> QED
    BY <2>2 DEF CallsStep, Calls!Next
<1>6. ASSUME NEW s \in Surfaces, EncodeFrame(s)
      PROVE  CallsStep
  <2>1. Held' = Held /\ PendingFrames' = PendingFrames
    BY <1>6, HeldUnchanged, PendingUnchanged DEF EncodeFrame
  <2>2. Calls!Begin
    BY <1>6, <2>1 DEF EncodeFrame, Answer, Calls!Begin, Calls!Answer
  <2> QED
    BY <2>2 DEF CallsStep, Calls!Next
<1>7. ASSUME NEW i \in Slots, DrainReady(i)
      PROVE  CallsStep
  <2>1. /\ Held' = Held /\ pool[i] \in PendingFrames
        /\ PendingFrames' = PendingFrames \ {pool[i]}
    BY <1>7, HeldMoves, PendingLoses DEF DrainReady, IsNextDrained
  <2> QED
    BY <1>3, <1>7, <2>1 DEF DrainReady
<1>8. ASSUME NEW i \in Slots, DrainBusy(i)
      PROVE  CallsStep
  <2>1. Held' = Held /\ PendingFrames' = PendingFrames
    BY <1>8, HeldUnchanged, PendingUnchanged DEF DrainBusy
  <2> QED
    BY <1>1, <1>8, <2>1 DEF DrainBusy
<1>9. ASSUME NEW i \in Slots, DrainError(i)
      PROVE  CallsStep
  <2>1. /\ Held' = Held \ {pool[i]} /\ pool[i] \in PendingFrames
        /\ PendingFrames' = PendingFrames \ {pool[i]}
    BY <1>9, HeldLoses, PendingLoses DEF DrainError, IsNextDrained
  <2> QED
    BY <1>3, <1>9, <2>1 DEF DrainError
<1>10. CASE InvalidSurface \/ PoolExhausted \/ MapInputFails
             \/ LockOutputFails \/ EncodePictureFails
  BY <1>2, <1>10 DEF InvalidSurface, PoolExhausted, MapInputFails,
                     LockOutputFails, EncodePictureFails
<1>11. ASSUME NEW f \in Frames, MapInput(f)
       PROVE  CallsStep
  <2>1. Held' = Held /\ PendingFrames' = PendingFrames
    BY <1>11, HeldUnchanged, PendingUnchanged DEF MapInput
  <2>2. ret' = ret /\ registered' = registered /\ pc # "collect" /\ pc' # "collect"
    BY <1>11 DEF MapInput
  <2> QED
    BY <1>1, <2>1, <2>2
<1>12. ASSUME pc \in {"submit", "lock"}, pc' = "collect", current' = current, ret' = ret,
              registered' = registered, Held' = Held \cup {current},
              PendingFrames' \in {PendingFrames, PendingFrames \cup {current}}
       PROVE  CallsStep
  \* The frame of the call does not count before the call answers.
  <2>1. current \notin Held
    BY <1>12 DEF Places, Held, PendingFrames, PendingSlots, QueuedOutputs
  <2> QED
    BY <1>0, <1>12, <2>1 DEF CallsStep, Calls!vars
<1>13. CASE LockOutput
  <2>1. current \in Frames
    BY <1>13 DEF LockOutput, TypeOK
  <2>2. Held' = Held \cup {current} /\ PendingFrames' = PendingFrames
    BY <1>13, <2>1, HeldGains, PendingUnchanged DEF LockOutput
  <2> QED
    BY <1>12, <1>13, <2>2 DEF LockOutput
<1>21. ASSUME NEW i \in Slots, EncodeSuccess(i)
       PROVE  CallsStep
  <2>1. Held' = Held /\ PendingFrames' = PendingFrames
    BY <1>21, HeldUnchanged, PendingUnchanged DEF EncodeSuccess
  <2>2. ret' = ret /\ registered' = registered /\ pc # "collect" /\ pc' # "collect"
    BY <1>21 DEF EncodeSuccess
  <2> QED
    BY <1>1, <2>1, <2>2
<1>14. ASSUME NEW i \in Slots, EncodeNeedMoreInput(i)
       PROVE  CallsStep
  <2>1. current \in Frames
    BY <1>14 DEF EncodeNeedMoreInput, TypeOK
  <2>2. Held' = Held \cup {current} /\ PendingFrames' = PendingFrames \cup {current}
    BY <1>14, <2>1, HeldGains, PendingGains DEF EncodeNeedMoreInput, IsNextFreeSlot
  <2> QED
    BY <1>12, <1>14, <2>2 DEF EncodeNeedMoreInput
<1>15. ASSUME NEW i \in Slots, ProbeReady(i)
       PROVE  CallsStep
  <2>1. pool[i] \in Frames /\ i \in PendingSlots
    BY <1>15 DEF ProbeReady, IsProbedSlot, PendingSlots, TypeOK
  <2>2. pending_outputs' = Append(pending_outputs, pool[i])
    BY <1>15, <2>1 DEF ProbeReady
  <2>3. /\ Held' = Held /\ pool[i] \in PendingFrames
        /\ PendingFrames' = PendingFrames \ {pool[i]}
    BY <1>15, <2>1, <2>2, HeldMoves, PendingLoses DEF ProbeReady
  \* The probe may find the very frame of this call, which does not count yet.
  <2>4. CASE pool[i] = current
    BY <1>15, <2>3, <2>4 DEF ProbeReady, CallsStep, Calls!vars
  <2>5. CASE pool[i] # current
    BY <1>3, <1>15, <2>3, <2>5 DEF ProbeReady
  <2> QED
    BY <2>4, <2>5
<1>16. ASSUME pc = "collect", registered' = registered
       PROVE  /\ current \in Frames /\ current \in Held
              /\ Calls!Accepts(current)
  <2>1. current \in Frames /\ current \in Held /\ current.key \in registered
    BY <1>16 DEF TypeOK, CurrentHeld, CurrentRegistered
  <2> QED
    BY <1>16, <2>1 DEF Calls!Accepts
<1>17. CASE ReturnBytes
  <2>1. /\ Head(pending_outputs) \in Held /\ Held' = Held \ {Head(pending_outputs)}
        /\ PendingFrames' = PendingFrames /\ OfThisCall' = {}
    BY <1>17, HeldPops, PendingUnchanged DEF ReturnBytes
  <2>2. Head(pending_outputs) \in Frames /\ Head(pending_outputs) \notin PendingFrames
    <3>1. /\ Len(pending_outputs) \in Nat /\ Len(pending_outputs) > 0
          /\ Head(pending_outputs) = pending_outputs[1] /\ Head(pending_outputs) \in Frames
      BY <1>0, <1>17, HeadTailProperties, EmptySeq DEF ReturnBytes
    <3> QED
      BY <3>1 DEF Places, PendingFrames, PendingSlots
  <2>3. current \in Frames /\ current \in Held /\ Calls!Accepts(current)
    BY <1>16, <1>17 DEF ReturnBytes
  <2>4. held \cup {current} = Held /\ OfThisCall = {current}
    BY <1>17, <2>3 DEF ReturnBytes
  <2>5. Calls!EncodeBytes(current, Head(pending_outputs))
    BY <1>17, <2>1, <2>2, <2>3, <2>4 DEF ReturnBytes, BytesOf, Calls!EncodeBytes
  <2> QED
    BY <2>2, <2>3, <2>5 DEF CallsStep, Calls!Next
<1>18. CASE ReturnPending
  <2>1. Held = PendingFrames
    BY <1>18 DEF ReturnPending, Held, QueuedOutputs
  <2>2. Held' = Held /\ PendingFrames' = PendingFrames /\ OfThisCall' = {}
    BY <1>18, HeldUnchanged, PendingUnchanged DEF ReturnPending
  <2>3. current \in Frames /\ current \in Held /\ Calls!Accepts(current)
    BY <1>16, <1>18 DEF ReturnPending
  <2>4. OfThisCall = {current}
    BY <1>18 DEF ReturnPending
  <2>5. Cardinality(Held \ {current}) < PoolSize
    <3>1. Len(pending_outputs) = 0
      BY <1>18 DEF ReturnPending
    <3>2. /\ IsFiniteSet(Held) /\ Cardinality(Held) \in Nat
          /\ Cardinality(Held) <= PoolSize
      BY <3>1, HeldCount, PendingSlotsCount, PoolSizeAssumption
    <3>3. Cardinality(Held \ {current}) = Cardinality(Held) - 1
      BY <2>3, <3>2, FS_RemoveElement
    <3> QED
      BY <3>2, <3>3, PoolSizeAssumption
  <2>6. Calls!EncodePending(current)
    BY <1>18, <2>1, <2>2, <2>3, <2>4, <2>5, CallsCardinality
       DEF ReturnPending, Answer, Calls!Answer, Calls!EncodePending
  <2> QED
    BY <2>3, <2>6 DEF CallsStep, Calls!Next
<1>19. CASE HwComplete \/ Reconfigure \/ UNCHANGED vars
  <2>1. /\ pc' = pc /\ current' = current /\ ret' = ret /\ registered' = registered
        /\ Held' = Held /\ PendingFrames' = PendingFrames
    BY <1>19, HeldUnchanged, PendingUnchanged DEF HwComplete, Reconfigure, driver, vars
  <2> QED
    BY <1>1, <2>1
<1>20. CASE DropSession
  <2>1. Held' = {} /\ PendingFrames' = {}
    BY <1>20 DEF DropSession, Held, PendingFrames, PendingSlots, QueuedOutputs
  <2>2. Calls!Close
    BY <1>20, <2>1 DEF DropSession, Answer, Calls!Answer, Calls!Close
  <2> QED
    BY <2>2 DEF CallsStep, Calls!Next
<1> QED
  BY <1>4, <1>5, <1>6, <1>7, <1>8, <1>9, <1>10, <1>11, <1>13, <1>14, <1>15, <1>17,
     <1>18, <1>19, <1>20, <1>21 DEF Next, Drain, Admit, Submit, Lock, Collect

\* What PictureFlow and SurfaceLifetime assume of a session is what it does: a
\* call accepts at most the one frame it was given, of a registered surface;
\* its bytes come from no slot; and it answers "pending" only if nothing waits
\* for a caller, every held frame is in a slot and the pool has room for it.
THEOREM SessionImplementsCalls == Spec => ImplementsCalls
<1>1. Init => CurrentHeld /\ CurrentRegistered
  BY DEF Init, CurrentHeld, CurrentRegistered
<1>2. Spec => [](CurrentHeld /\ CurrentRegistered)
  BY <1>1, PortNext, CurrentRegisteredNext, TypeCorrect, BacklogIsBounded, PlacesAlways,
     PTL DEF Spec
<1>3. TypeOK /\ TypeOK' /\ Places /\ BacklogBounded /\ CurrentHeld /\ CurrentRegistered
        /\ [Next]_vars => CallsStep
  BY CallsNext
<1> QED
  BY <1>2, <1>3, CallsInit, TypeCorrect, BacklogIsBounded, PlacesAlways, PTL
     DEF Spec, ImplementsCalls, Calls!Spec, CallsStep
=============================================================================
