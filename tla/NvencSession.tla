--------------------------- MODULE NvencSession ---------------------------
(***************************************************************************)
(* One NVENC encode session: src/nvenc/session.rs.                         *)
(*                                                                         *)
(* `encode_frame` runs under the driver lock, so no two calls overlap; but *)
(* the hardware works on its own, and completes frames between any two     *)
(* NVENC calls the driver makes.  A call is therefore one step per NVENC   *)
(* call, and HwComplete interleaves with all of them.                      *)
(*                                                                         *)
(* A frame is a token: the surface it was submitted from and an identity.  *)
(* The same token names the input NVENC mapped for the frame (`mapped`)    *)
(* and, later, its coded bytes (`pending_outputs`).  An identity is free   *)
(* again once the driver and NVENC hold nothing under it.                  *)
(***************************************************************************)
EXTENDS Naturals, Sequences, FiniteSets, SequencesExt

CONSTANTS
    Surfaces,            \* surface keys the client encodes from
    Ids,                 \* identities that tell frames of a surface apart
    PoolSize,            \* POOL_SIZE: NVENC bitstream buffers of a session
    LockMayFail,         \* may NvEncLockBitstream fail with an error?
    ReconfigureOrphans,  \* may a reconfigure lose frames NVENC had buffered?
    NoFrame, NoSurface

ASSUME PoolSizeAssumption == PoolSize \in Nat \ {0}
ASSUME FaultAssumption == LockMayFail \in BOOLEAN /\ ReconfigureOrphans \in BOOLEAN

Frames == [key : Surfaces, id : Ids]
Slots  == 0 .. PoolSize - 1

ASSUME NullAssumption == NoFrame \notin Frames /\ NoSurface \notin Surfaces

VARIABLES
    pc,               \* where the session stands in the call in progress
    target,           \* the surface encode_frame was called with
    cursor,           \* next slot the drain, or the pool creation, looks at;
                      \* the slot whose output the call waits for ("lock")
    current,          \* the frame this call mapped and submitted
    pool,             \* slot -> its deferred frame (Pending), or NoFrame (Free)
    next_slot,
    pending_outputs,  \* FIFO of coded bitstreams waiting for a caller
    registered,
    buffers,          \* NVENC side: live bitstream buffers
    mapped,           \* NVENC side: mapped inputs
    queue,            \* NVENC side: slots whose frame is still being encoded
    done,             \* NVENC side: slots whose output can be locked
    ret               \* what the last call returned

driver == <<pc, target, cursor, current, pool, next_slot, pending_outputs, registered>>
nvenc  == <<buffers, mapped, queue, done>>
vars   == <<pc, target, cursor, current, pool, next_slot, pending_outputs,
            registered, buffers, mapped, queue, done, ret>>

Phases   == {"closed", "creating", "idle", "drain", "submit", "lock", "collect"}
Answers  == [kind : {"none", "error", "pending"}, frame : {NoFrame}]
               \cup [kind : {"bytes"}, frame : Frames]
Answer(kind)  == [kind |-> kind, frame |-> NoFrame]
BytesOf(f)    == [kind |-> "bytes", frame |-> f]

FreeSlots     == {i \in Slots : pool[i] = NoFrame}
PendingSlots  == {i \in Slots : pool[i] # NoFrame}
PendingFrames == {pool[i] : i \in PendingSlots}
QueuedOutputs == {pending_outputs[k] : k \in 1 .. Len(pending_outputs)}
InFlight      == {queue[k] : k \in 1 .. Len(queue)}
Held          == PendingFrames \cup QueuedOutputs  \* accepted, not yet returned

\* The encode queue once NVENC has given up the frame bound for slot i.
Withdrawn(i) == IF i \in InFlight
                  THEN RemoveAt(queue, CHOOSE k \in 1 .. Len(queue) : queue[k] = i)
                  ELSE queue

\* find_free_slot: the first Free slot at or after next_slot, cyclically.
Ahead(i) == (i + PoolSize - next_slot) % PoolSize
TakesNextSlot(i) == i = next_slot  \* what if: does not look at the slot's state
IsNextFreeSlot(i) == i \in FreeSlots /\ \A j \in FreeSlots : Ahead(i) <= Ahead(j)

NoWrapAround(i) == i + 1  \* what if: forgets the modulus
SlotAfter(i) == (i + 1) % PoolSize

\* oldest_pending_slot: the first Pending slot walking back from next_slot - 1.
Behind(i) == (next_slot + PoolSize - 1 - i) % PoolSize
IsProbedSlot(i) == i \in PendingSlots /\ \A j \in PendingSlots : Behind(i) <= Behind(j)

\* drain_pending_non_blocking visits Pending slots by ascending index.
SkipsFirstSlot(i) ==  \* what if: never visits slot 0
                 i \in PendingSlots /\ 0 < i /\ cursor <= i
RestartsScan(i) ==  \* what if: begins again at slot 0
                 i \in PendingSlots /\ \A j \in PendingSlots : i <= j
IsNextDrained(i) == /\ i \in PendingSlots /\ cursor <= i
                    /\ \A j \in PendingSlots : cursor <= j => i <= j
DrainDone == \A i \in PendingSlots : i < cursor
---------------------------------------------------------------------------
(* Creation: open the encoder, then create the bitstream buffers one by one. *)

Init ==
    /\ pc = "closed" /\ target = NoSurface /\ cursor = 0 /\ current = NoFrame
    /\ pool = [i \in Slots |-> NoFrame] /\ next_slot = 0
    /\ pending_outputs = <<>> /\ registered = {}
    /\ buffers = {} /\ mapped = {} /\ queue = <<>> /\ done = {}
    /\ ret = Answer("none")

OpenSession ==
    /\ pc = "closed"
    /\ pc' = "creating" /\ cursor' = 0
    /\ mapped' = {}  \* a fresh encoder knows nothing of its predecessor's inputs
    /\ UNCHANGED <<target, current, pool, next_slot, pending_outputs, registered,
                   buffers, queue, done, ret>>

CreateBitstreamBuffer ==
    /\ pc = "creating"
    /\ buffers' = buffers \cup {cursor}
    /\ IF cursor + 1 = PoolSize
         THEN pc' = "idle" /\ cursor' = 0
         ELSE pc' = pc /\ cursor' = cursor + 1
    /\ UNCHANGED <<target, current, pool, next_slot, pending_outputs, registered,
                   mapped, queue, done, ret>>

\* The roll-back of `new`: the buffers created so far, then the encoder.
AllButLast == 0 .. cursor - 2  \* what if: off by one
CreatedSoFar == 0 .. cursor - 1

CreateBitstreamBufferFails ==
    /\ pc = "creating"
    /\ buffers' = buffers \ CreatedSoFar
    /\ pc' = "closed" /\ cursor' = 0
    /\ UNCHANGED <<target, current, pool, next_slot, pending_outputs, registered,
                   mapped, queue, done, ret>>
---------------------------------------------------------------------------
(* Surface registrations. *)

RegisterSurface(s) ==
    /\ pc = "idle" /\ s \notin registered
    /\ registered' = registered \cup {s}
    /\ UNCHANGED <<pc, target, cursor, current, pool, next_slot, pending_outputs,
                   nvenc, ret>>

UnregisterSurface(s) ==
    /\ pc = "idle" /\ s \in registered
    /\ registered' = registered \ {s}
    /\ UNCHANGED <<pc, target, cursor, current, pool, next_slot, pending_outputs,
                   nvenc, ret>>
---------------------------------------------------------------------------
(* encode_frame, phase 1: lock without waiting every Pending slot's output. *)

EncodeFrame(s) ==
    /\ pc = "idle"
    /\ pc' = "drain" /\ target' = s /\ cursor' = 0 /\ ret' = Answer("none")
    /\ UNCHANGED <<current, pool, next_slot, pending_outputs, registered,
                   nvenc>>

\* The output of slot i was read, or given up: its input is unmapped and the
\* slot is Free.  NVENC has nothing to hand out for it any more.
\* What if: the slot is not freed, or the input not unmapped.
StaysPending(i) == mapped' = mapped \ {pool[i]} /\ pool' = pool /\ done' = done \ {i}
StaysMapped(i)  == /\ pool' = [pool EXCEPT ![i] = NoFrame] /\ done' = done \ {i}
                   /\ mapped' = mapped
Release(i) ==
    /\ mapped' = mapped \ {pool[i]} /\ done' = done \ {i}
    /\ pool' = [pool EXCEPT ![i] = NoFrame]

DrainReady(i) ==
    /\ pc = "drain" /\ IsNextDrained(i) /\ i \in done
    /\ pending_outputs' = Append(pending_outputs, pool[i]) /\ Release(i)
    /\ cursor' = i + 1
    /\ UNCHANGED <<pc, target, current, next_slot, registered, buffers, queue, ret>>

DrainBusy(i) ==
    /\ pc = "drain" /\ IsNextDrained(i) /\ i \notin done
    /\ cursor' = i + 1
    /\ UNCHANGED <<pc, target, current, pool, next_slot, pending_outputs,
                   registered, nvenc, ret>>

\* An error other than LOCK_BUSY: NVENC gave the frame up, and so does the driver.
DrainError(i) ==
    /\ LockMayFail
    /\ pc = "drain" /\ IsNextDrained(i)
    /\ Release(i) /\ queue' = Withdrawn(i)
    /\ cursor' = i + 1
    /\ UNCHANGED <<pc, target, current, next_slot, pending_outputs, registered,
                   buffers, ret>>
---------------------------------------------------------------------------
(* encode_frame, phase 2: look up, pick a slot, map, submit. *)

\* An early return that changed nothing since the drain.
ReturnError ==
    /\ pc' = "idle" /\ target' = NoSurface /\ cursor' = 0 /\ current' = NoFrame
    /\ ret' = Answer("error")

InvalidSurface ==
    /\ pc = "drain" /\ DrainDone
    /\ target \notin registered
    /\ ReturnError
    /\ UNCHANGED <<pool, next_slot, pending_outputs, registered, nvenc>>

PoolExhausted ==
    /\ pc = "drain" /\ DrainDone
    /\ target \in registered /\ FreeSlots = {}
    /\ ReturnError
    /\ UNCHANGED <<pool, next_slot, pending_outputs, registered, nvenc>>

MapInputFails ==
    /\ pc = "drain" /\ DrainDone
    /\ target \in registered /\ FreeSlots # {}
    /\ ReturnError
    /\ UNCHANGED <<pool, next_slot, pending_outputs, registered, nvenc>>

MapInput(f) ==
    /\ pc = "drain" /\ DrainDone
    /\ target \in registered /\ FreeSlots # {}
    /\ f.key = target /\ f \notin mapped \cup Held
    /\ current' = f /\ mapped' = mapped \cup {f}
    /\ pc' = "submit" /\ cursor' = 0
    /\ UNCHANGED <<target, pool, next_slot, pending_outputs, registered,
                   buffers, queue, done, ret>>

\* SUCCESS: NVENC has taken the frame and owes its output into slot i, which
\* stays Free: the driver is to read it in this very call.
EncodeSuccess(i) ==
    /\ pc = "submit" /\ IsNextFreeSlot(i)
    /\ queue' = Append(queue, i)
    /\ pc' = "lock" /\ cursor' = i
    /\ UNCHANGED <<target, current, pool, next_slot, pending_outputs, registered,
                   buffers, mapped, done, ret>>

\* lock_and_copy has no doNotWait: it returns once NVENC has the output of this
\* frame, and so, encoding in submission order, of every earlier one.
LockOutput ==
    /\ pc = "lock" /\ cursor \in done
    /\ done' = done \ {cursor}
    /\ pending_outputs' = Append(pending_outputs, current)
    /\ mapped' = mapped \ {current}
    /\ next_slot' = SlotAfter(cursor)
    /\ pc' = "collect" /\ cursor' = 0
    /\ UNCHANGED <<target, current, pool, registered, buffers, queue, ret>>

\* The `?` after lock_and_copy returns before the input is unmapped.  NVENC gave
\* the frame up, as in DrainError.
LockOutputFails ==
    /\ LockMayFail
    /\ pc = "lock"
    /\ queue' = Withdrawn(cursor) /\ done' = done \ {cursor}
    /\ ReturnError
    /\ UNCHANGED <<pool, next_slot, pending_outputs, registered, buffers,
                   mapped>>

\* NEED_MORE_INPUT: "Keep the mapped_input alive until NVENC flushes."
\* What if: unmapped as after SUCCESS.
UnmapsAtOnce == mapped' = mapped \ {current}
KeepsMapped == mapped' = mapped

EncodeNeedMoreInput(i) ==
    /\ pc = "submit" /\ IsNextFreeSlot(i)
    /\ pool' = [pool EXCEPT ![i] = current]
    /\ queue' = Append(queue, i)
    /\ next_slot' = SlotAfter(i) /\ KeepsMapped
    /\ pc' = "collect"
    /\ UNCHANGED <<target, cursor, current, pending_outputs, registered,
                   buffers, done, ret>>

EncodePictureFails ==
    /\ pc = "submit"
    /\ mapped' = mapped \ {current}
    /\ ReturnError
    /\ UNCHANGED <<pool, next_slot, pending_outputs, registered, buffers,
                   queue, done>>
---------------------------------------------------------------------------
(* encode_frame, phase 3: at most one probe if the FIFO is empty, then pop. *)

ProbeReady(i) ==
    /\ pc = "collect" /\ pending_outputs = <<>>
    /\ IsProbedSlot(i) /\ i \in done
    /\ pending_outputs' = <<pool[i]>> /\ Release(i)
    /\ UNCHANGED <<pc, target, cursor, current, next_slot, registered, buffers,
                   queue, ret>>

\* What if: the bytes are returned and left in the FIFO.
Peek == pending_outputs' = pending_outputs /\ ret' = BytesOf(Head(pending_outputs))
PopFront == /\ pending_outputs' = Tail(pending_outputs)
            /\ ret' = BytesOf(Head(pending_outputs))

ReturnBytes ==
    /\ pc = "collect" /\ pending_outputs # <<>>
    /\ PopFront
    /\ pc' = "idle" /\ target' = NoSurface /\ cursor' = 0 /\ current' = NoFrame
    /\ UNCHANGED <<pool, next_slot, registered, nvenc>>

\* The probe met no slot, a busy one, or an error, which leaves the slot Pending.
WaitsForOutput == PendingSlots = {}  \* what if: a blocking lock
NothingReady == \A i \in done : IsProbedSlot(i) => LockMayFail

ReturnPending ==
    /\ pc = "collect" /\ pending_outputs = <<>> /\ NothingReady
    /\ ret' = Answer("pending")
    /\ pc' = "idle" /\ target' = NoSurface /\ cursor' = 0 /\ current' = NoFrame
    /\ UNCHANGED <<pool, next_slot, pending_outputs, registered, nvenc>>
---------------------------------------------------------------------------
(* The hardware, reconfiguration, and Drop. *)

HwComplete ==
    /\ queue # <<>>
    /\ queue' = Tail(queue) /\ done' = done \cup {Head(queue)}
    /\ UNCHANGED <<driver, buffers, mapped, ret>>

\* A successful reconfigure_encoder touches no slot; frames NVENC had
\* buffered may never come out ("orphan Pending slot across a `reconfigure`").
Reconfigure ==
    /\ ReconfigureOrphans
    /\ pc = "idle" /\ queue # <<>>
    /\ queue' = <<>>
    /\ UNCHANGED <<driver, buffers, mapped, done, ret>>

DropSession ==
    /\ pc = "idle"
    /\ pc' = "closed"
    /\ mapped' = mapped \ PendingFrames
    /\ buffers' = {} /\ registered' = {} /\ queue' = <<>> /\ done' = {}
    /\ pool' = [i \in Slots |-> NoFrame] /\ next_slot' = 0
    /\ pending_outputs' = <<>> /\ ret' = Answer("none")
    /\ UNCHANGED <<target, cursor, current>>

Drain  == \E i \in Slots : DrainReady(i) \/ DrainBusy(i) \/ DrainError(i)
Submit == \/ \E i \in Slots : EncodeSuccess(i) \/ EncodeNeedMoreInput(i)
          \/ EncodePictureFails
Lock   == LockOutput \/ LockOutputFails
Collect == (\E i \in Slots : ProbeReady(i)) \/ ReturnBytes \/ ReturnPending
Admit  == InvalidSurface \/ PoolExhausted \/ MapInputFails \/ \E f \in Frames : MapInput(f)

Next ==
    \/ OpenSession \/ CreateBitstreamBuffer \/ CreateBitstreamBufferFails
    \/ \E s \in Surfaces : RegisterSurface(s) \/ UnregisterSurface(s) \/ EncodeFrame(s)
    \/ Drain \/ Admit \/ Submit \/ Lock \/ Collect
    \/ HwComplete \/ Reconfigure \/ DropSession

Spec == Init /\ [][Next]_vars

\* The thread inside encode_frame, or inside `new`, keeps running.  Waiting in
\* lock_and_copy for output that is not there, it has no step to take.
CallFairness ==
    WF_vars(CreateBitstreamBuffer \/ Drain \/ Admit \/ Submit \/ Lock \/ Collect)

LiveSpec == Spec /\ CallFairness

\* A client that keeps a surface registered and keeps encoding, on hardware
\* that finishes what it accepted and does not refuse every frame.
StreamingSpec ==
    /\ LiveSpec
    /\ WF_vars(HwComplete)
    /\ SF_vars(\E s \in Surfaces : RegisterSurface(s))
    /\ SF_vars(\E s \in registered : EncodeFrame(s))
    /\ SF_vars(\E f \in Frames : MapInput(f))
    /\ SF_vars(\E i \in Slots : EncodeSuccess(i) \/ EncodeNeedMoreInput(i))
---------------------------------------------------------------------------
(* Properties. *)

\* Types: every variable ranges over what the source's types allow, every
\* slot index is a pool index, and the parts of a call's state that live in
\* local variables of `encode_frame` exist only while the call does.
TypeOK ==
    /\ pc \in Phases
    /\ target \in Surfaces \cup {NoSurface}
    /\ cursor \in 0 .. PoolSize
    /\ current \in Frames \cup {NoFrame}
    /\ pool \in [Slots -> Frames \cup {NoFrame}]
    /\ next_slot \in Slots
    /\ pending_outputs \in Seq(Frames)
    /\ registered \subseteq Surfaces
    /\ buffers \subseteq Slots
    /\ mapped \subseteq Frames
    /\ queue \in Seq(Slots)
    /\ done \subseteq Slots
    /\ ret \in Answers
    /\ current # NoFrame <=> pc \in {"submit", "lock", "collect"}
    /\ pc \in {"creating", "lock"} => cursor \in Slots

\* The deferred work of a session is bounded although `pending_outputs` has
\* no limit of its own: between calls the FIFO and the Pending slots together
\* hold at most PoolSize frames, and one more until the call in progress pops.
BacklogBounded ==
    Len(pending_outputs) + Cardinality(PendingSlots)
        <= IF pc = "collect" THEN PoolSize + 1 ELSE PoolSize

\* Every accepted frame is in exactly one place: one Pending slot or one
\* entry of the FIFO, so that its bytes reach one caller and only one.
ExactlyOnce ==
    /\ \A i, j \in PendingSlots : pool[i] = pool[j] => i = j
    /\ \A k, l \in 1 .. Len(pending_outputs) :
           pending_outputs[k] = pending_outputs[l] => k = l
    /\ PendingFrames \cap QueuedOutputs = {}
    /\ pc \in {"submit", "lock"} => current \notin Held

\* "The mapped input must survive until the deferred output is unlocked":
\* the input of a Pending slot is mapped, and a frame whose bytes were copied
\* out no longer holds a mapping.
MappedUntilUnlocked ==
    /\ PendingFrames \subseteq mapped
    /\ mapped \cap QueuedOutputs = {}

\* The input a call has mapped and answers for itself, in no slot yet.
OwnInput == IF pc \in {"submit", "lock"} THEN {current} ELSE {}

\* Map and unmap are balanced: the only mapped inputs are those of Pending
\* slots and of the frame being submitted.
InputsBalanced ==
    mapped = PendingFrames \cup OwnInput

\* NVENC owes output only into buffers the driver remembers as Pending, or is
\* waiting for, each once: no buffer is handed to a second frame before it was
\* read.
OwedBuffersPending ==
    /\ InFlight \cup done
         \subseteq PendingSlots \cup (IF pc = "lock" THEN {cursor} ELSE {})
    /\ InFlight \cap done = {}
    /\ \A k, l \in 1 .. Len(queue) : queue[k] = queue[l] => k = l

\* A session that failed to open, or was dropped, leaves no bitstream buffer,
\* no mapped input and no registration behind in NVENC.
CleanTeardown == pc = "closed" => buffers = {} /\ mapped = {} /\ registered = {}

InCall == pc \in {"drain", "submit", "lock", "collect"}

\* The session implements EncoderPort: see there for the promise.
Port == INSTANCE EncoderPort WITH
    Capacity <- PoolSize,
    busy     <- InCall,
    offered  <- IF pc = "collect" THEN current ELSE NoFrame,
    held     <- Held

ImplementsPort == Port!Spec

\* The inputs NVENC has mapped and nothing in the driver remembers.
Unaccounted == mapped \ (PendingFrames \cup OwnInput)

\* On any hardware, failing as it may, one path leaks a mapping: the lock error
\* after SUCCESS, and there only the input of that call.  No other error path,
\* reconfigure or Drop leaks, and no later call forgets an input it found.
OnlyFailedLockLeaks ==
    [][\/ Unaccounted' \subseteq Unaccounted
       \/ LockOutputFails /\ Unaccounted' = Unaccounted \cup {current}]_vars

\* The session implements SessionCalls.  The frame of the call in progress
\* counts once the call answers.
OfThisCall == IF pc = "collect" THEN {current} ELSE {}
Calls == INSTANCE SessionCalls WITH
    Capacity <- PoolSize,
    held     <- Held \ OfThisCall,
    deferred <- PendingFrames \ OfThisCall

ImplementsCalls == Calls!Spec

\* How many steps the call in progress can still take at most: it drains the
\* slots it has not visited, admits, submits, locks, probes once and returns.
StepsLeft == CASE pc = "drain"   -> (PoolSize - cursor) + 5
               [] pc = "submit"  -> 4
               [] pc = "lock"    -> 3
               [] pc = "collect" -> IF pending_outputs = <<>> THEN 2 ELSE 1
               [] OTHER          -> 0

\* No call takes more than PoolSize + 5 steps, whatever NVENC does meanwhile:
\* the drain never visits a slot again, however many frames complete beside
\* it, and the probe runs once.
CallBounded ==
    [][/\ StepsLeft' <= PoolSize + 5
       /\ InCall => StepsLeft' < StepsLeft \/ UNCHANGED driver]_vars

\* The freeze the phase 3 comment is about does not come back.  Whatever the
\* hardware does, a call returns or gets to the one lock that waits, the lock
\* after SUCCESS; and on hardware that goes on completing what it has queued it
\* returns, although the frames a reconfigure orphaned never complete.
CallsReturn ==
    /\ InCall ~> pc \in {"lock", "idle"}
    /\ WF_vars(HwComplete) => (InCall ~> pc = "idle")

\* While the client keeps encoding, the bytes of every accepted frame come
\* out of some later call, unless the session is dropped before.
FramesComeOut == \A f \in Frames : f \in Held ~> f \notin Held
===========================================================================
