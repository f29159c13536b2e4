--------------------------- MODULE MappedBuffers ---------------------------
(***************************************************************************)
(* Threads calling the driver, the `pools` lock, and the lock inside each  *)
(* generic buffer: src/driver/buffer.rs, image.rs, and the part of         *)
(* picture.rs (render_picture) that reads buffers.                         *)
(*                                                                         *)
(* vaMapBuffer returns with the lock of the buffer's bytes held (the guard *)
(* is forgotten) and vaUnmapBuffer force-unlocks it: the one lock of the   *)
(* driver that outlives a call.  Everything else is done under `pools`,    *)
(* and a thread that waits for a buffer's lock keeps `pools`: it would     *)
(* wait for ever for a buffer somebody has mapped.                         *)
(*                                                                         *)
(* An image is its ImageRec, named by the key of its backing buffer; the   *)
(* 32-bit IDs clients pass are those keys here (IdPool has the difference).*)
(* Coded buffers hold no lock while mapped (PictureFlow has them).         *)
(***************************************************************************)
EXTENDS Naturals, FiniteSets

CONSTANTS
    Threads,
    Buffers,       \* keys of generic buffers, each for one live buffer at a time
    Surfaces,      \* the surfaces that exist at first
    Resident,      \* those of them with CUDA memory of their own (Internal)
    NoThread, NoBuffer, NoSurface

ASSUME ResidentAssumption == Resident \subseteq Surfaces
ASSUME NullAssumption ==
    NoThread \notin Threads /\ NoBuffer \notin Buffers /\ NoSurface \notin Surfaces

VARIABLES
    pc,            \* of each thread: where it is in its call
    call,          \* of each thread: the call and what it names
    pools,         \* the thread that holds the pools lock, or NoThread
    buffers,       \* live generic buffers
    images,        \* live ImageRecs, by buffer_key
    surface_key,   \* of each image: the surface it was derived from, or NoSurface
    locked,        \* buffers whose bytes are locked
    surfaces,      \* live surfaces
    mapped         \* client: the buffers it holds a pointer into

vars == <<pc, call, pools, buffers, images, surface_key, locked, surfaces, mapped>>
data == <<buffers, images, surface_key, locked, surfaces, mapped>>

OnBuffer == {"map", "unmap", "render", "destroy_buffer", "destroy_image"}
Calls == [entry : {"none", "create_buffer", "create_image", "derive", "put",
                   "destroy_surface"} \cup OnBuffer,
          buf : Buffers \cup {NoBuffer}, surface : Surfaces \cup {NoSurface}]
Call(entry, b, s) == [entry |-> entry, buf |-> b, surface |-> s]
NoCall == Call("none", NoBuffer, NoSurface)

Init ==
    /\ pc = [t \in Threads |-> "outside"] /\ call = [t \in Threads |-> NoCall]
    /\ pools = NoThread
    /\ buffers = {} /\ images = {} /\ surface_key = [b \in Buffers |-> NoSurface]
    /\ locked = {} /\ surfaces = Surfaces /\ mapped = {}
---------------------------------------------------------------------------
(* The client.  It keeps "the libva contract that the client must not call *)
(* other VA functions on the same buffer between Map and Unmap", so it     *)
(* works on a buffer from one thread at a time; the pointers it holds are  *)
(* gone once it called vaUnmapBuffer, whatever status that returned.       *)

Named == {call[t].buf : t \in Threads}
Fresh == Buffers \ (buffers \cup images \cup Named)

ClientCall(t, c) ==
    /\ pc[t] = "outside"
    /\ pc' = [pc EXCEPT ![t] = "waiting"] /\ call' = [call EXCEPT ![t] = c]
    /\ UNCHANGED <<pools, data>>

CallOnBuffer(t, entry, b) ==
    /\ b \notin Named
    /\ entry = "unmap" <=> b \in mapped
    /\ ClientCall(t, Call(entry, b, NoSurface))

CallPutImage(t, b, s) ==
    /\ b \in images /\ b \notin Named \cup mapped
    /\ ClientCall(t, Call("put", b, s))

CallNew(t, b, s) ==
    /\ b \in Fresh
    /\ \/ ClientCall(t, Call("create_buffer", b, NoSurface))
       \/ ClientCall(t, Call("create_image", b, NoSurface))
       \/ ClientCall(t, Call("derive", b, s))

CallDestroySurface(t, s) == ClientCall(t, Call("destroy_surface", NoBuffer, s))
---------------------------------------------------------------------------
(* The lock.                                                               *)

Enter(t) ==
    /\ pc[t] = "waiting" /\ pools = NoThread
    /\ pc' = [pc EXCEPT ![t] = "inside"] /\ pools' = t
    /\ UNCHANGED <<call, data>>

In(t, entry) == pc[t] = "inside" /\ call[t].entry = entry

\* What if: the guard of `pools` is leaked.
KeepsPools(t) == /\ pc' = [pc EXCEPT ![t] = "outside"]
                 /\ call' = [call EXCEPT ![t] = NoCall] /\ pools' = pools
Leave(t) == /\ pc' = [pc EXCEPT ![t] = "outside"] /\ call' = [call EXCEPT ![t] = NoCall]
            /\ pools' = NoThread

\* A message goes to libva's callback before the call leaves the lock.
Log(t) == pc' = [pc EXCEPT ![t] = "callback"] /\ UNCHANGED <<call, pools>>

CallbackReturns(t) == pc[t] = "callback" /\ Leave(t) /\ UNCHANGED data

\* An early return: the ID names nothing.
Fails(t) == Leave(t) /\ UNCHANGED data
---------------------------------------------------------------------------
CreateBuffer(t) ==
    /\ In(t, "create_buffer")
    /\ buffers' = buffers \cup {call[t].buf} /\ Leave(t)
    /\ UNCHANGED <<images, surface_key, locked, surfaces, mapped>>

\* derive_image reads the surface "under a short lock", then allocates the
\* image like create_image does, under the lock again.
DeriveImage(t) ==
    /\ In(t, "derive")
    /\ IF call[t].surface \in surfaces
         THEN /\ pc' = [pc EXCEPT ![t] = "waiting"] /\ pools' = NoThread
              /\ call' = [call EXCEPT ![t].entry = "create_image"]
              /\ UNCHANGED data
         ELSE Fails(t)

AllocHostImage(t) ==
    /\ In(t, "create_image")
    /\ buffers' = buffers \cup {call[t].buf} /\ images' = images \cup {call[t].buf}
    /\ surface_key' = [surface_key EXCEPT ![call[t].buf] = call[t].surface]
    /\ Leave(t)
    /\ UNCHANGED <<locked, surfaces, mapped>>

\* core::mem::forget: the bytes stay locked when the call returns.
DropGuard(b)   == locked' = locked  \* what if: the guard is dropped as usual
ForgetGuard(b) == locked' = locked \cup {b}

\* Without a lock it can take a thread has no step: it waits, holding pools.
MapBuffer(t) ==
    LET b == call[t].buf IN
    /\ In(t, "map")
    /\ IF b \in buffers
         THEN /\ b \notin locked
              /\ ForgetGuard(b) /\ mapped' = mapped \cup {b} /\ Leave(t)
              /\ UNCHANGED <<buffers, images, surface_key, surfaces>>
         ELSE Fails(t)

LeaveLocked(b) == locked' = locked  \* what if: unmap does not unlock
ForceUnlock(b) == locked' = locked \ {b}

\* upload_image_to_surface: a surface without CUDA memory only logs a message;
\* a destroyed one is an error, and the copy itself changes nothing here.
Upload(t, s) == IF s \in surfaces \ Resident THEN Log(t) ELSE Leave(t)

\* The lock is released first; a derived image is then uploaded.
UnmapBuffer(t) ==
    LET b == call[t].buf IN
    /\ In(t, "unmap")
    /\ mapped' = mapped \ {b}
    /\ IF b \in buffers THEN ForceUnlock(b) ELSE locked' = locked
    /\ IF b \in buffers \cap images THEN Upload(t, surface_key[b]) ELSE Leave(t)
    /\ UNCHANGED <<buffers, images, surface_key, surfaces>>

RenderPicture(t) ==
    /\ In(t, "render")
    /\ call[t].buf \notin buffers \cap locked
    /\ Leave(t) /\ UNCHANGED data

\* Cropped puts and puts to a non-CUDA surface log and return.
PutImage(t) ==
    LET b == call[t].buf
        s == call[t].surface
    IN
    /\ In(t, "put")
    /\ \/ b \in images /\ s \in surfaces /\ Log(t)
       \/ b \in images /\ s \in surfaces \cap Resident /\ b \notin buffers \cap locked /\ Leave(t)
       \/ ~(b \in images /\ s \in surfaces) /\ Leave(t)
    /\ UNCHANGED data

DestroyBuffer(t) ==
    /\ In(t, "destroy_buffer")
    /\ buffers' = buffers \ {call[t].buf} /\ locked' = locked \ {call[t].buf}
    /\ Leave(t)
    /\ UNCHANGED <<images, surface_key, surfaces, mapped>>

\* The image and, if it is still there, its buffer.
DestroyImage(t) ==
    LET b == call[t].buf IN
    /\ In(t, "destroy_image")
    /\ IF b \in images
         THEN /\ images' = images \ {b} /\ buffers' = buffers \ {b} /\ locked' = locked \ {b}
              /\ surface_key' = [surface_key EXCEPT ![b] = NoSurface]
              /\ Leave(t) /\ UNCHANGED <<surfaces, mapped>>
         ELSE Fails(t)

DestroySurface(t) ==
    /\ In(t, "destroy_surface")
    /\ surfaces' = surfaces \ {call[t].surface} /\ Leave(t)
    /\ UNCHANGED <<buffers, images, surface_key, locked, mapped>>

Inside(t) ==
    \/ CreateBuffer(t) \/ DeriveImage(t) \/ AllocHostImage(t) \/ MapBuffer(t)
    \/ UnmapBuffer(t) \/ RenderPicture(t) \/ PutImage(t) \/ DestroyBuffer(t)
    \/ DestroyImage(t) \/ DestroySurface(t) \/ CallbackReturns(t)

Next == \E t \in Threads :
    \/ Enter(t) \/ Inside(t)
    \/ \E b \in Buffers, entry \in OnBuffer : CallOnBuffer(t, entry, b)
    \/ \E b \in Buffers, s \in Surfaces : CallPutImage(t, b, s) \/ CallNew(t, b, s)
    \/ \E s \in Surfaces : CallDestroySurface(t, s)

\* A thread inside the driver runs, and parking_lot hands a contended lock to
\* a waiter at least every half a millisecond.
Fairness == \A t \in Threads : WF_vars(Inside(t)) /\ SF_vars(Enter(t))

Spec == Init /\ [][Next]_vars /\ Fairness
---------------------------------------------------------------------------
(* Properties. *)

\* Types, and that exactly the thread inside the driver holds `pools`.
TypeOK ==
    /\ pc \in [Threads -> {"outside", "waiting", "inside", "callback"}]
    /\ call \in [Threads -> Calls]
    /\ pools \in Threads \cup {NoThread}
    /\ buffers \subseteq Buffers /\ images \subseteq Buffers
    /\ surface_key \in [Buffers -> Surfaces \cup {NoSurface}]
    /\ locked \subseteq buffers
    /\ surfaces \subseteq Surfaces /\ mapped \subseteq Buffers
    /\ \A t \in Threads : pc[t] \in {"inside", "callback"} <=> pools = t

\* No thread that holds `pools` finds the buffer it needs locked: whatever
\* other threads do with other buffers, images and surfaces, nobody waits
\* for a lock that only a call which needs `pools` could release.
NeverWaitsHoldingPools ==
    \A t \in Threads :
        pc[t] = "inside" /\ call[t].entry \in {"map", "render", "put"}
            => call[t].buf \notin locked

\* "the mutex is logically held. Force-unlock to re-balance": every
\* force_unlock meets a locked mutex, and the pointer the client held until
\* then was into a buffer that is still there.
UnlocksHeldLock ==
    \A t \in Threads : In(t, "unmap") => call[t].buf \in buffers \cap locked

\* Every vaXxx call returns, whatever the other threads do between.
CallsReturn == \A t \in Threads : pc[t] # "outside" ~> pc[t] = "outside"
===========================================================================
