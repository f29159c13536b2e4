----------------------------- MODULE GpuMemory -----------------------------
(***************************************************************************)
(* Where surfaces get their GPU memory from and who gives it back: the     *)
(* one-shot CUDA context (src/cuda/mod.rs), the import of a DMA-BUF        *)
(* (src/cuda/external_mem.rs), vaCreateSurfaces2 and vaDestroySurfaces     *)
(* (src/driver/surface.rs), the drop of a SurfaceRec (state.rs) and the    *)
(* drop of DriverState at vaTerminate.                                     *)
(*                                                                         *)
(* An import runs without the `pools` lock, vaCreateContext asks for the   *)
(* CUDA context with it: threads interleave at every CUDA call and every   *)
(* lock.  NVENC's registrations of a surface are in SurfaceLifetime.       *)
(*                                                                         *)
(* A surface is a token, reusable once nothing of it is left.  A resource  *)
(* is named by the surface it is for.                                      *)
(***************************************************************************)
EXTENDS Naturals, FiniteSets

CONSTANTS
    Threads,
    Surfaces,
    MaxFd,         \* bound: descriptor numbers
    MaxBatch,      \* bound: surfaces asked for in one vaCreateSurfaces2
    NoThread, NoSurface, Drm

ASSUME NullAssumption == /\ NoThread \notin Threads /\ NoSurface \notin Surfaces
                         /\ Drm \notin Surfaces \cup {NoSurface}
ASSUME SurfacesAssumption == IsFiniteSet(Surfaces)  \* 32-bit IDs
ASSUME BoundsAssumption == MaxBatch \in Nat /\ MaxFd \in Nat

VARIABLES
    pc,            \* of each thread: where it is in its call
    call,          \* of each thread: the call, and the surfaces it still works on
    cuda,          \* of each thread: its Arc of a CUDA context, 0 for none
    pools,         \* the thread that holds the pools lock, or NoThread
    init_lock,     \* the thread that holds CudaCtx::init_lock, or NoThread
    ctx,           \* CudaCtx::ctx: the context it holds an Arc of, or 0
    created,       \* CUDA contexts created so far, numbered from 1
    kind,          \* SurfaceKind of the surfaces in the pool, "none" of others
    cuda_ctx,      \* SurfaceRec::cuda_ctx, 0 for None
    allocs,        \* the CUDA context a pitched allocation lives in, 0 for none
    lost,          \* history: the allocations that allocate_nv12 forgot
    ext_mem, mip,  \* imports that exist in CUDA, by surface
    dup_fd,        \* the number of an import's duplicate, or NoFd
    fds,           \* descriptor table: what each number was opened for
    phase          \* "running", "terminating", "terminated"

vars == <<pc, call, cuda, pools, init_lock, ctx, created, kind, cuda_ctx,
          allocs, lost, ext_mem, mip, dup_fd, fds, phase>>
thread   == <<pc, call, cuda>>
locks    == <<pools, init_lock>>
context  == <<ctx, created>>
imports  == <<ext_mem, mip, dup_fd, fds>>
surfaces == <<kind, cuda_ctx, allocs, lost>>

Fds    == 1 .. MaxFd
NoFd   == 0
NoCall == [entry |-> "none", keys |-> {}, cur |-> NoSurface]
Pool   == {k \in Surfaces : kind[k] # "none"}
Named(t) == call[t].keys \cup {call[t].cur}
Fresh  == Surfaces \ (Pool \cup lost \cup UNION {Named(t) : t \in Threads})

\* The drm fd is duplicated if there is one: CudaCtx::from_va_context.
Init ==
    /\ pc = [t \in Threads |-> "outside"] /\ call = [t \in Threads |-> NoCall]
    /\ cuda = [t \in Threads |-> 0]
    /\ pools = NoThread /\ init_lock = NoThread
    /\ ctx = 0 /\ created = 0
    /\ kind = [k \in Surfaces |-> "none"] /\ cuda_ctx = [k \in Surfaces |-> 0]
    /\ allocs = [k \in Surfaces |-> 0] /\ lost = {}
    /\ ext_mem = {} /\ mip = {} /\ dup_fd = [k \in Surfaces |-> NoFd]
    /\ \/ fds = [n \in Fds |-> NoSurface]
       \/ fds = [n \in Fds |-> IF n = 1 THEN Drm ELSE NoSurface]
    /\ phase = "running"
---------------------------------------------------------------------------
(* Calls, their locks and their ends.                                      *)

Goto(t, label) == pc' = [pc EXCEPT ![t] = label]
At(t, label)   == pc[t] = label
Cur(t)         == call[t].cur

Enter(t, entry, keys, label) ==
    /\ At(t, "outside") /\ phase = "running"
    /\ Goto(t, label)
    /\ call' = [call EXCEPT ![t] = [entry |-> entry, keys |-> keys, cur |-> NoSurface]]
    /\ UNCHANGED <<cuda, locks, context, surfaces, imports, phase>>

CreateSurfaces(t, keys) ==
    keys \subseteq Fresh /\ Cardinality(keys) \in 1 .. MaxBatch /\ Enter(t, "create", keys, "get")
CreateSurfacesDmaBuf(t, k) == k \in Fresh /\ Enter(t, "import", {k}, "get")
CreateContext(t)           == Enter(t, "context", {}, "pools")
DestroySurfaces(t, keys)   == keys \subseteq Pool /\ Enter(t, "destroy", keys, "pools")

\* Guards and Arcs of the call go with its frame.  What if: one is forgotten.
KeepsPools(t) ==
    /\ Goto(t, "outside") /\ call' = [call EXCEPT ![t] = NoCall]
    /\ cuda' = [cuda EXCEPT ![t] = 0] /\ UNCHANGED locks
KeepsArc(t) ==
    /\ Goto(t, "outside") /\ call' = [call EXCEPT ![t] = NoCall]
    /\ pools' = IF pools = t THEN NoThread ELSE pools
    /\ UNCHANGED <<cuda, init_lock>>
Return(t) ==
    /\ Goto(t, "outside") /\ call' = [call EXCEPT ![t] = NoCall]
    /\ cuda' = [cuda EXCEPT ![t] = 0]
    /\ pools' = IF pools = t THEN NoThread ELSE pools
    /\ UNCHANGED init_lock

LockPools(t) ==
    /\ At(t, "pools") /\ pools = NoThread /\ pools' = t
    /\ Goto(t, IF call[t].entry = "context" THEN "get" ELSE "inside")
    /\ UNCHANGED <<call, cuda, init_lock, context, surfaces, imports, phase>>
---------------------------------------------------------------------------
(* CudaCtx::get_or_init.                                                   *)

\* Where the caller goes on.  vaCreateSurfaces2 without a context makes Stub
\* surfaces, vaCreateContext a context without a session.
RetriesGet(t) == CASE call[t].entry = "create"  -> "pools"  \* what if: retries
                   [] call[t].entry = "import"  -> IF ctx = 0 THEN "get" ELSE "bind"
                   [] call[t].entry = "context" -> "inside"
AfterGet(t) == CASE call[t].entry = "create"  -> "pools"
                 [] call[t].entry = "import"  -> "bind"
                 [] call[t].entry = "context" -> "inside"
Got(t, c) == cuda' = [cuda EXCEPT ![t] = c] /\ Goto(t, AfterGet(t))

GetFast(t) ==
    /\ At(t, "get") /\ ctx # 0 /\ Got(t, ctx)
    /\ UNCHANGED <<call, locks, context, surfaces, imports, phase>>

GetSlow(t) ==
    /\ At(t, "get") /\ ctx = 0 /\ Goto(t, "wait_init")
    /\ UNCHANGED <<call, cuda, locks, context, surfaces, imports, phase>>

LockInit(t) ==
    /\ At(t, "wait_init") /\ init_lock = NoThread /\ init_lock' = t /\ Goto(t, "init")
    /\ UNCHANGED <<call, cuda, pools, context, surfaces, imports, phase>>

\* What if: the second look is left out.
CreatesAlways == created' = created + 1 /\ ctx' = IF ctx = 0 THEN created + 1 ELSE ctx
CreateOnce    == IF ctx = 0 THEN created' = created + 1 /\ ctx' = created + 1
                            ELSE UNCHANGED context

InitContext(t) ==
    /\ At(t, "init") /\ init_lock' = NoThread
    /\ CreateOnce /\ Got(t, ctx')
    /\ UNCHANGED <<call, pools, surfaces, imports, phase>>

\* CudaContext::new fails: nothing is kept, a later call tries again.  An
\* import fails with it.
InitContextFails(t) ==
    /\ At(t, "init") /\ ctx = 0
    /\ IF call[t].entry = "import"
         THEN Goto(t, "outside") /\ call' = [call EXCEPT ![t] = NoCall]
         ELSE Goto(t, AfterGet(t)) /\ UNCHANGED call
    /\ init_lock' = NoThread
    /\ UNCHANGED <<cuda, pools, context, surfaces, imports, phase>>
---------------------------------------------------------------------------
(* vaCreateSurfaces2: Internal surfaces, or Stubs, one after the other.    *)

Insert(k, sort, arc) == /\ kind' = [kind EXCEPT ![k] = sort]
                        /\ cuda_ctx' = [cuda_ctx EXCEPT ![k] = arc]

\* What if: the record does not retain the context.
RecordForgets(t, k) == /\ allocs' = [allocs EXCEPT ![k] = cuda[t]]
                       /\ Insert(k, "internal", 0)
AllocateNv12(t, k)  == /\ allocs' = [allocs EXCEPT ![k] = cuda[t]]
                       /\ Insert(k, "internal", cuda[t])

InsertSurface(t, k) ==
    /\ At(t, "inside") /\ call[t].entry = "create" /\ k \in call[t].keys
    /\ call' = [call EXCEPT ![t].keys = @ \ {k}]
    /\ IF cuda[t] # 0 THEN AllocateNv12(t, k)
                      ELSE Insert(k, "stub", 0) /\ UNCHANGED allocs
    /\ UNCHANGED <<pc, cuda, locks, context, lost, imports, phase>>

\* bind_to_thread or cuMemAllocPitch_v2 fails: the surfaces before it stay in
\* the pool.
AllocateFails(t) ==
    /\ At(t, "inside") /\ call[t].entry = "create" /\ cuda[t] # 0 /\ call[t].keys # {}
    /\ Return(t) /\ UNCHANGED <<context, surfaces, imports, phase>>

\* CUDA allocates, with a pitch beyond 32 bits: the call fails in the same way,
\* and the pointer is dropped.
PitchTooWide(t, k) ==
    /\ At(t, "inside") /\ call[t].entry = "create" /\ cuda[t] # 0 /\ k \in call[t].keys
    /\ allocs' = [allocs EXCEPT ![k] = cuda[t]] /\ lost' = lost \cup {k}
    /\ Return(t) /\ UNCHANGED <<context, kind, cuda_ctx, imports, phase>>

\* The list is done; vaCreateContext has nothing more to do here.
Done(t) ==
    /\ At(t, "inside") /\ call[t].entry \in {"create", "context", "destroy"} /\ call[t].keys = {}
    /\ Return(t) /\ UNCHANGED <<context, surfaces, imports, phase>>
---------------------------------------------------------------------------
(* ExternalDmaBufImage::import.  Each step that fails undoes the ones      *)
(* before it, in the order of Drop and by the same actions.                *)

\* bind_to_thread or fcntl fails: nothing was taken.
DupFails(t) ==
    /\ At(t, "bind")
    /\ Return(t) /\ UNCHANGED <<context, surfaces, imports, phase>>

\* F_DUPFD takes the lowest number that is free.
DupFd(t, n) ==
    /\ At(t, "bind")
    /\ fds[n] = NoSurface /\ \A m \in 1 .. n - 1 : fds[m] # NoSurface
    /\ \E k \in call[t].keys :
         /\ fds' = [fds EXCEPT ![n] = k] /\ dup_fd' = [dup_fd EXCEPT ![k] = n]
         /\ call' = [call EXCEPT ![t].keys = {}, ![t].cur = k]
    /\ Goto(t, "import")
    /\ UNCHANGED <<cuda, locks, context, surfaces, ext_mem, mip, phase>>

ImportExternalMemory(t) ==
    /\ At(t, "import") /\ fds[dup_fd[Cur(t)]] # NoSurface
    /\ ext_mem' = ext_mem \cup {Cur(t)} /\ Goto(t, "map")
    /\ UNCHANGED <<call, cuda, locks, context, surfaces, mip, dup_fd, fds, phase>>

GetMappedMipmappedArray(t) ==
    /\ At(t, "map")
    /\ mip' = mip \cup {Cur(t)} /\ Goto(t, "level")
    /\ UNCHANGED <<call, cuda, locks, context, surfaces, ext_mem, dup_fd, fds, phase>>

GetLevel(t) ==
    /\ At(t, "level") /\ Goto(t, "pools")
    /\ UNCHANGED <<call, cuda, locks, context, surfaces, imports, phase>>

\* What if: a failing cuMipmappedArrayGetLevel skips the mipmap.
SkipsMip(label) == CASE label = "import" -> "close" [] OTHER -> "drop_ext"
UndoFrom(label) == CASE label = "import" -> "close"
                     [] label = "map"    -> "drop_ext"
                     [] label = "level"  -> "drop_mip"

ImportFails(t) ==
    /\ pc[t] \in {"import", "map", "level"} /\ Goto(t, UndoFrom(pc[t]))
    /\ UNCHANGED <<call, cuda, locks, context, surfaces, imports, phase>>

InsertImported(t) ==
    /\ At(t, "inside") /\ call[t].entry = "import"
    /\ Insert(Cur(t), "dmabuf", 0)
    /\ Return(t) /\ UNCHANGED <<context, allocs, lost, imports, phase>>
---------------------------------------------------------------------------
(* The drop of a SurfaceRec, and of the ExternalDmaBufImage in it.         *)

\* What if: the memory is not freed.
Leaks(k) == UNCHANGED allocs
Free(k)  == allocs' = [allocs EXCEPT ![k] = 0]

DropSurface(t, k) ==
    /\ Insert(k, "none", 0)
    /\ IF cuda_ctx[k] # 0 THEN Free(k) ELSE UNCHANGED allocs
    /\ Goto(t, IF kind[k] = "dmabuf" THEN "drop_mip" ELSE "inside")
    /\ call' = [call EXCEPT ![t].keys = @ \ {k},
                            ![t].cur = IF kind[k] = "dmabuf" THEN k ELSE NoSurface]
    /\ UNCHANGED <<cuda, locks, imports, context, lost, phase>>

\* vaDestroySurfaces: an ID whose surface is gone by now is skipped.
DestroySurface(t, k) ==
    /\ At(t, "inside") /\ call[t].entry = "destroy" /\ k \in call[t].keys \cap Pool
    /\ DropSurface(t, k)

SkipSurface(t, k) ==
    /\ At(t, "inside") /\ call[t].entry = "destroy" /\ k \in call[t].keys \ Pool
    /\ call' = [call EXCEPT ![t].keys = @ \ {k}]
    /\ UNCHANGED <<pc, cuda, locks, context, surfaces, imports, phase>>

DestroyMip(t) ==
    /\ At(t, "drop_mip")
    /\ mip' = mip \ {Cur(t)} /\ Goto(t, "drop_ext")
    /\ UNCHANGED <<call, cuda, locks, context, surfaces, ext_mem, dup_fd, fds, phase>>

\* CUDA owns the duplicate since the import and closes it with the memory.
DestroyExternalMemory(t) ==
    /\ At(t, "drop_ext")
    /\ ext_mem' = ext_mem \ {Cur(t)}
    /\ fds' = [fds EXCEPT ![dup_fd[Cur(t)]] = NoSurface]
    /\ Goto(t, "close")
    /\ UNCHANGED <<call, cuda, locks, context, surfaces, mip, dup_fd, phase>>

\* close(dup_fd) closes what the number means now; then a failed import
\* returns and a drop goes on with the next surface.
CloseFd(t) ==
    /\ At(t, "close")
    /\ fds' = [fds EXCEPT ![dup_fd[Cur(t)]] = NoSurface]
    /\ dup_fd' = [dup_fd EXCEPT ![Cur(t)] = NoFd]
    /\ IF call[t].entry = "import"
         THEN Return(t)
         ELSE /\ Goto(t, "inside") /\ call' = [call EXCEPT ![t].cur = NoSurface]
              /\ UNCHANGED <<cuda, locks>>
    /\ UNCHANGED <<context, surfaces, ext_mem, mip, phase>>
---------------------------------------------------------------------------
(* vaTerminate drops DriverState: `cuda` is declared before `pools`.       *)

Terminate(t) ==
    /\ \A u \in Threads : At(u, "outside")
    /\ phase = "running" /\ phase' = "terminating"
    /\ Goto(t, "inside") /\ call' = [call EXCEPT ![t].entry = "terminate"]
    /\ ctx' = 0 /\ fds' = [n \in Fds |-> IF fds[n] = Drm THEN NoSurface ELSE fds[n]]
    /\ UNCHANGED <<cuda, locks, created, surfaces, ext_mem, mip, dup_fd>>

DropPools(t, k) ==
    /\ At(t, "inside") /\ call[t].entry = "terminate" /\ k \in Pool
    /\ DropSurface(t, k)

Terminated(t) ==
    /\ At(t, "inside") /\ call[t].entry = "terminate" /\ Pool = {}
    /\ phase' = "terminated"
    /\ Return(t) /\ UNCHANGED <<context, surfaces, imports>>
---------------------------------------------------------------------------
GetOrInit(t) == \/ GetFast(t) \/ GetSlow(t) \/ InitContext(t) \/ InitContextFails(t)
Import(t) == \/ DupFails(t) \/ ImportExternalMemory(t) \/ GetMappedMipmappedArray(t)
             \/ GetLevel(t) \/ ImportFails(t) \/ InsertImported(t)
             \/ \E n \in Fds : DupFd(t, n)
Inside(t) == \/ GetOrInit(t) \/ Import(t)
             \/ AllocateFails(t) \/ Done(t) \/ Terminated(t)
             \/ DestroyMip(t) \/ DestroyExternalMemory(t) \/ CloseFd(t)
             \/ \E k \in Surfaces : \/ InsertSurface(t, k) \/ PitchTooWide(t, k)
                                    \/ DestroySurface(t, k) \/ SkipSurface(t, k)
                                    \/ DropPools(t, k)

Next == \E t \in Threads :
    \/ CreateContext(t) \/ Terminate(t)
    \/ \E keys \in SUBSET Surfaces : CreateSurfaces(t, keys) \/ DestroySurfaces(t, keys)
    \/ \E k \in Surfaces : CreateSurfacesDmaBuf(t, k)
    \/ LockPools(t) \/ LockInit(t) \/ Inside(t)

\* A thread inside the driver runs, and parking_lot hands a contended lock to
\* a waiter at least every half a millisecond.
Fairness == \A t \in Threads :
    WF_vars(Inside(t)) /\ SF_vars(LockPools(t)) /\ SF_vars(LockInit(t))

Spec == Init /\ [][Next]_vars /\ Fairness
---------------------------------------------------------------------------
(* Properties. *)

Labels == {"outside", "get", "wait_init", "init", "pools", "inside", "bind", "import",
           "map", "level", "drop_mip", "drop_ext", "close"}

\* The calls that are between taking `pools` and giving it back.
HoldsPools(t) ==
    \/ At(t, "inside") /\ call[t].entry # "terminate"
    \/ pc[t] \in {"drop_mip", "drop_ext", "close"} /\ call[t].entry = "destroy"
    \/ pc[t] \in {"get", "wait_init", "init"} /\ call[t].entry = "context"

\* Types, and that the locks are held by exactly the calls that took them.
TypeOK ==
    /\ \A t \in Threads : (pools = t <=> HoldsPools(t)) /\ (init_lock = t <=> At(t, "init"))
    /\ pc \in [Threads -> Labels]
    /\ \A t \in Threads :
         /\ call[t].entry \in {"none", "create", "import", "context", "destroy", "terminate"}
         /\ call[t].keys \subseteq Surfaces /\ call[t].cur \in Surfaces \cup {NoSurface}
    /\ created \in Nat /\ ctx \in 0 .. created /\ cuda \in [Threads -> 0 .. created]
    /\ pools \in Threads \cup {NoThread} /\ init_lock \in Threads \cup {NoThread}
    /\ kind \in [Surfaces -> {"none", "stub", "internal", "dmabuf"}]
    /\ cuda_ctx \in [Surfaces -> 0 .. created] /\ allocs \in [Surfaces -> 0 .. created]
    /\ lost \subseteq Surfaces
    /\ ext_mem \subseteq Surfaces /\ mip \subseteq Surfaces
    /\ dup_fd \in [Surfaces -> Fds \cup {NoFd}]
    /\ fds \in [Fds -> Surfaces \cup {NoSurface, Drm}]
    /\ phase \in {"running", "terminating", "terminated"}

\* "Serialises the racing initialisation attempts so we do not leak a second
\* cuCtxCreate result": however threads race, at most one is ever created.
OneContext == created <= 1

\* "reversing it crashes the CUDA driver because the mipmap holds a live
\* reference to the external memory": no mipmapped array outlives its memory,
\* on no path of a failing import, of Drop or of vaTerminate.
MipHasMemory == mip \subseteq ext_mem

\* Surfaces an import in progress, or the drop of one, will take care of.
InHand == {call[t].cur : t \in Threads}

\* Whichever step failed, what exists in CUDA belongs to somebody: an import to
\* a surface of the pool or to the thread that still works on it, an allocation
\* to a surface.  One path breaks this and no other does: an allocation whose
\* pitch is too wide for a u32 belongs to nobody.
NothingLost ==
    /\ \A k \in Surfaces : allocs[k] # 0 <=> kind[k] = "internal" \/ k \in lost
    /\ ext_mem \cup {k \in Surfaces : dup_fd[k] # NoFd}
         \subseteq {k \in Surfaces : kind[k] = "dmabuf"} \cup InHand
    /\ {k \in Surfaces : kind[k] = "dmabuf"} \subseteq mip

\* cuMemFree targets a context that still exists: the context of a surface's
\* allocation is held by CudaCtx, a running call or a surface until the memory is gone, also
\* at vaTerminate, where CudaCtx goes first.
Alive(c) == ctx = c \/ (\E t \in Threads : cuda[t] = c) \/ (\E k \in Surfaces : cuda_ctx[k] = c)
MemoryInLiveContext == \A k \in Pool : allocs[k] # 0 => Alive(allocs[k])

\* vaTerminate gives back whatever the calls before it left: surfaces of a
\* vaCreateSurfaces2 that failed half-way, the context, the drm descriptor.
\* What allocate_nv12 forgot it does not know of.
TerminateReleasesAll ==
    phase = "terminated" =>
        /\ ext_mem = {} /\ \A k \in Surfaces \ lost : allocs[k] = 0
        /\ ~ \E c \in 1 .. created : Alive(c)
        /\ \A n \in Fds : fds[n] = NoSurface

\* Threads inside the driver are never all waiting: who waits for `init_lock`
\* waits for a thread that waits for nothing, and who waits for `pools` for one
\* that waits for `init_lock` at most.
Waits(t) == \/ At(t, "pools") /\ pools # NoThread
            \/ At(t, "wait_init") /\ init_lock # NoThread
NoDeadlock ==
    (\E t \in Threads : ~At(t, "outside")) => \E t \in Threads : ~At(t, "outside") /\ ~Waits(t)

\* How many steps a call can still take at most: four for every surface it has
\* to create or destroy, and those of its own course.
Ranks == [outside |-> 0, inside |-> 1, close |-> 2, drop_ext |-> 3, drop_mip |-> 4,
          level |-> 5, map |-> 6, import |-> 7, bind |-> 8, init |-> 9, wait_init |-> 10,
          get |-> 11]
Rank(t) == IF At(t, "pools") THEN (IF call[t].entry = "context" THEN 12 ELSE 2) ELSE Ranks[pc[t]]
Todo(t) == IF call[t].entry = "terminate" THEN Pool ELSE call[t].keys
StepsLeft(t) == 4 * Cardinality(Todo(t)) + Rank(t)

\* No call goes round in circles: each step of a thread leaves its call with
\* less to do, on the paths that undo a failed import or tear the pool down as
\* on the others, and no step of another thread leaves it with more.
CallBounded ==
    [][\A t \in Threads : ~At(t, "outside") =>
          StepsLeft(t)' < StepsLeft(t) \/ UNCHANGED <<pc[t], call[t], StepsLeft(t)>>]_vars

\* Every call returns: no thread waits for ever for `pools` or `init_lock`.
CallsReturn == \A t \in Threads : ~At(t, "outside") ~> At(t, "outside")

\* "dup_fd >= 0 is an fd we own and close in Drop AFTER CUDA teardown": the
\* number the driver closes is still the duplicate it made.
ClosesOwnFd == \A t \in Threads : At(t, "close") => fds[dup_fd[Cur(t)]] = Cur(t)
===========================================================================
