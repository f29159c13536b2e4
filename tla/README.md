# Verification of the NVENC VA-API driver

`nvenc-vaapi-driver` is a libva driver in Rust: it takes VA-API encode calls and
turns them into NVENC calls on CUDA memory. This directory holds TLA+ modules of
its logic, TLC configurations that check them on small instances, and TLAPS
proofs about every module. Line numbers refer to `src/src/...`; `map` in
`PROJECT.json` names the lines behind every definition.

Run a check with `tlc -config <file>.cfg <Module>`, the proofs with
`tlapm <Module>.tla` for each module whose name ends in `Proofs`.

## 1. The system

### Components

| Component | State it keeps | Operations | What makes it correct |
|---|---|---|---|
| encode session, `nvenc/session.rs` | a round-robin pool of bitstream slots (Free or Pending with a mapped input), `next_slot`, the FIFO `pending_outputs`, the `registered` table | new, register, unregister, encode_frame, reconfigure, Drop | every accepted frame is kept once and returned once; its input stays mapped until its output is read; no buffer is reused while NVENC owes output into it; a call waits for NVENC in the lock after SUCCESS and nowhere else; teardown leaves nothing; backlog bounded; output in order |
| pictures, `driver/picture.rs` | per context: `current_target`, the accumulator `PendingFrame` | begin, render, end | a parameter counts for one vaEndPicture; bytes reach the buffer named for the picture |
| surfaces, `driver/surface.rs`, `state.rs` | pool of surfaces, CUDA memory or an imported DMA-BUF, `registered_nvenc` | create, import, destroy | NVENC never keeps a registration of released memory; every live surface can be encoded; no memory is lost when a creation fails half-way |
| contexts, `driver/context.rs` | pool of contexts, each with its session | create, destroy | registrations follow the render targets; destruction tears the session down |
| buffers, `driver/buffer.rs` | pool of buffers; each generic buffer has a lock of its own, each coded one a segment and `coded_ready` | create, map, unmap, destroy | the lock map leaves behind is released by unmap and blocks nobody else; a mapped segment stays put |
| images, `driver/image.rs` | pool of images, each with a backing buffer and maybe a surface | create, derive, put, destroy | record and buffer go together; an upload goes to the surface the image came from, inside its memory, plane by plane |
| IDs, `ids.rs` | slot maps of all five pools | id to key, key to id | the ID of a live object names it; a kept key never names another object |
| driver state, `lib.rs`, `driver/mod.rs`, `state.rs` | all pools behind one lock | init, terminate, `guard` | one call at a time inside; drop order at terminate |
| CUDA context, `cuda/mod.rs` | a lazily set context | get_or_init | created once, whoever races; alive as long as memory in it is |
| DMA-BUF import, `cuda/external_mem.rs` | fd, external memory, mipmap | import, Drop | a failed import releases exactly what it took, in order; a descriptor is closed once |
| parameters, `nvenc/preset.rs`, `h264_config.rs`, `h264/mod.rs`, the configuration of a session | the session's `config` | parse_sps, build_cfg_from_sps, choose, apply_config, reconfigure | NVENC is never given a zero; the driver's configuration is the encoder's; a replay resets nothing |
| stubs and tables: `config.rs`, `sync.rs`, `export.rs`, `display_attr.rs`, `error.rs`, `logging.rs` | none (a pool of configs) | queries | - |

### How they interact

A client thread enters through the vtable; `guard` turns errors and panics into
a status. Nearly every entry point takes `DriverState::pools` first and keeps it
to the end, so two entry points do not interleave. The exceptions are what is
hard here:

* **The hardware runs on its own.** NVENC may answer a submission with
  `NEED_MORE_INPUT` and finish the frame at any later time, between any two
  NVENC calls of one `encode_frame`, or never (a frame buffered across a
  `reconfigure`).
* **`vaMapBuffer` leaves a lock behind.** The guard of a generic buffer's bytes
  is forgotten and `vaUnmapBuffer` force-unlocks it; meanwhile other threads
  come and go, and a thread that waits for that lock would wait with `pools`.
* **`vaDeriveImage` takes `pools` twice**, with a gap between.
* **State outlives calls**: `current_target` across `vaDestroySurfaces`,
  `registered_nvenc` across contexts, the accumulator across failing or
  abandoned pictures, a coded buffer's segment across deferred frames, 32-bit
  IDs across slot reuse.
* **Two locks meet.** `CudaCtx::init_lock` is asked for with `pools` held by
  `vaCreateContext`, and without it by the calls that create surfaces. A
  DMA-BUF import makes all its CUDA calls without `pools`, so imports run beside
  anything else.
* **Partial failure**: creation with roll-back, a lock error after a submission,
  a parameter list or a list of surfaces that fails half-way, a reconfigure that
  is refused.
* **Drop order** when `vaTerminate` drops everything at once: the CUDA context
  before the pools, surfaces before contexts.

`hazards` in `PROJECT.json` lists these at their lines, with the properties
aimed at each.

## 2. The modules

| Module | Models | State and actions |
|---|---|---|
| `NvencSession` | `nvenc/session.rs` and the hardware behind it | `pool`, `next_slot`, `pending_outputs`, `registered` are the fields of the struct; `buffers`, `mapped`, `queue`, `done` are NVENC's side. `pc`, `target`, `cursor`, `current`, `ret` are the locals of the call in progress. One action per NVENC call and per early return, with what the code does until the next; `HwComplete` between any two. After SUCCESS the call is in phase `lock` until NVENC has the output |
| `EncoderPort` | what a session promises its caller | `held`: frames accepted and not yet returned. Call, Accept, Lose, Deliver, Defer, Refuse, Reset |
| `SessionCalls` | a session as the modules above it take it: a whole `encode_frame` in one step | `registered`, `held`, and `deferred`, the held frames whose input is still mapped. Register, Unregister, Begin, Retire (NVENC is done with a deferred frame), Refuse, EncodeBytes, EncodePending, Close |
| `NvencSessionHistory` | `NvencSession` and the order of acceptance | a history variable; no behaviour of its own |
| `SurfaceLifetime` | surfaces, contexts, registrations, terminate | one action per entry point (they hold `pools`); of a session only its table and its deferred inputs; the drops of terminate are steps of their own, in field order |
| `GpuMemory` | CUDA context, DMA-BUF import, creation and destruction of surfaces, terminate, as several threads run them | one step per CUDA call, per lock and per surface of a list; `fds` is the process's descriptor table, `ctx`, `cuda` and `cuda_ctx` are the holders of an `Arc` of the context |
| `EncoderParams` | the pure functions between sequence parameters and NVENC's structures | operators with the names of the functions |
| `PictureFlow` | one context's pictures, its coded buffers and the session's configuration | one action per entry point, one per buffer inside `vaRenderPicture`, which keeps what it applied when a later buffer fails; the session is the one of `EncoderPort`, a whole `encode_frame` in one step, with `config` on the driver's side and `encoder` on NVENC's; `vaDestroyConfig` at any time |
| `MappedBuffers` | threads, the `pools` lock, the locks of buffers, images | a call is: call, take the lock, one step inside (more where a callback runs or the lock is released), return |
| `ImageUpload` | the memory of images and of Internal surfaces, and the two copies of an upload | `images` and `surfaces` are the records, `buffers` the backing buffers that are left, `told` the images whose `VAImage` reached the client, `copied` the `cuMemcpy2D` calls of the last step; numbers have the widths of the code |
| `IdPool` | `ids.rs` over slotmap | slots, versions, the free list; IDs the client remembers, keys the driver's records keep |
| `ObjectNames` | what a pool promises to those who name its objects | `live` objects, the IDs `issued` for them, the objects records `kept`; no slot, version or key. Insert, Destroy and Keep by ID, DestroyKept by record, Forget |
| `MCSurfaceLifetime`, `MCPictureFlow`, `MCIdPool`, `MCGpuMemory`, `MCImageUpload` | - | symmetry sets and parameter values for TLC |
| `*Proofs` | theorems about the module of the same name (`NvencSessionPortProofs`: that it implements `EncoderPort` and `SessionCalls`) | - |

They compose at these seams. `PictureFlow` and `SurfaceLifetime` take a whole
`encode_frame` as one step, each with its own part of it: `PictureFlow` the
frames held and the answers, `SurfaceLifetime` the registrations and the inputs
still mapped, with the drain as an arbitrary subset. `SessionCalls` is both parts
together, and `NvencSession`, where a call is many steps with NVENC's between
them, implements it: a frame that was accepted counts when its call answers, and
each frame the drain finds done is a `Retire` before that. `EncoderPort` is the
same session seen inside a call, where it says when frames may be lost. `GpuMemory` has what `SurfaceLifetime` takes as one step: where the
memory of a surface comes from and goes to, thread by thread; of contexts it
keeps only that their creation asks for the CUDA context. `PictureFlow` EXTENDS
`EncoderParams`. `ImageUpload` has what `MappedBuffers` takes as one step, the
upload, without its threads. `MappedBuffers` and `PictureFlow` name objects by their keys; `IdPool` says what
the IDs in between do, and implements `ObjectNames`, which says why keys are
enough: a record finds its own object or none, and a live object's ID is its own.

A definition introduced by a comment `what if` is not part of the model: it is
the definition below it with a plausible slip (a slot not freed, a table not
cleared, a version not compared). Putting it in that definition's place breaks a
property of the run, which shows that the property depends on that line of code
(`mutants` in `PROJECT.json` pairs them).

### Abstractions

* A frame is `[key, id]`: the surface it is from and a token. Tokens are
  reusable once nobody holds the frame, so that runs are finite and nothing
  depends on a counter. Bitstreams are the frames they encode.
* NVENC encodes in submission order. SUCCESS means that it has taken the frame
  and that a lock of its output returns: the code then makes
  `NvEncLockBitstream` without `doNotWait` (`session.rs:426`, 687-693), which
  waits until NVENC has completed this frame and all before it, as `LockOutput`
  does. An error other than `LOCK_BUSY` on a lock means NVENC gave the frame up.
  The code takes both for granted.
* Pixels are not in the models. In `NvencSession` `reconfigure` is its effect on
  frames in flight, in `PictureFlow` its effect on the two configurations.
  `EncoderParams` keeps the fields that depend on what the client sends; the
  fields of NVENC's structures that are constants, or come from its preset
  untouched, are left out. Numbers are unbounded there: `FrameRateFits` proves
  that the one clamp to 32 bits never acts.
* A CUDA context is a number, an allocation the number of its context, an import
  what exists of its chain. A session also holds an `Arc` of the context;
  `GpuMemory` leaves it out, which makes `MemoryInLiveContext` harder to keep
  and not easier. CUDA closes a descriptor it took over when the memory is
  destroyed, which is what `external_mem.rs:11-14` says of it. Descriptors are
  handed out lowest first, as `fcntl` does, and only the driver opens any.
* In `ImageUpload` a u16 has `U16` values and a u32 the square of that, so that
  TLC can reach what does not fit. The pitch is CUDA's choice: at least the width,
  and at most 2^16 for a width below it, since an alignment is a power of two.
  The address a surface starts at is 0, so the `checked_add` on it is not there.
  Allocating the bytes may fail, which is a call without effect.
* `packed_headers` (legacy), `last_coded`, and the packed header bytes, which
  the code collects and does not use, are left out or kept as labels only.
* The client of `MappedBuffers` and `PictureFlow` keeps the libva contract
  `buffer.rs` quotes: no other call on a buffer between map and unmap. The
  client of `PictureFlow` names a coded buffer for every picture it ends. The
  client of `IdPool` passes stale IDs as it likes. The client of `GpuMemory`
  calls `vaTerminate` when no other call is in progress.
* The client of `PictureFlow` may abandon a picture and begin the next over it.
  It renders picture parameters once per picture, and if it abandoned some it
  renders them again before it ends one (`MayEnd`); section 5 says what happens
  otherwise. It destroys or maps no buffer it named for the picture in progress.
* Left out of `vaEndPicture`: the error if the segment's length exceeds a u32
  (`picture.rs:378-379`). A bitstream's size is a u32 in NVENC, and nothing is put
  in front of it, since `client_drives_headers` is the constant false (311).

## 3. The runs

| Run | Instance | Distinct states | Shows |
|---|---|---|---|
| `session_streaming` | 3 slots, 1 surface, 4 frame tokens, no lock errors, streaming fairness | 25,494 | `BacklogBounded`, `CleanTeardown`, `FramesComeOut` |
| `session_faults` | 2 slots, 1 surface, 4 tokens, lock errors and orphaned frames, call fairness only | 24,260 | `ExactlyOnce`, `MappedUntilUnlocked`, `OwedBuffersPending`, `OnlyFailedLockLeaks`, `ImplementsPort` and `ImplementsCalls` (refinements of `EncoderPort` and `SessionCalls`), `CallBounded`, `CallsReturn` |
| `surface_lifetime` | 3 surfaces, 2 contexts | 121,568 | `DmaBufUnregisteredFirst`, `DestroyedDmaBufNotSubmitted`, `InternalNeverInvalid` |
| `picture_strict` | 3 pictures, 2 coded buffers, 1 frame held back, 2 sequence parameter sets and a malformed one | 500,121 | `UsedByOneEnd`, `BytesToNamedBuffer`, `MappedSegmentStable`; `ConfigMatchesEncoder`, `NonZeroParams`, `ReplayedSpsResetsNothing` |
| `gpu_memory` | 2 threads, 2 surfaces, 3 descriptors, lists of 2 | 28,567 | `OneContext`, `MipHasMemory`, `NothingLost`, `MemoryInLiveContext`, `TerminateReleasesAll`, `NoDeadlock`, `CallBounded`, `CallsReturn` |
| `buffers_locks` | 2 threads, 2 buffers, 2 surfaces | 174,348 | `NeverWaitsHoldingPools`, `UnlocksHeldLock`, `CallsReturn`; deadlock freedom |
| `ids_live` | 2 slots, versions to 5, 4 objects | 14,574 | `LiveIdResolves`, `KeptKeyNeverAliases`, `ImplementsNames` (refinement of `ObjectNames`) |

Five more runs look for a behaviour the repository's own words rule out, and find
it (section 5).

`ImageUpload` is there for its theorems (section 4) and is in no run of the list; TLC
agrees with them on a small instance, `tlc -config Images_upload.cfg MCImageUpload`
(5,232 states). It has 2 surfaces, one of them to put the image on instead of its own,
and 1 image; sizes odd and even, just inside and just outside a u16 of 16 values, one
whose planes exceed a u32 although both sizes fit (15 x 15), one that exceeds usize,
and a width of 0, which a surface without memory may have.

### Why the bounds are enough

* **Slots.** Three is the smallest pool where Free and Pending slots alternate
  in every cyclic arrangement and `next_slot` can stand before, between and
  after Pending slots; two already shows everything faults do. The code's
  `POOL_SIZE` is 6; the theorems hold for every size.
* **Frames.** The backlog is at most the pool and one more; four tokens cover it
  for three slots, and for two slots leave one for a mapping leaked by a lock
  error. Each leaked mapping takes a token away, which is also what bounds the
  run.
* **Surfaces and contexts.** The properties relate one surface to two sessions
  (registered with one, used with the other); the third surface separates
  Internal, DMA-BUF and a second of either kind. Keys are not reused, as slotmap
  guarantees within 2^31 reuses of a slot.
* **Pictures.** One being built, with what an abandoned one left, one that was
  deferred, and one whose bytes a buffer still has: three labels. Of the sequence
  parameters one set gives every field and the other leaves half of them 0 and
  has a timebase slower than a frame a second; alternating them, failing and
  replaying either, with a profile that changes once when the VAConfig goes,
  reaches every way `Wanted` and `config` can differ. Sizes are 0 or 64.
* **Memory.** One thread imports while the other creates a list, destroys or
  terminates; two surfaces are one list, or one import beside another; three
  descriptors are two imports and the drm node's. `MaxFd`, `MaxBatch` and the
  tokens are the bounds; a full table makes `fcntl` fail.
* **Threads.** One waits and one runs; a third adds only more waiting. Two
  buffers let a thread hold a map of one while others work on the second.
* **IDs.** Two slots give a free list with an order; version 5 is two reuses of
  each slot. `MaxVersion` and `MaxSlots` are bounds in the guard of `Insert`.
  `CHECK_DEADLOCK FALSE` is set there because the bounds stop the run, and in
  `SurfaceLifetime` and `GpuMemory` because a terminated driver stops.

### Fairness

* `CallFairness`: the thread inside `new` or `encode_frame` takes its next step.
  No step waits for another thread, since the caller holds the context's session
  lock, and every NVENC call returns but one, the blocking lock after SUCCESS,
  which has no step to take before NVENC completes the frame. `CallsReturn`
  therefore has two parts. With this fairness alone, whatever the hardware does, a
  call returns or gets to that lock: the drain and the probe of phases 1 and 3 wait
  for nothing. If NVENC moreover goes on completing what it has queued
  (`WF_vars(HwComplete)`, stated in the property), every call returns, although
  frames orphaned by a reconfigure never complete. What SUCCESS is worth is the
  hardware's to keep, and the code has no way out if it does not.
* `StreamingSpec` adds a client that keeps a surface registered and keeps
  calling, hardware that finishes what it accepted, and that a map and a
  submission succeed again and again if tried again and again. `FramesComeOut`
  is meaningful only for such a client, because outputs are fetched by later
  calls and nothing else.
* `MappedBuffers`: a thread inside a call runs (WF), and a thread waiting for
  `pools` gets it if it is free again and again (SF): `parking_lot` mutexes are
  eventually fair. Nothing is assumed of a thread waiting for a buffer's lock.
* `GpuMemory`: the same, with SF for `init_lock` too. CUDA calls return; which of
  them fail is free.

## 4. The proofs

Every invariant and action property of the passing runs is also a theorem, for
every value of the constants. A theorem of invariance is proved from an
inductive invariant `Inv`, one lemma per action; the type invariant is part of
it or follows.

**The session** (`NvencSessionProofs`), for every `PoolSize > 0`, every set of
surfaces and tokens, and either value of the fault switches:

* `TypeCorrect`, then `BacklogIsBounded`, inductive given the types: a slot freed
  is a frame more in the FIFO, a slot filled was free, and the pop that ends a
  call takes the extra frame of that call. The arithmetic is in `FreeingASlot`
  and `FillingASlot`, about the cardinality of the Pending slots.
* `FramesAreKeptOnce` and `DeferredInputsStayMapped`. Neither is inductive alone:
  unmapping the input of one frame keeps every other Pending input mapped only
  because no two slots hold the same frame, and a newly mapped frame is in no
  slot only because of the guard of `MapInput`. `Places` is their strengthening,
  element by element, with the frame being submitted and the emptiness of a
  closed session.
* `OwedBuffersStayPending`, inductive given the types. The delicate step is a
  lock error, which takes a slot out of the middle of the encode queue:
  `WithdrawnProperties` says the slot is gone from it, because it was there
  once, and that the others stay in order.
* `OneLeak`: an input is *astray* if NVENC has it mapped and neither a Pending slot
  nor the frame being submitted accounts for it. `AstrayNext` goes through the
  steps: only the failing lock after SUCCESS leaves one, its own. With lock errors
  the balance of map and unmap is false, and this is by how much.
* `TeardownFreesTheRest`: `Created` says what a session in creation and a closed
  one own, with lock errors too.
* `MapsAreBalanced` and `TeardownIsClean`, assuming `~LockMayFail`: then nothing is
  ever astray (`NothingUnaccounted`), so both follow from the two before.
* `CallsAreBounded` and `CallsNeverStuck`, what `CallsReturn` needs besides fairness:
  a call takes at most `PoolSize + 5` steps, and in each of its states one is open
  to it, of its own and not of NVENC, except in the lock after SUCCESS. There NVENC
  has the output or the frame in its queue, so a completion is all the call can
  wait for. A call that submits needs a Free slot that `find_free_slot` finds
  (`SubmitsToFree`, `LeastExists`).

**The refinements** (`NvencSessionPortProofs`). `SessionImplementsPort`,
`Spec => Port!Spec`: `Port!Accept` and `Port!Defer` want at most `Capacity` frames
held, which `HeldCount` derives from `BacklogBounded`; `Port!Lose` and
`Port!Deliver` want exactly one frame to leave, which holds because by `Places` no
frame is in two places; and `Port!Defer` wants the frame of the call in progress
to be still held, the invariant `CurrentHeld`, proved together with the step.
`SessionImplementsCalls`, `Spec => Calls!Spec`, hides the frame of the call in
progress until the call answers. Its answer is then a step that accepts and
returns at once, for which the frame's surface has to be registered still
(`CurrentRegistered`), and "pending" has to mean that no bytes wait and that there
was room for the frame, counted by `CallsCardinality`.

**Parameters** (first part of `PictureFlowProofs`): `FrameRateFits` and `FrameRateZero` (when
the truncated frame rate fits 32 bits, when it is 0), `MergeKeepsNonZero`,
`MergeIdempotent`, and `OneChoice`: whatever context is created, the preset and
tuning are the same, because they are chosen before any sequence parameter is
seen. These are about values and have no run of their own.

**Pictures** (`PictureFlowProofs`). What NVENC is configured with holds for every
client: `ConfigInv` says that the encoder has what `config` asks for and that no
field of it is 0 (`ConfigIsEncoders`, `ParamsNonZero`); `ReplayInv` that the
parameters in force are already merged in, so that by `MergeIdempotent` a replay
wants what is there (`ReplayResetsNothing`). `PictureInv` says that everything
accumulated was rendered since the last `vaEndPicture`, in one picture or in
abandoned ones before it, and that once the picture is described, or nothing of
an abandoned one's description is left, the buffer that is found is one the
client named since its last `vaBeginPicture` (`ParametersUsedOnce`,
`BytesGoToNamed`, `SegmentsStable`).
`ReadyWithoutDelay`, assuming `Capacity = 0`, is where `MappedIsReady` of section 5
holds: with an encoder that holds nothing back.

**GPU memory** (`GpuMemoryProofs`), any number of threads, surfaces, descriptors.
`Inv` has seven parts: which calls are where (`FlowInv`), who has which lock
(`LockInv`), that an allocation's context is the one its surface retains
(`ContextInv`), what exists of an import at each step of its thread, no surface
being in two hands (`ImportInv`), that a descriptor of an import is the one its
surface remembers (`FdInv`), and what terminate leaves (`PhaseInv`). `LostInv`
follows the allocations that `surface.rs:156` drops, which no surface and no call has
a name for, and `ContextInv` accounts for every other (`Account`). `OneContext`
and `MemoryInLiveContext` come from `ContextInv`, `MipHasMemory` and `NothingLost`
from it and `ImportInv`, `TerminateReleasesAll` from all of them. `FdInv` is only one way:
after the double close of section 5 a surface may remember a number that is no
longer its own, never the reverse.

`NobodyDeadlocks`: who waits for `init_lock` holds `pools` or nothing, who has
`init_lock` waits for nothing, and `LockInv` says who those are. `CallsAreBounded`
counts, for every call, four steps for each surface left on its list and the steps
of its own course; the paths that undo an import go down the same count.
`SerialFdsKept` is about the descriptor closed twice (section 5): if calls never
overlap, `OwnFd`, the number of a duplicate is its own until it is closed the first
time and nobody's after, so the second close hits nothing.

**Locks** (`MappedBuffersProofs`). The contract of the client comes to: a buffer
is locked exactly while it is mapped, one call at a time names it, and only an
unmap names it while it is mapped. `NoWaitInside` and `UnlocksMapped` follow, and
`NobodyDeadlocks`: who holds `pools` never waits. `CallsAreBounded` counts the steps
of a call.

**Images** (`ImageUploadProofs`). `ImageInv` says that an image has the numbers
`alloc_host_image` gave it and that what the client was told of passed both
conversions to u16; `CopyInv` that the copies are those of one image and one
surface of its size. From the first, the pitch is at most 2^16 and the height
below it, so their product fits 32 bits and the UV offset was not cut
(`OffsetNotCut`): the check that fails last protects a number computed first. Then
`EndBound` places the end of every plane (`PlanesAreApart`, `CopiesInside`). The
assumptions are those on the constants, `SizeAssumption` and `NullAssumption`.

**Surfaces** (`SurfaceLifetimeProofs`). `UnregisteredFirst` is inductive with the
types, among them that closed sessions have empty tables; `DestroyedNotSubmitted`
and `InternalEncodable` are action properties from the same invariant and
`LastInv`, that terminate leaves no call behind. Two theorems say for which clients
the refuted properties of section 5 hold. `OneContextEncodable`: with an owner for
every DMA-BUF surface, the one context it is used with, a set `OnceLock` means that
the owner has the surface in its table or is gone (`CacheTrue`). `TidyTerminates`: if
`vaTerminate` finds no DMA-BUF surface or no open session, nothing is registered
when memory goes.

**IDs** (`IdPoolProofs`). `EntryInv` says that a kept key is no newer than its slot
and as new as an occupied slot only if the object there is its own; `SlotInv` has
the parity of versions, `FreeInv` that the free list is the vacant slots, each
once, without which a popped slot might be occupied. `PoolImplementsNames`,
`Spec => Names!Spec`: what a lookup finds is the object the abstract step may name
(`FoundIsNamed`), and a removal takes that object and no other from `Live`
(`RemoveIs`), for which two kept keys that are equal must be of one object
(`KeptKeyInv`).

The assumptions are the named ones on the constants, and those stated at a
theorem: those on the constants say that the null values are no members, that the
bounds are numbers, and in `GpuMemory` that surfaces are finitely many, as their
32-bit IDs are. Sequences and finite sets are handled with the library's theorems.

Model-checked only: liveness (`FramesComeOut`, the three `CallsReturn`), which the
prover cannot do under fairness. For the calls the safety half is proved: they are
bounded, and somebody can always go on. What is left to TLC is that a thread that
can go on does, and that a lock comes round to each of its waiters. `FramesComeOut`
has no such half: it speaks of calls to come. There are no recursive definitions.

## 5. Where code and documents disagree

With a run that shows it:

1. **Output order** (`session_order`). `oldest_pending_slot` finds the newest
   Pending slot and the drain goes by index, so frames can come out in another
   order than submitted; `session.rs:99-101` says they cannot.
2. **DMA-BUF surfaces and a second context** (`surface_reregister`). The cached
   registration is per surface, registrations are per session; another context,
   or the same one re-created, gets `InvalidSurface` for a live surface. A surface
   used with one context only never does (`OneContextEncodable`).
3. **Terminate** (`surface_terminate`). Surfaces are dropped before contexts, so
   memory NVENC still has registered is released, the order `state.rs:51-54`
   warns of. A client that destroyed one or the other before is not concerned
   (`TidyTerminates`).
4. **Deferred frames** (`picture_stale`). `coded_ready` is set to false and never
   read: the client maps the bytes of an earlier picture, not an empty buffer. It
   takes an encoder that defers frames (`ReadyWithoutDelay`).
5. **Descriptor of an import** (`import_close`). The one duplicate is CUDA's after
   the import and goes with the memory; `Drop` and two roll-backs close the number
   again, when it is nobody's or somebody else's. `external_mem.rs:11-14` and 42
   say the driver keeps a copy of its own. It takes two calls at once, or somebody
   else in the process who opens a file (`SerialFdsKept`).

Seen while modelling, without a run:

* Abandoned pictures: `vaBeginPicture` clears only the legacy header list, not
  `PendingFrame` (`picture.rs:45`); `picture.rs:5-6` and `ARCHITECTURE.md:211-212`,
  293-295 say it does. What was rendered for a picture that was begun and not
  ended counts for the next, with which it shares its label in `PictureFlow`;
  `UsedByOneEnd` says that it goes no further. A client that then renders a coded
  buffer but no picture parameters has its bytes written to the coded buffer of
  the abandoned picture, if that still exists, even if the client has it mapped:
  without the last line of `MayEnd` TLC finds `BytesToNamedBuffer` and
  `MappedSegmentStable` broken.
* `allocate_nv12` forgets an allocation: if the pitch CUDA chose exceeds a u32 the
  conversion at `surface.rs:156` returns after `cuMemAllocPitch_v2` succeeded, and
  no surface owns the memory, and no call frees it, `vaTerminate` included; only CUDA's
  own teardown of the context can. The code puts no limit
  on the width; CUDA's largest pitch may refuse such a surface first, which the code
  does not ask. `GpuMemory` has the path (`PitchTooWide`) and remembers what it loses;
  `NothingLost` and `TerminateReleasesAll` say that nothing else is.
* `data_size` of a `VAImage` is cut to 32 bits (`image.rs:338`), so for two sizes that
  fit a `VAImage` it may be shorter than the planes (60000 x 60000); the comment at
  `image.rs:477` takes it for their end. The buffer has all the bytes. Checked as an
  invariant with `Images_upload.cfg`, `DataSizeCovers` is broken by a 15 x 15 image.
* Stale IDs: an ID keeps the slot index and drops the version (`ids.rs:40`), so the
  ID of a destroyed object names the slot's next object; `ids.rs:6-8`, 35-36,
  `ARCHITECTURE.md:480-481` and `CHANGELOG.md:48` say the lookup fails.
* Preset and tuning are chosen in `new` from the default 5 Mbps at 60 frames and
  never again, so the rows of `preset.rs:10-15` for other rates are not reached
  (`OneChoice`); the second row says `fps <= 30`, which `choose` does not ask.
  `repeat_sps_pps` is never switched, though `h264_config.rs:53-55` and 61-62 say
  `end_picture` does.
* A VAConfig's rate control mode is stored and not used: `config.rs:94-96`
  advertises CQP and VBR, the session is always CBR.
* `vaDestroyConfig` of a config in use makes the context's profile Main at the
  next sequence parameters (`picture.rs:237-238`).
* The frame rate truncates; `h264/mod.rs:23` calls it rounded.
* `state.rs:29-31` retains a CUDA context for `Internal` surfaces only. A mipmapped
  array at `vaTerminate` is destroyed after `CudaCtx` let go of the context, and
  `Drop` binds none (`external_mem.rs:214`); sessions in contexts, dropped later
  still, may be what keeps it alive.
* `session.rs:366-369` announces a blocking `LockBitstream` in phase 3, which probes
  without waiting, as the comment at 448 explains: a blocking lock "waits forever"
  if no output comes. The lock after SUCCESS (426) still blocks.
* After SUCCESS, a failing lock returns before the input is unmapped
  (`session.rs:426`); `session.rs` and `ARCHITECTURE.md:223-225` describe map,
  encode, lock, unmap. No other path leaks (`OneLeak`): where locks
  do not fail, map and unmap balance (`InputsBalanced`, by `MapsAreBalanced`).
* `ARCHITECTURE.md:355` unmaps and unregisters on surface destruction; a
  deferred frame's input stays mapped there.
* `ARCHITECTURE.md:503-504` "No function holds the lock across an FFI callback":
  `put_image`, `create_context`, `end_picture` and `create_surfaces2` log while
  they hold `pools`. The callbacks of `MappedBuffers` return; one that called
  back into the driver would not.
* `ARCHITECTURE.md:216-219`, 258, 302, `README.md:347`, `CHANGELOG.md:16` and
  `state.rs:147-151` reconfigure on rate-control parameters;
  `picture.rs:219-233` reads and ignores them.
* Internal surfaces are not unregistered when destroyed (`surface.rs:289`).
  Nothing says they are; `SurfaceLifetime` models it and its lifetime properties
  speak of DMA-BUF surfaces only.

## 6. Plan

Done: the session with its port, its calls, history and proofs; surface lifetime;
picture flow with the session's configuration; encoder parameters; GPU memory;
mapped buffers; image uploads; IDs; theorems for every safety property and every
refinement of the passing runs, for the safety half of the calls' returning, and
for where the refuted properties do hold. Left, in this order:

1. That the session halves of `PictureFlow` and of `SurfaceLifetime` are steps of
   `SessionCalls`, as properties of their runs and theorems: so far the seam is
   proved from below.
2. `SurfaceLifetime` as the abstract specification of `GpuMemory`'s surfaces.
3. `FramesComeOut` with a client that stops: which frames a client that sends no
   more pictures never gets.

Not modelled, and not planned: the tables of `config.rs` and the attribute queries
of `surface.rs`, which change no state; the stubs of `sync.rs`, `export.rs` and
`display_attr.rs`; the error mapping; the generated bindings; `driver_init`'s
filling of the vtable; `pick_device_ordinal`, whose answer changes no state;
`per_frame_bits`, which nothing calls, and the constants of `apply_config`; a
client that breaks the contract `buffer.rs` quotes, and a message callback that
re-enters the driver.
