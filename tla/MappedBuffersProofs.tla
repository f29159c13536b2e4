------------------------ MODULE MappedBuffersProofs ------------------------
(***************************************************************************)
(* Proofs about MappedBuffers: for any number of threads, buffers, images  *)
(* and surfaces, a thread inside the driver never waits for a buffer that  *)
(* is mapped, somebody can always go on, and every call is bounded.        *)
(* CallsReturn itself, with its fairness, stays with TLC.                  *)
(***************************************************************************)
EXTENDS MappedBuffers, TLAPS

Naming == {"create_buffer", "create_image", "derive", "put"} \cup OnBuffer
Entry == {"none", "create_buffer", "create_image", "derive", "put", "destroy_surface"} \cup OnBuffer

LockInv ==
    /\ pc \in [Threads -> {"outside", "waiting", "inside", "callback"}]
    /\ call \in [Threads -> Calls]
    /\ pools \in Threads \cup {NoThread}
    /\ \A t \in Threads : pc[t] \in {"inside", "callback"} <=> pools = t
    /\ \A t \in Threads : pc[t] = "outside" => call[t] = NoCall

DataInv ==
    /\ buffers \subseteq Buffers /\ images \subseteq Buffers /\ surfaces \subseteq Surfaces
    /\ surface_key \in [Buffers -> Surfaces \cup {NoSurface}]

\* What the client's contract comes to: a buffer is locked exactly while it is
\* mapped, one call at a time names it, and only vaUnmapBuffer names it then.
MapInv ==
    /\ locked = mapped /\ mapped \subseteq buffers
    /\ \A t, u \in Threads : call[t].buf \in Buffers /\ call[t].buf = call[u].buf => t = u
    /\ \A t \in Threads :
         /\ call[t].buf \in Buffers /\ pc[t] \in {"waiting", "inside"} =>
              (call[t].entry = "unmap" <=> call[t].buf \in mapped)
         /\ call[t].entry \in Naming => call[t].buf \in Buffers

Inv == LockInv /\ DataInv /\ MapInv
---------------------------------------------------------------------------
\* Nothing is mapped and nobody is inside.
LEMMA InitInv == Init => Inv
  <1> SUFFICES ASSUME Init PROVE Inv  OBVIOUS
  <1>1. NoCall \in Calls /\ NoCall.buf = NoBuffer /\ NoCall.entry = "none"
    BY DEF NoCall, Call, Calls
  <1>2. LockInv  BY <1>1, NullAssumption DEF Init, LockInv
  <1>3. DataInv  BY DEF Init, DataInv
  <1>4. MapInv  BY <1>1, NullAssumption DEF Init, MapInv, Naming, OnBuffer
  <1> QED  BY <1>2, <1>3, <1>4 DEF Inv

(* One thread moves; the others are where they were.                       *)
Moves(t, label, c) == pc' = [pc EXCEPT ![t] = label] /\ call' = [call EXCEPT ![t] = c]

\* The values after a move, one by one.
LEMMA MovesValues ==
    ASSUME Inv, NEW t \in Threads, NEW label, NEW c, Moves(t, label, c)
    PROVE  /\ pc'[t] = label /\ call'[t] = c
           /\ \A u \in Threads : u # t => pc'[u] = pc[u] /\ call'[u] = call[u]
  BY DEF Inv, LockInv, Moves

\* A thread that takes or gives `pools` only where its new place says so keeps
\* LockInv.
LEMMA MovesLock ==
    ASSUME Inv, NEW t \in Threads, NEW label, NEW c, Moves(t, label, c),
           label \in {"outside", "waiting", "inside", "callback"}, c \in Calls,
           label = "outside" => c = NoCall,
           pools' \in {pools, t, NoThread}, pools' = t <=> label \in {"inside", "callback"},
           pools' # pools => pools \in {t, NoThread}
    PROVE  LockInv'
  <1>1. /\ pc'[t] = label /\ call'[t] = c
        /\ \A u \in Threads : u # t => pc'[u] = pc[u] /\ call'[u] = call[u]
    BY MovesValues
  <1>2. /\ pc' \in [Threads -> {"outside", "waiting", "inside", "callback"}]
        /\ call' \in [Threads -> Calls]
    BY DEF Inv, LockInv, Moves
  <1>3. pools' \in Threads \cup {NoThread}  BY DEF Inv, LockInv
  <1>4. ASSUME NEW u \in Threads
        PROVE  /\ pc'[u] \in {"inside", "callback"} <=> pools' = u
               /\ pc'[u] = "outside" => call'[u] = NoCall
    BY <1>1, NullAssumption DEF Inv, LockInv
  <1> QED  BY <1>2, <1>3, <1>4 DEF LockInv

\* A call that ends.
LEMMA Leaves ==
    ASSUME Inv, NEW t \in Threads, Leave(t), pools = t
    PROVE  /\ Moves(t, "outside", NoCall) /\ LockInv'
           /\ NoCall.buf = NoBuffer /\ NoCall.entry = "none" /\ NoBuffer \notin Buffers
  <1>1. Moves(t, "outside", NoCall)  BY DEF Leave, Moves
  <1>2. NoCall \in Calls /\ NoCall.buf = NoBuffer /\ NoCall.entry = "none"
    BY DEF NoCall, Call, Calls
  <1>3. t # NoThread  BY NullAssumption
  <1>4. LockInv'  BY <1>1, <1>2, <1>3, MovesLock DEF Leave
  <1> QED  BY <1>1, <1>2, <1>4, NullAssumption

\* A call that ends and changes buffers on its way: it may add a buffer, it may
\* take away or map the one it names.
LEMMA LeaveInv ==
    ASSUME Inv, NEW t \in Threads, Leave(t), pc[t] \in {"inside", "callback"}, DataInv',
           NEW b, b = call[t].buf,
           \A d \in Buffers : d # b => /\ d \in buffers' <=> d \in buffers
                                       /\ d \in mapped' <=> d \in mapped,
           locked' = mapped', mapped' \subseteq buffers',
           mapped' # mapped => b \in Buffers
    PROVE  Inv'
  <1>1. pools = t  BY DEF Inv, LockInv
  <1>2. /\ Moves(t, "outside", NoCall) /\ LockInv'
        /\ NoCall.buf = NoBuffer /\ NoCall.entry = "none" /\ NoBuffer \notin Buffers
    BY <1>1, Leaves
  <1>3. /\ pc'[t] = "outside" /\ call'[t] = NoCall
        /\ \A u \in Threads : u # t => pc'[u] = pc[u] /\ call'[u] = call[u]
    BY <1>2, MovesValues
  <1>4. MapInv'
    <2>1. ASSUME NEW u \in Threads, NEW v \in Threads, call'[u].buf \in Buffers,
                 call'[u].buf = call'[v].buf
          PROVE  u = v
      BY <1>2, <1>3, <2>1 DEF Inv, MapInv
    <2>2. ASSUME NEW u \in Threads
          PROVE  /\ call'[u].buf \in Buffers /\ pc'[u] \in {"waiting", "inside"} =>
                      (call'[u].entry = "unmap" <=> call'[u].buf \in mapped')
                 /\ call'[u].entry \in Naming => call'[u].buf \in Buffers
      <3>1. CASE u = t  BY <1>2, <1>3, <3>1 DEF Naming, OnBuffer
      <3>2. CASE u # t
        <4>1. call[u].buf \in Buffers => call[u].buf # b  BY <3>2 DEF Inv, MapInv
        <4> QED  BY <1>3, <3>2, <4>1 DEF Inv, MapInv
      <3> QED  BY <3>1, <3>2
    <2> QED  BY <2>1, <2>2 DEF MapInv
  <1> QED  BY <1>2, <1>4 DEF Inv

\* A call that fails has changed nothing.
LEMMA FailsInv ==
    ASSUME Inv, NEW t \in Threads, Leave(t), pc[t] \in {"inside", "callback"}, UNCHANGED data
    PROVE  Inv'
  <1>1. UNCHANGED <<buffers, images, surface_key, locked, surfaces, mapped>>  BY DEF data
  <1>2. DataInv'  BY <1>1 DEF Inv, DataInv
  <1>3. locked' = mapped' /\ mapped' \subseteq buffers'  BY <1>1 DEF Inv, MapInv
  <1> QED  BY <1>1, <1>2, <1>3, LeaveInv

\* A step that only moves its thread, without a new name.
LEMMA GotoInv ==
    ASSUME Inv, NEW t \in Threads, NEW label, NEW c \in Calls, Moves(t, label, c),
           label \in {"waiting", "inside", "callback"}, c.buf = call[t].buf,
           \/ c = call[t] /\ pc[t] # "outside"
           \/ call[t].entry = "derive" /\ c.entry = "create_image" /\ pc[t] = "inside",
           label # "callback" => pc[t] \in {"waiting", "inside"},
           pools' \in {pools, t, NoThread}, pools' = t <=> label \in {"inside", "callback"},
           pools' # pools => pools \in {t, NoThread},
           UNCHANGED <<buffers, images, surface_key, surfaces>>,
           mapped' = locked',
           mapped' \subseteq mapped, label # "callback" => mapped' = mapped,
           \A d \in Buffers : d # call[t].buf => (d \in mapped' <=> d \in mapped)
    PROVE  Inv'
  <1>1. /\ pc'[t] = label /\ call'[t] = c
        /\ \A u \in Threads : u # t => pc'[u] = pc[u] /\ call'[u] = call[u]
    BY MovesValues
  <1>2. LockInv'  BY MovesLock
  <1>3. DataInv'  BY DEF Inv, DataInv
  <1>4. MapInv'
    <2>1. \A u \in Threads : call'[u].buf = call[u].buf  BY <1>1
    <2>2. ASSUME NEW u \in Threads
          PROVE  /\ call'[u].buf \in Buffers /\ pc'[u] \in {"waiting", "inside"} =>
                      (call'[u].entry = "unmap" <=> call'[u].buf \in mapped')
                 /\ call'[u].entry \in Naming => call'[u].buf \in Buffers
      <3>1. CASE u = t  BY <1>1, <3>1 DEF Inv, MapInv, Naming, OnBuffer
      <3>2. CASE u # t
        <4>1. call[u].buf \in Buffers => call[u].buf # call[t].buf  BY <3>2 DEF Inv, MapInv
        <4> QED  BY <1>1, <3>2, <4>1 DEF Inv, MapInv
      <3> QED  BY <3>1, <3>2
    <2> QED  BY <2>1, <2>2 DEF Inv, MapInv
  <1> QED  BY <1>2, <1>3, <1>4 DEF Inv
---------------------------------------------------------------------------
(* The client.                                                             *)

\* A call that keeps the contract keeps Inv.
LEMMA ClientInv ==
    ASSUME Inv, NEW t \in Threads, NEW c \in Calls, ClientCall(t, c),
           c.buf \in Buffers => c.buf \notin Named /\ (c.entry = "unmap" <=> c.buf \in mapped),
           c.entry \in Naming => c.buf \in Buffers
    PROVE  Inv'
  <1>1. /\ pc[t] = "outside" /\ Moves(t, "waiting", c) /\ pools' = pools
        /\ UNCHANGED <<buffers, images, surface_key, locked, surfaces, mapped>>
    BY DEF ClientCall, Moves, data
  <1>2. /\ pc'[t] = "waiting" /\ call'[t] = c
        /\ \A u \in Threads : u # t => pc'[u] = pc[u] /\ call'[u] = call[u]
    BY <1>1, MovesValues
  <1>3. LockInv'
    <2>1. pools # t  BY <1>1 DEF Inv, LockInv
    <2> QED  BY <1>1, <2>1, MovesLock
  <1>4. DataInv'  BY <1>1 DEF Inv, DataInv
  <1>5. MapInv'
    <2>1. \A u \in Threads : c.buf \in Buffers => call[u].buf # c.buf  BY DEF Named
    <2> QED  BY <1>1, <1>2, <2>1 DEF Inv, MapInv
  <1> QED  BY <1>3, <1>4, <1>5 DEF Inv

\* The fields of a call.
LEMMA CallValues ==
    ASSUME NEW entry \in Entry, NEW b \in Buffers \cup {NoBuffer},
           NEW s \in Surfaces \cup {NoSurface}
    PROVE  /\ Call(entry, b, s) \in Calls
           /\ Call(entry, b, s).entry = entry /\ Call(entry, b, s).buf = b
  BY DEF Call, Calls, Entry

\* Every call of the client keeps the contract.
LEMMA CallsInv ==
    ASSUME Inv, NEW t \in Threads,
           \/ \E b \in Buffers, entry \in OnBuffer : CallOnBuffer(t, entry, b)
           \/ \E b \in Buffers, s \in Surfaces : CallPutImage(t, b, s) \/ CallNew(t, b, s)
           \/ \E s \in Surfaces : CallDestroySurface(t, s)
    PROVE  Inv'
  <1>1. ASSUME NEW b \in Buffers, NEW entry \in OnBuffer, CallOnBuffer(t, entry, b)
        PROVE  Inv'
    <2>1. b \notin Named /\ (entry = "unmap" <=> b \in mapped)
          /\ ClientCall(t, Call(entry, b, NoSurface))
      BY <1>1 DEF CallOnBuffer
    <2>2. entry \in Entry  BY DEF Entry
    <2> QED  BY <2>1, <2>2, CallValues, ClientInv
  <1>2. ASSUME NEW b \in Buffers, NEW s \in Surfaces, CallPutImage(t, b, s)
        PROVE  Inv'
    <2>1. b \notin Named /\ b \notin mapped /\ ClientCall(t, Call("put", b, s))
      BY <1>2 DEF CallPutImage
    <2>2. "put" \in Entry  BY DEF Entry
    <2> QED  BY <2>1, <2>2, CallValues, ClientInv
  <1>3. ASSUME NEW b \in Buffers, NEW s \in Surfaces, CallNew(t, b, s)
        PROVE  Inv'
    <2>1. b \notin Named /\ b \notin mapped
      BY <1>3 DEF CallNew, Fresh, Inv, MapInv
    <2>2. PICK entry \in {"create_buffer", "create_image", "derive"},
               r \in Surfaces \cup {NoSurface} : ClientCall(t, Call(entry, b, r))
      BY <1>3 DEF CallNew
    <2>3. entry \in Entry /\ entry # "unmap"  BY DEF Entry
    <2> QED  BY <2>1, <2>2, <2>3, CallValues, ClientInv
  <1>4. ASSUME NEW s \in Surfaces, CallDestroySurface(t, s)
        PROVE  Inv'
    <2>1. "destroy_surface" \in Entry /\ "destroy_surface" \notin Naming
      BY DEF Entry, Naming, OnBuffer
    <2> QED  BY <1>4, <2>1, CallValues, ClientInv, NullAssumption DEF CallDestroySurface
  <1> QED  BY <1>1, <1>2, <1>3, <1>4
---------------------------------------------------------------------------
(* The driver.                                                             *)

\* Taking `pools`.
LEMMA EnterInv ==
    ASSUME Inv, NEW t \in Threads, Enter(t)
    PROVE  Inv'
  <1>1. /\ pc[t] = "waiting" /\ pools = NoThread /\ pools' = t
        /\ pc' = [pc EXCEPT ![t] = "inside"] /\ call' = call
        /\ UNCHANGED <<buffers, images, surface_key, locked, surfaces, mapped>>
    BY DEF Enter, data
  <1>2. Moves(t, "inside", call[t]) /\ call[t] \in Calls
    BY <1>1 DEF Moves, Inv, LockInv
  <1>3. mapped' = locked'  BY <1>1 DEF Inv, MapInv
  <1> QED  BY <1>1, <1>2, <1>3, GotoInv

\* A message may run the callback with the lock held.
LEMMA LogInv ==
    ASSUME Inv, NEW t \in Threads, Log(t), pc[t] = "inside", mapped' = locked',
           UNCHANGED <<buffers, images, surface_key, surfaces>>,
           mapped' \subseteq mapped,
           \A d \in Buffers : d # call[t].buf => (d \in mapped' <=> d \in mapped)
    PROVE  Inv'
  <1>1. Moves(t, "callback", call[t]) /\ call[t] \in Calls /\ pools' = pools
    BY DEF Log, Moves, Inv, LockInv
  <1>2. pools = t  BY DEF Inv, LockInv
  <1> QED  BY <1>1, <1>2, GotoInv

\* vaUnmapBuffer unlocks what vaMapBuffer locked.
LEMMA UnmapInv ==
    ASSUME Inv, NEW t \in Threads, UnmapBuffer(t)
    PROVE  Inv'
  <1> DEFINE b == call[t].buf
  <1>1. /\ pc[t] = "inside" /\ call[t].entry = "unmap" /\ mapped' = mapped \ {b}
        /\ IF b \in buffers THEN locked' = locked \ {b} ELSE locked' = locked
        /\ Leave(t) \/ Log(t)
        /\ UNCHANGED <<buffers, images, surface_key, surfaces>>
    BY DEF UnmapBuffer, In, ForceUnlock, Upload
  <1>2. b \in Buffers /\ b \in mapped  BY <1>1 DEF Inv, MapInv, Naming, OnBuffer
  <1>3. locked' = mapped' /\ mapped' \subseteq buffers'  BY <1>1, <1>2 DEF Inv, MapInv
  <1>4. DataInv'  BY <1>1 DEF Inv, DataInv
  <1>5. \A d \in Buffers : d # b => (d \in mapped' <=> d \in mapped)  BY <1>1
  <1>6. CASE Leave(t)  BY <1>1, <1>2, <1>3, <1>4, <1>5, <1>6, LeaveInv
  <1>7. CASE Log(t)  BY <1>1, <1>3, <1>5, <1>7, LogInv
  <1> QED  BY <1>1, <1>6, <1>7

\* A step inside a call.
LEMMA InsideInv ==
    ASSUME Inv, NEW t \in Threads, Inside(t)
    PROVE  Inv'
  <1> DEFINE b == call[t].buf
  <1>0. /\ call[t] \in Calls /\ b \in Buffers \cup {NoBuffer}
        /\ call[t].surface \in Surfaces \cup {NoSurface}
        /\ call[t].entry \in Naming => b \in Buffers
    BY DEF Inv, LockInv, MapInv, Calls
  <1>1. ASSUME Leave(t), In(t, "create_buffer") \/ In(t, "create_image") \/ In(t, "destroy_surface"),
               DataInv', UNCHANGED <<locked, mapped>>,
               \A d \in Buffers : d # b => (d \in buffers' <=> d \in buffers),
               buffers \subseteq buffers'
        PROVE  Inv'
    BY <1>1, LeaveInv DEF In, Inv, MapInv
  <1>2. ASSUME Leave(t), In(t, "destroy_buffer") \/ In(t, "destroy_image"), b \in Buffers,
               DataInv', buffers' = buffers \ {b}, locked' = locked \ {b}, mapped' = mapped
        PROVE  Inv'
    <2>1. b \notin mapped  BY <1>2 DEF Inv, MapInv, In
    <2>2. locked' = mapped' /\ mapped' \subseteq buffers'  BY <1>2, <2>1 DEF Inv, MapInv
    <2> QED  BY <1>2, <2>2, LeaveInv DEF In
  <1>3. CASE CreateBuffer(t)
    <2>1. /\ In(t, "create_buffer") /\ Leave(t) /\ buffers' = buffers \cup {b}
          /\ UNCHANGED <<images, surface_key, locked, surfaces, mapped>>
      BY <1>3 DEF CreateBuffer
    <2>2. b \in Buffers  BY <1>0, <2>1 DEF In, Naming
    <2>3. DataInv'  BY <2>1, <2>2 DEF Inv, DataInv
    <2> QED  BY <1>1, <2>1, <2>3
  <1>4. CASE DeriveImage(t)
    <2>1. CASE Fails(t)
      BY <1>4, <2>1, FailsInv DEF DeriveImage, Fails, In
    <2>2. CASE ~Fails(t)
      <3> DEFINE c == [entry |-> "create_image", buf |-> b, surface |-> call[t].surface]
      <3>1. /\ pc[t] = "inside" /\ call[t].entry = "derive"
            /\ pc' = [pc EXCEPT ![t] = "waiting"] /\ pools' = NoThread
            /\ call' = [call EXCEPT ![t].entry = "create_image"] /\ UNCHANGED data
        BY <1>4, <2>2 DEF DeriveImage, In
      <3>2. c \in Calls /\ c.buf = b /\ c.entry = "create_image"  BY <1>0 DEF Calls
      <3>3. call' = [call EXCEPT ![t] = c]
        <4>1. [call[t] EXCEPT !.entry = "create_image"] = c  BY <1>0 DEF Calls
        <4>2. call' = [call EXCEPT ![t] = [call[t] EXCEPT !.entry = "create_image"]]
          BY <3>1 DEF Inv, LockInv
        <4> QED  BY <4>1, <4>2
      <3>4. Moves(t, "waiting", c)  BY <3>1, <3>3 DEF Moves
      <3>5. pools = t /\ pools' # t  BY <3>1, NullAssumption DEF Inv, LockInv
      <3>6. UNCHANGED <<buffers, images, surface_key, locked, surfaces, mapped>>
        BY <3>1 DEF data
      <3>7. mapped' = locked' /\ mapped' = mapped  BY <3>6 DEF Inv, MapInv
      <3> HIDE DEF c
      <3> QED  BY <3>1, <3>2, <3>4, <3>5, <3>6, <3>7, GotoInv
    <2> QED  BY <2>1, <2>2
  <1>5. CASE AllocHostImage(t)
    <2>1. /\ In(t, "create_image") /\ Leave(t)
          /\ buffers' = buffers \cup {b} /\ images' = images \cup {b}
          /\ surface_key' = [surface_key EXCEPT ![b] = call[t].surface]
          /\ UNCHANGED <<locked, surfaces, mapped>>
      BY <1>5 DEF AllocHostImage
    <2>2. b \in Buffers  BY <1>0, <2>1 DEF In, Naming
    <2>3. DataInv'  BY <1>0, <2>1, <2>2 DEF Inv, DataInv
    <2> QED  BY <1>1, <2>1, <2>3
  <1>6. CASE MapBuffer(t)
    <2>1. CASE Fails(t)
      BY <1>6, <2>1, FailsInv DEF MapBuffer, Fails, In
    <2>2. CASE ~Fails(t)
      <3>1. /\ pc[t] = "inside" /\ call[t].entry = "map" /\ b \in buffers /\ Leave(t)
            /\ locked' = locked \cup {b} /\ mapped' = mapped \cup {b}
            /\ UNCHANGED <<buffers, images, surface_key, surfaces>>
        BY <1>6, <2>2 DEF MapBuffer, ForgetGuard, In
      <3>2. DataInv' /\ b \in Buffers  BY <3>1 DEF Inv, DataInv
      <3>3. locked' = mapped' /\ mapped' \subseteq buffers'  BY <3>1 DEF Inv, MapInv
      <3> QED  BY <3>1, <3>2, <3>3, LeaveInv
    <2> QED  BY <2>1, <2>2
  <1>7. CASE UnmapBuffer(t)
    BY <1>7, UnmapInv
  <1>8. CASE RenderPicture(t)
    BY <1>8, FailsInv DEF RenderPicture, In
  <1>9. CASE PutImage(t)
    <2>1. pc[t] = "inside" /\ (Leave(t) \/ Log(t)) /\ UNCHANGED data
      BY <1>9 DEF PutImage, In
    <2>2. /\ UNCHANGED <<buffers, images, surface_key, locked, surfaces, mapped>>
      BY <1>9 DEF PutImage, data
    <2>3. mapped' = locked'  BY <2>2 DEF Inv, MapInv
    <2>4. CASE Log(t)  BY <2>1, <2>2, <2>3, <2>4, LogInv
    <2>5. CASE Leave(t)  BY <2>1, <2>2, <2>5, FailsInv DEF data
    <2> QED  BY <2>1, <2>4, <2>5
  <1>10. CASE DestroyBuffer(t)
    <2>1. /\ In(t, "destroy_buffer") /\ Leave(t)
          /\ buffers' = buffers \ {b} /\ locked' = locked \ {b}
          /\ UNCHANGED <<images, surface_key, surfaces, mapped>>
      BY <1>10 DEF DestroyBuffer
    <2>2. DataInv' /\ b \in Buffers
      BY <1>0, <2>1 DEF Inv, DataInv, In, Naming, OnBuffer
    <2> QED  BY <1>2, <2>1, <2>2
  <1>11. CASE DestroyImage(t)
    <2>1. CASE Fails(t)
      BY <1>11, <2>1, FailsInv DEF DestroyImage, Fails, In
    <2>2. CASE ~Fails(t)
      <3>1. /\ In(t, "destroy_image") /\ Leave(t) /\ images' = images \ {b}
            /\ buffers' = buffers \ {b} /\ locked' = locked \ {b}
            /\ surface_key' = [surface_key EXCEPT ![b] = NoSurface]
            /\ UNCHANGED <<surfaces, mapped>>
        BY <1>11, <2>2 DEF DestroyImage
      <3>2. DataInv' /\ b \in Buffers
        BY <1>0, <3>1 DEF Inv, DataInv, In, Naming, OnBuffer
      <3> QED  BY <1>2, <3>1, <3>2
    <2> QED  BY <2>1, <2>2
  <1>12. CASE DestroySurface(t)
    <2>1. /\ In(t, "destroy_surface") /\ Leave(t)
          /\ surfaces' = surfaces \ {call[t].surface}
          /\ UNCHANGED <<buffers, images, surface_key, locked, mapped>>
      BY <1>12 DEF DestroySurface
    <2>2. DataInv'  BY <2>1 DEF Inv, DataInv
    <2> QED  BY <1>1, <2>1, <2>2
  <1>13. CASE CallbackReturns(t)
    BY <1>13, FailsInv DEF CallbackReturns
  <1> QED  BY <1>3, <1>4, <1>5, <1>6, <1>7, <1>8, <1>9, <1>10, <1>11, <1>12, <1>13 DEF Inside

\* Every step keeps Inv.
LEMMA NextInv == Inv /\ [Next]_vars => Inv'
  <1> SUFFICES ASSUME Inv, [Next]_vars PROVE Inv'  OBVIOUS
  <1>1. CASE UNCHANGED vars
    BY <1>1 DEF vars, data, Inv, LockInv, DataInv, MapInv
  <1>2. ASSUME NEW t \in Threads, Enter(t) \/ Inside(t) PROVE Inv'
    BY <1>2, EnterInv, InsideInv
  <1>3. ASSUME NEW t \in Threads,
               \/ \E b \in Buffers, entry \in OnBuffer : CallOnBuffer(t, entry, b)
               \/ \E b \in Buffers, s \in Surfaces : CallPutImage(t, b, s) \/ CallNew(t, b, s)
               \/ \E s \in Surfaces : CallDestroySurface(t, s)
        PROVE  Inv'
    BY <1>3, CallsInv
  <1> QED  BY <1>1, <1>2, <1>3 DEF Next

\* The inductive invariant: the buffers that are locked are the mapped ones.
THEOREM LocksCorrect == Spec => []Inv
  <1> QED  BY InitInv, NextInv, PTL DEF Spec
---------------------------------------------------------------------------
\* Types, and `pools` is held by exactly the thread inside the driver.
THEOREM TypeCorrect == Spec => []TypeOK
  <1>1. Inv => TypeOK  BY DEF Inv, LockInv, DataInv, MapInv, TypeOK
  <1> QED  BY <1>1, LocksCorrect, PTL

\* vaMapBuffer, vaRenderPicture, vaPutImage: a thread that holds `pools` never
\* finds the lock of the buffer it needs taken.
THEOREM NoWaitInside == Spec => []NeverWaitsHoldingPools
  <1>1. Inv => NeverWaitsHoldingPools
    BY DEF Inv, MapInv, NeverWaitsHoldingPools, Naming, OnBuffer
  <1> QED  BY <1>1, LocksCorrect, PTL

\* vaUnmapBuffer: force_unlock meets a lock that vaMapBuffer left held, in a
\* buffer that still exists.
THEOREM UnlocksMapped == Spec => []UnlocksHeldLock
  <1>1. Inv => UnlocksHeldLock
    BY DEF Inv, MapInv, UnlocksHeldLock, In, Naming, OnBuffer
  <1> QED  BY <1>1, LocksCorrect, PTL
---------------------------------------------------------------------------
(* The two halves of CallsReturn that need no fairness: somebody can       *)
(* always take a step, and a call takes only so many.                      *)

\* What a thread inside the driver may wait for.
Waits(t) ==
    \/ pc[t] = "waiting" /\ pools # NoThread
    \/ /\ pc[t] = "inside" /\ call[t].entry \in {"map", "render", "put"}
       /\ call[t].buf \in buffers \cap locked

\* Threads inside the driver are never all waiting: the one lock that a call
\* leaves behind, that of a mapped buffer, is wanted by no other call.
THEOREM NobodyDeadlocks ==
    Spec => []((\E t \in Threads : pc[t] # "outside")
                 => \E t \in Threads : pc[t] # "outside" /\ ~Waits(t))
  <1> DEFINE NoDeadlock == (\E t \in Threads : pc[t] # "outside")
                             => \E t \in Threads : pc[t] # "outside" /\ ~Waits(t)
  <1>1. Inv => NoDeadlock
    <2> SUFFICES ASSUME Inv, NEW t \in Threads, pc[t] # "outside"
                 PROVE  \E u \in Threads : pc[u] # "outside" /\ ~Waits(u)
      OBVIOUS
    <2>1. ASSUME NEW u \in Threads, pc[u] \in {"inside", "callback"} PROVE ~Waits(u)
      BY <2>1 DEF Waits, Inv, MapInv, Naming, OnBuffer
    <2>2. CASE pools = NoThread
      <3>1. pc[t] = "waiting"  BY <2>2, NullAssumption DEF Inv, LockInv
      <3> QED  BY <2>2, <3>1 DEF Waits
    <2>3. CASE pools # NoThread
      <3>1. pools \in Threads /\ pc[pools] \in {"inside", "callback"}
        BY <2>3 DEF Inv, LockInv
      <3> QED  BY <2>1, <3>1
    <2> QED  BY <2>2, <2>3
  <1> QED  BY <1>1, LocksCorrect, PTL

\* How many steps a call can still take at most: derive_image takes `pools` twice.
Ranks == [outside |-> 0, callback |-> 1, inside |-> 2, waiting |-> 3]
StepsLeft(t) == Ranks[pc[t]] + IF call[t].entry = "derive" THEN 2 ELSE 0

\* What a step inside a call does to the call.
LEMMA InsideMoves ==
    ASSUME Inv, NEW t \in Threads, Inside(t)
    PROVE  \/ pc[t] \in {"inside", "callback"} /\ Moves(t, "outside", NoCall)
           \/ pc[t] = "inside" /\ Moves(t, "callback", call[t])
           \/ /\ pc[t] = "inside" /\ call[t].entry = "derive"
              /\ \E c \in Calls : c.entry = "create_image" /\ Moves(t, "waiting", c)
  <1>1. call \in [Threads -> Calls]  BY DEF Inv, LockInv
  <1>2. ASSUME Leave(t), pc[t] \in {"inside", "callback"}
        PROVE  pc[t] \in {"inside", "callback"} /\ Moves(t, "outside", NoCall)
    BY <1>2 DEF Leave, Moves
  <1>3. ASSUME Log(t), pc[t] = "inside"
        PROVE  pc[t] = "inside" /\ Moves(t, "callback", call[t])
    BY <1>1, <1>3 DEF Log, Moves
  <1>4. CASE DeriveImage(t)
    <2>1. CASE Fails(t)  BY <1>2, <1>4, <2>1 DEF DeriveImage, Fails, In
    <2>2. CASE ~Fails(t)
      <3> DEFINE c == [call[t] EXCEPT !.entry = "create_image"]
      <3>1. /\ pc[t] = "inside" /\ call[t].entry = "derive"
            /\ pc' = [pc EXCEPT ![t] = "waiting"]
            /\ call' = [call EXCEPT ![t].entry = "create_image"]
        BY <1>4, <2>2 DEF DeriveImage, In
      <3>2. c \in Calls /\ c.entry = "create_image"  BY <1>1 DEF Calls
      <3>3. Moves(t, "waiting", c)  BY <1>1, <3>1 DEF Moves
      <3> HIDE DEF c
      <3> QED  BY <3>1, <3>2, <3>3
    <2> QED  BY <2>1, <2>2
  <1>5. CASE CreateBuffer(t) \/ AllocHostImage(t) \/ MapBuffer(t) \/ RenderPicture(t)
             \/ DestroyBuffer(t) \/ DestroyImage(t) \/ DestroySurface(t) \/ CallbackReturns(t)
    BY <1>2, <1>5 DEF CreateBuffer, AllocHostImage, MapBuffer, RenderPicture, DestroyBuffer,
       DestroyImage, DestroySurface, CallbackReturns, Fails, In
  <1>6. CASE UnmapBuffer(t) \/ PutImage(t)
    <2>1. pc[t] = "inside" /\ (Leave(t) \/ Log(t))
      BY <1>6 DEF UnmapBuffer, PutImage, Upload, In
    <2> QED  BY <1>2, <1>3, <2>1
  <1> QED  BY <1>4, <1>5, <1>6 DEF Inside

\* No call goes round in circles: a step of a thread leaves its call with less
\* to do, and no step of another thread touches it.
THEOREM CallsAreBounded ==
    Spec => [][\A t \in Threads : pc[t] # "outside" =>
                 StepsLeft(t)' < StepsLeft(t) \/ UNCHANGED <<pc[t], call[t]>>]_vars
  <1> DEFINE A == \A t \in Threads : pc[t] # "outside" =>
                    StepsLeft(t)' < StepsLeft(t) \/ UNCHANGED <<pc[t], call[t]>>
  <1>1. Inv /\ [Next]_vars => [A]_vars
    <2> SUFFICES ASSUME Inv, Next, NEW t \in Threads, pc[t] # "outside"
                 PROVE  StepsLeft(t)' < StepsLeft(t) \/ UNCHANGED <<pc[t], call[t]>>
      OBVIOUS
    <2>1. PICK u \in Threads : \/ Enter(u) \/ Inside(u)
                               \/ \E c : ClientCall(u, c)
      BY DEF Next, CallOnBuffer, CallPutImage, CallNew, CallDestroySurface
    <2>2. ASSUME NEW label, NEW c, Moves(u, label, c), u # t
          PROVE  UNCHANGED <<pc[t], call[t]>>
      BY <2>2, MovesValues
    <2>3. CASE Enter(u)
      <3>1. pc[u] = "waiting" /\ Moves(u, "inside", call[u])
        BY <2>3 DEF Enter, Moves, Inv, LockInv
      <3>2. pc'[u] = "inside" /\ call'[u] = call[u]  BY <3>1, MovesValues
      <3> QED  BY <2>2, <3>1, <3>2 DEF StepsLeft, Ranks
    <2>4. CASE Inside(u)
      <3>1. CASE u # t  BY <2>2, <2>4, <3>1, InsideMoves
      <3>2. CASE u = t
        <4>1. NoCall.entry = "none"  BY DEF NoCall, Call
        <4>2. CASE pc[t] \in {"inside", "callback"} /\ Moves(t, "outside", NoCall)
          <5>1. pc'[t] = "outside" /\ call'[t] = NoCall  BY <4>2, MovesValues
          <5> QED  BY <4>1, <4>2, <5>1 DEF StepsLeft, Ranks
        <4>3. CASE pc[t] = "inside" /\ Moves(t, "callback", call[t])
          <5>1. pc'[t] = "callback" /\ call'[t] = call[t]  BY <4>3, MovesValues
          <5> QED  BY <4>3, <5>1 DEF StepsLeft, Ranks
        <4>4. ASSUME NEW c \in Calls, c.entry = "create_image", Moves(t, "waiting", c),
                     pc[t] = "inside", call[t].entry = "derive"
              PROVE  StepsLeft(t)' < StepsLeft(t)
          <5>1. pc'[t] = "waiting" /\ call'[t] = c  BY <4>4, MovesValues
          <5> QED  BY <4>4, <5>1 DEF StepsLeft, Ranks
        <4> QED  BY <2>4, <3>2, <4>2, <4>3, <4>4, InsideMoves
      <3> QED  BY <3>1, <3>2
    <2>5. ASSUME NEW c, ClientCall(u, c) PROVE UNCHANGED <<pc[t], call[t]>>
      <3>1. u # t /\ Moves(u, "waiting", c)  BY <2>5 DEF ClientCall, Moves
      <3> QED  BY <2>2, <3>1
    <2> QED  BY <2>1, <2>3, <2>4, <2>5
  <1> QED  BY <1>1, LocksCorrect, PTL DEF Spec
===========================================================================
