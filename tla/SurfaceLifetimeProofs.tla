----------------------- MODULE SurfaceLifetimeProofs -----------------------
(***************************************************************************)
(* Proofs about SurfaceLifetime: for any number of surfaces and contexts,  *)
(* while the driver runs a DMA-BUF surface is unregistered from every      *)
(* session before its memory goes, and is never submitted after; and which *)
(* clients have what the runs that refute a property take away.            *)
(***************************************************************************)
EXTENDS SurfaceLifetime, TLAPS

\* While the driver runs, a DMA-BUF surface in a table is live.  TypeOK adds that
\* closed sessions have empty tables.
Inv == TypeOK /\ DmaBufUnregisteredFirst

Statuses == {"submitted", "deferred", "error"}
---------------------------------------------------------------------------
\* No surface, no context.
LEMMA InitInv == Init => Inv
  BY NoKeyAssumption DEF Init, Inv, TypeOK, DmaBufUnregisteredFirst, RegistrationsLive, NoCall, Open

\* What vaEndPicture leaves in the table of its session and in the surface.
LEMMA RegisterValues ==
    ASSUME TypeOK, NEW c \in Contexts, NEW k \in Keys, Register(c, k)
    PROVE  /\ registered' \in [Contexts -> SUBSET Keys]
           /\ \A d \in Contexts : d # c => registered'[d] = registered[d]
           /\ registered[c] \subseteq registered'[c]
           /\ \A m \in registered'[c] : m \in registered[c] \/ (m = k /\ k \in live)
           /\ registered_nvenc' \subseteq registered_nvenc \cup {m \in live : kind[m] = "dmabuf"}
           /\ k \in live /\ kind[k] = "internal" => k \in registered'[c]
  <1>1. registered \in [Contexts -> SUBSET Keys]  BY DEF TypeOK
  <1>2. CASE NeedsRegistration(c, k)
    <2>1. k \in live /\ kind[k] \in {"internal", "dmabuf"}  BY <1>2 DEF NeedsRegistration
    <2>2. /\ registered' = [registered EXCEPT ![c] = @ \cup {k}]
          /\ registered_nvenc' = IF kind[k] = "dmabuf" THEN registered_nvenc \cup {k}
                                                       ELSE registered_nvenc
      BY <1>2 DEF Register
    <2> QED  BY <1>1, <2>1, <2>2
  <1>3. CASE ~NeedsRegistration(c, k)
    <2>1. registered' = registered /\ registered_nvenc' = registered_nvenc  BY <1>3 DEF Register
    <2>2. k \in live /\ kind[k] = "internal" => k \in registered[c]
      BY <1>3 DEF NeedsRegistration
    <2> QED  BY <1>1, <2>1, <2>2
  <1> QED  BY <1>2, <1>3

\* vaEndPicture registers live surfaces only.
LEMMA EndPictureInv ==
    ASSUME Inv, NEW c \in Contexts, EndPicture(c)
    PROVE  Inv'
  <1> DEFINE k == current_target[c]
  <1>1. /\ phase = "running" /\ k # NoKey /\ session[c] = "open" /\ Register(c, k)
        /\ UNCHANGED <<kind, live, session, current_target, phase>>
    BY DEF EndPicture, MayEnd
  <1>2. k \in Keys  BY <1>1 DEF Inv, TypeOK
  <1>3. PICK still \in SUBSET pending[c], status \in Statuses \cup {"InvalidSurface"} :
          /\ last' = [key |-> k, status |-> status]
          /\ pending' = [pending EXCEPT ![c] = IF status = "deferred" THEN still \cup {k} ELSE still]
    <2>1. PICK still \in SUBSET pending[c] :
            IF k \in registered'[c]
              THEN \E status \in {"submitted", "deferred", "error"} :
                     /\ Finish(k, status)
                     /\ pending' = [pending EXCEPT ![c] =
                                      IF status = "deferred" THEN still \cup {k} ELSE still]
              ELSE /\ Finish(k, "InvalidSurface")
                   /\ pending' = [pending EXCEPT ![c] = still]
      BY DEF EndPicture
    <2>2. CASE k \in registered'[c]  BY <2>1, <2>2 DEF Finish, Statuses
    <2>3. CASE k \notin registered'[c]  BY <2>1, <2>3 DEF Finish
    <2> QED  BY <2>2, <2>3
  <1> HIDE DEF k
  <1>4. /\ registered' \in [Contexts -> SUBSET Keys]
        /\ \A d \in Contexts : d # c => registered'[d] = registered[d]
        /\ \A m \in registered'[c] : m \in registered[c] \/ (m = k /\ k \in live)
        /\ registered_nvenc' \subseteq registered_nvenc \cup {m \in live : kind[m] = "dmabuf"}
    BY <1>1, <1>2, RegisterValues DEF Inv
  <1>5. TypeOK'
    <2>1. TypeOK  BY DEF Inv
    <2>2. /\ pending' \in [Contexts -> SUBSET Keys]
          /\ \A d \in Contexts : d # c => pending'[d] = pending[d]
      BY <1>2, <1>3, <2>1 DEF TypeOK
    <2>3. registered_nvenc' \subseteq {m \in live' : kind'[m] = "dmabuf"}
      BY <1>1, <1>4, <2>1 DEF TypeOK
    <2>4. \A d \in Contexts : d \notin Open' => registered'[d] = {} /\ pending'[d] = {}
      <3>1. c \in Open /\ Open' = Open  BY <1>1 DEF Open
      <3> QED  BY <1>4, <2>1, <2>2, <3>1 DEF TypeOK
    <2>5. last'.key \in Keys /\ last'.status \in Statuses \cup {"InvalidSurface"}  BY <1>2, <1>3
    <2> QED  BY <1>1, <1>4, <2>1, <2>2, <2>3, <2>4, <2>5 DEF TypeOK, Statuses
  <1>6. DmaBufUnregisteredFirst'
    <2> SUFFICES ASSUME NEW d \in Contexts, NEW m \in registered'[d], kind'[m] = "dmabuf"
                 PROVE  m \in live'
      BY DEF DmaBufUnregisteredFirst, RegistrationsLive
    <2>1. m \in registered[d] \/ m \in live  BY <1>4
    <2> QED  BY <1>1, <2>1 DEF Inv, DmaBufUnregisteredFirst, RegistrationsLive
  <1> QED  BY <1>5, <1>6 DEF Inv

\* A DMA-BUF surface leaves every table before it goes.
LEMMA DestroySurfaceInv ==
    ASSUME Inv, NEW k \in Keys, DestroySurface(k)
    PROVE  Inv'
  <1>1. /\ phase = "running" /\ k \in live /\ live' = live \ {k}
        /\ registered_nvenc' = registered_nvenc \ {k} /\ last' = NoCall
        /\ registered' = IF kind[k] = "dmabuf" THEN [c \in Contexts |-> registered[c] \ {k}]
                                               ELSE registered
        /\ UNCHANGED <<kind, session, pending, current_target, phase>>
    BY DEF DestroySurface, Unregistered
  <1>2. /\ registered' \in [Contexts -> SUBSET Keys]
        /\ \A c \in Contexts : registered'[c] \subseteq registered[c]
    BY <1>1 DEF Inv, TypeOK
  <1>3. NoCall.key = NoKey /\ NoCall.status = "none"  BY DEF NoCall
  <1>4. TypeOK'
    <2>1. Open' = Open  BY <1>1 DEF Open
    <2> QED  BY <1>1, <1>2, <1>3, <2>1 DEF Inv, TypeOK
  <1>5. DmaBufUnregisteredFirst'
    <2> SUFFICES ASSUME NEW c \in Contexts, NEW m \in registered'[c], kind'[m] = "dmabuf"
                 PROVE  m \in live'
      BY DEF DmaBufUnregisteredFirst, RegistrationsLive
    <2>1. m \in registered[c] /\ m \in live
      BY <1>1, <1>2 DEF Inv, DmaBufUnregisteredFirst, RegistrationsLive
    <2>2. m # k  BY <1>1
    <2> QED  BY <1>1, <2>1, <2>2
  <1> QED  BY <1>4, <1>5 DEF Inv

\* A new context registers live surfaces, a destroyed one forgets all.
LEMMA ContextInv ==
    ASSUME Inv, NEW c \in Contexts,
           \/ CreateContextWithoutSession(c) \/ DestroyContext(c)
           \/ \E targets \in SUBSET Keys : CreateContext(c, targets)
    PROVE  Inv'
  <1>0. NoCall.key = NoKey /\ NoCall.status = "none"  BY DEF NoCall
  <1>1. ASSUME NEW targets \in SUBSET Keys, CreateContext(c, targets)
        PROVE  Inv'
    <2>1. /\ phase = "running" /\ session' = [session EXCEPT ![c] = "open"]
          /\ registered' = [registered EXCEPT ![c] = {k \in targets : kind[k] = "internal"}]
          /\ last' = NoCall /\ session[c] = "absent"
          /\ UNCHANGED <<kind, live, registered_nvenc, pending, current_target, phase>>
      BY <1>1 DEF CreateContext
    <2>2. /\ registered' \in [Contexts -> SUBSET Keys]
          /\ \A d \in Contexts : d # c => registered'[d] = registered[d]
          /\ \A k \in registered'[c] : kind[k] = "internal"
      BY <2>1 DEF Inv, TypeOK
    <2>3. TypeOK'
      <3>1. \A d \in Contexts : d \notin Open' => d \notin Open /\ d # c
        BY <2>1 DEF Open, Inv, TypeOK
      <3> QED  BY <1>0, <2>1, <2>2, <3>1 DEF Inv, TypeOK
    <2>4. DmaBufUnregisteredFirst'
      BY <2>1, <2>2 DEF Inv, DmaBufUnregisteredFirst, RegistrationsLive
    <2> QED  BY <2>3, <2>4 DEF Inv
  <1>2. CASE CreateContextWithoutSession(c)
    <2>1. /\ session' = [session EXCEPT ![c] = "none"] /\ last' = NoCall /\ session[c] = "absent"
          /\ UNCHANGED <<kind, live, registered_nvenc, registered, pending, current_target, phase>>
      BY <1>2 DEF CreateContextWithoutSession
    <2>2. TypeOK'
      <3>1. Open' = Open  BY <2>1 DEF Open, Inv, TypeOK
      <3> QED  BY <1>0, <2>1, <3>1 DEF Inv, TypeOK
    <2>3. DmaBufUnregisteredFirst'  BY <2>1 DEF Inv, DmaBufUnregisteredFirst, RegistrationsLive
    <2> QED  BY <2>2, <2>3 DEF Inv
  <1>3. CASE DestroyContext(c)
    <2>1. /\ session' = [session EXCEPT ![c] = "closed"] /\ last' = NoCall
          /\ pending' = [pending EXCEPT ![c] = {}] /\ registered' = [registered EXCEPT ![c] = {}]
          /\ current_target' = [current_target EXCEPT ![c] = NoKey]
          /\ UNCHANGED <<kind, live, registered_nvenc, phase>>
      BY <1>3 DEF DestroyContext, DropSession
    <2>2. /\ registered' \in [Contexts -> SUBSET Keys] /\ pending' \in [Contexts -> SUBSET Keys]
          /\ registered'[c] = {} /\ pending'[c] = {}
          /\ \A d \in Contexts : d # c => registered'[d] = registered[d] /\ pending'[d] = pending[d]
      BY <2>1 DEF Inv, TypeOK
    <2>3. TypeOK'
      <3>1. \A d \in Contexts : d \notin Open' => d \notin Open \/ d = c
        BY <2>1 DEF Open, Inv, TypeOK
      <3> QED  BY <1>0, <2>1, <2>2, <3>1 DEF Inv, TypeOK
    <2>4. DmaBufUnregisteredFirst'
      BY <2>1, <2>2 DEF Inv, DmaBufUnregisteredFirst, RegistrationsLive
    <2> QED  BY <2>3, <2>4 DEF Inv
  <1> QED  BY <1>1, <1>2, <1>3

\* Every step keeps Inv.
LEMMA NextInv == Inv /\ [Next]_vars => Inv'
  <1> SUFFICES ASSUME Inv, [Next]_vars PROVE Inv'  OBVIOUS
  <1>0. NoCall.key = NoKey /\ NoCall.status = "none"  BY DEF NoCall
  <1>1. CASE UNCHANGED vars
    BY <1>1 DEF vars, Inv, TypeOK, DmaBufUnregisteredFirst, RegistrationsLive, Open
  <1>2. ASSUME NEW k \in Keys, CreateSurface(k, "internal") \/ CreateSurface(k, "dmabuf")
        PROVE  Inv'
    <2>1. PICK sort \in {"internal", "dmabuf"} : CreateSurface(k, sort)  BY <1>2
    <2>2. /\ kind[k] = "none" /\ kind' = [kind EXCEPT ![k] = sort] /\ live' = live \cup {k}
          /\ last' = NoCall
          /\ UNCHANGED <<registered_nvenc, session, registered, pending, current_target, phase>>
      BY <2>1 DEF CreateSurface
    <2>3. TypeOK'
      <3>1. Open' = Open  BY <2>2 DEF Open
      <3> QED  BY <1>0, <2>2, <3>1 DEF Inv, TypeOK
    <2>4. DmaBufUnregisteredFirst'
      BY <2>2 DEF Inv, TypeOK, DmaBufUnregisteredFirst, RegistrationsLive
    <2> QED  BY <2>3, <2>4 DEF Inv
  <1>3. ASSUME NEW k \in Keys, DropSurface(k)
        PROVE  Inv'
    <2>1. Open' = Open  BY <1>3 DEF DropSurface, Open
    <2> QED  BY <1>3, <2>1 DEF DropSurface, Inv, TypeOK, DmaBufUnregisteredFirst
  <1>4. ASSUME NEW c \in Contexts, EndPictureFails(c)
        PROVE  Inv'
    <2>1. /\ last'.key \in Keys \cup {NoKey} /\ last'.status = "error" /\ Open' = Open
      BY <1>4 DEF EndPictureFails, Finish, Inv, TypeOK, Open
    <2> QED  BY <1>4, <2>1
          DEF EndPictureFails, Inv, TypeOK, DmaBufUnregisteredFirst, RegistrationsLive
  <1>5. ASSUME NEW c \in Contexts, NEW k \in Keys, BeginPicture(c, k)
        PROVE  Inv'
    <2>1. Open' = Open  BY <1>5 DEF BeginPicture, Open
    <2> QED  BY <1>0, <1>5, <2>1
          DEF BeginPicture, Inv, TypeOK, DmaBufUnregisteredFirst, RegistrationsLive
  <1>6. CASE Terminate
    <2>1. Open' = Open  BY <1>6 DEF Terminate, Open
    <2> QED  BY <1>0, <1>6, <2>1 DEF Terminate, Inv, TypeOK, DmaBufUnregisteredFirst
  <1>7. CASE DropContexts
    <2>1. /\ phase' = "terminated"
          /\ session' = [c \in Contexts |-> "closed"]
          /\ registered' = [c \in Contexts |-> {}] /\ pending' = [c \in Contexts |-> {}]
          /\ current_target' = [c \in Contexts |-> NoKey]
          /\ UNCHANGED <<kind, live, registered_nvenc, last>>
      BY <1>7 DEF DropContexts
    <2> QED  BY <2>1 DEF Inv, TypeOK, DmaBufUnregisteredFirst
  <1>8. ASSUME NEW c \in Contexts,
               \/ CreateContextWithoutSession(c) \/ DestroyContext(c)
               \/ \E targets \in SUBSET Keys : CreateContext(c, targets)
        PROVE  Inv'
    BY <1>8, ContextInv
  <1> QED  BY <1>1, <1>2, <1>3, <1>4, <1>5, <1>6, <1>7, <1>8, DestroySurfaceInv, EndPictureInv
        DEF Next

\* The inductive invariant.
THEOREM LifetimeCorrect == Spec => []Inv
  <1> QED  BY InitInv, NextInv, PTL DEF Spec
---------------------------------------------------------------------------
\* Types; a session that is not open has neither registrations nor inputs.
THEOREM TypeCorrect == Spec => []TypeOK
  <1>1. Inv => TypeOK  BY DEF Inv
  <1> QED  BY <1>1, LifetimeCorrect, PTL

\* vaDestroySurfaces: while the driver runs, no session of any context keeps a
\* registration of a DMA-BUF surface whose memory is gone.
THEOREM UnregisteredFirst == Spec => []DmaBufUnregisteredFirst
  <1>1. Inv => DmaBufUnregisteredFirst  BY DEF Inv
  <1> QED  BY <1>1, LifetimeCorrect, PTL
---------------------------------------------------------------------------
(* Action properties.                                                      *)

\* vaTerminate comes after the last vaEndPicture.
LastInv == phase # "running" => last.status = "none"

\* What a step that records a vaEndPicture was.
LEMMA Recorded ==
    ASSUME Inv, LastInv, Next, last'.status # "none"
    PROVE  \E c \in Contexts : EndPicture(c) \/ EndPictureFails(c)
  <1>1. NoCall.status = "none"  BY DEF NoCall
  <1>2. ASSUME NEW k \in Keys, DropSurface(k) PROVE FALSE
    BY <1>2 DEF DropSurface, LastInv
  <1>3. ASSUME NEW k \in Keys,
               \/ CreateSurface(k, "internal") \/ CreateSurface(k, "dmabuf") \/ DestroySurface(k)
        PROVE  FALSE
    BY <1>1, <1>3 DEF CreateSurface, DestroySurface
  <1>4. ASSUME NEW c \in Contexts,
               \/ CreateContextWithoutSession(c) \/ DestroyContext(c)
               \/ \E targets \in SUBSET Keys : CreateContext(c, targets)
               \/ \E k \in Keys : BeginPicture(c, k)
        PROVE  FALSE
    BY <1>1, <1>4 DEF CreateContextWithoutSession, DestroyContext, CreateContext, BeginPicture
  <1>5. CASE Terminate \/ DropContexts
    BY <1>1, <1>5 DEF Terminate, DropContexts, LastInv
  <1> QED  BY <1>2, <1>3, <1>4, <1>5 DEF Next

\* Every step keeps LastInv.
LEMMA LastNext == Inv /\ LastInv /\ [Next]_vars => LastInv'
  <1> SUFFICES ASSUME Inv, LastInv, [Next]_vars PROVE LastInv'  OBVIOUS
  <1>1. CASE UNCHANGED vars  BY <1>1 DEF vars, LastInv
  <1>2. CASE Next
    <2> SUFFICES ASSUME last'.status # "none" PROVE phase' = "running"  BY DEF LastInv
    <2>1. PICK c \in Contexts : EndPicture(c) \/ EndPictureFails(c)  BY <1>2, Recorded
    <2> QED  BY <2>1 DEF EndPicture, EndPictureFails, MayEnd
  <1> QED  BY <1>1, <1>2

\* What vaEndPicture records: the target it has, submitted if it is registered.
LEMMA EndPictureRecords ==
    ASSUME Inv, NEW c \in Contexts, EndPicture(c)
    PROVE  /\ last'.key \in Keys /\ Register(c, last'.key) /\ phase = "running"
           /\ last'.status \in Statuses => last'.key \in registered'[c]
           /\ last'.status = "InvalidSurface" => last'.key \notin registered'[c]
  <1> DEFINE k == current_target[c]
  <1>1. k \in Keys /\ Register(c, k) /\ phase = "running"
    BY DEF EndPicture, MayEnd, Inv, TypeOK
  <1>2. PICK still \in SUBSET pending[c] :
          IF k \in registered'[c]
            THEN \E status \in {"submitted", "deferred", "error"} :
                   /\ Finish(k, status)
                   /\ pending' = [pending EXCEPT ![c] =
                                    IF status = "deferred" THEN still \cup {k} ELSE still]
            ELSE /\ Finish(k, "InvalidSurface")
                 /\ pending' = [pending EXCEPT ![c] = still]
    BY DEF EndPicture
  <1>3. CASE k \in registered'[c]
    <2>1. PICK status \in Statuses : last' = [key |-> k, status |-> status]
      BY <1>2, <1>3 DEF Finish, Statuses
    <2> QED  BY <1>1, <1>3, <2>1 DEF Statuses
  <1>4. CASE k \notin registered'[c]
    <2>1. last' = [key |-> k, status |-> "InvalidSurface"]  BY <1>2, <1>4 DEF Finish
    <2> QED  BY <1>1, <1>4, <2>1 DEF Statuses
  <1> QED  BY <1>3, <1>4

\* So LastInv holds in every reachable state.
LEMMA LastHolds == Spec => []LastInv
  <1>1. Init => LastInv  BY DEF Init, LastInv
  <1> QED  BY <1>1, LastNext, LifetimeCorrect, PTL DEF Spec

\* vaEndPicture never submits a DMA-BUF surface that vaDestroySurfaces took
\* away, whichever session registered it and whoever remembers it as target.
THEOREM DestroyedNotSubmitted == Spec => DestroyedDmaBufNotSubmitted
  <1> DEFINE A == last'.status \in {"submitted", "deferred"} /\ kind[last'.key] = "dmabuf"
                    => last'.key \in live
  <1>1. Inv /\ Inv' /\ LastInv /\ [Next]_vars => [A]_vars
    <2> SUFFICES ASSUME Inv, Inv', LastInv, Next,
                        last'.status \in {"submitted", "deferred"}, kind[last'.key] = "dmabuf"
                 PROVE  last'.key \in live
      OBVIOUS
    <2>1. PICK c \in Contexts : EndPicture(c) \/ EndPictureFails(c)  BY Recorded
    <2>2. ~EndPictureFails(c)  BY DEF EndPictureFails, Finish
    <2>3. last'.key \in registered'[c] /\ phase = "running"
      BY <2>1, <2>2, EndPictureRecords DEF Statuses
    <2>4. kind' = kind /\ live' = live /\ phase' = phase  BY <2>1, <2>2 DEF EndPicture
    <2> QED  BY <2>3, <2>4, <2>1 DEF Inv, DmaBufUnregisteredFirst, RegistrationsLive
  <1> QED  BY <1>1, LifetimeCorrect, LastHolds, PTL DEF Spec, DestroyedDmaBufNotSubmitted

\* Every session encodes every live Internal surface: vaEndPicture registers
\* those its table misses.
THEOREM InternalEncodable == Spec => InternalNeverInvalid
  <1> DEFINE A == last' # last /\ last'.status = "InvalidSurface" =>
                    ~(last'.key \in live /\ kind[last'.key] = "internal")
  <1>1. Inv /\ LastInv /\ [Next]_vars => [A]_vars
    <2> SUFFICES ASSUME Inv, LastInv, Next, last'.status = "InvalidSurface"
                 PROVE  ~(last'.key \in live /\ kind[last'.key] = "internal")
      OBVIOUS
    <2>1. PICK c \in Contexts : EndPicture(c) \/ EndPictureFails(c)  BY Recorded
    <2>2. ~EndPictureFails(c)  BY DEF EndPictureFails, Finish
    <2>3. /\ last'.key \in Keys /\ Register(c, last'.key)
          /\ last'.key \notin registered'[c]
      BY <2>1, <2>2, EndPictureRecords
    <2> QED  BY <2>1, <2>3, RegisterValues DEF Inv
  <1> QED  BY <1>1, LifetimeCorrect, LastHolds, PTL DEF Spec, InternalNeverInvalid
---------------------------------------------------------------------------
(* Where DmaBufNeverInvalid, which a run refutes, does hold: a client that *)
(* uses each of its DMA-BUF surfaces with one context only.                *)

\* owner[k] is the one context that vaBeginPicture is given k with.
OneContextEach(owner) ==
    \A c \in Contexts : \A k \in Keys :
        current_target[c] = k /\ kind[k] = "dmabuf" => owner[k] = c

\* A set OnceLock then means what register_external_surface takes it for: the
\* session has the surface in its table, or encodes no more.
CacheTrue(owner) ==
    \A k \in registered_nvenc :
        k \in registered[owner[k]] \/ session[owner[k]] = "closed"

\* vaEndPicture sets the OnceLock and the owner's table entry together.
LEMMA EndPictureCacheTrue ==
    ASSUME NEW owner \in [Keys -> Contexts], NEW c \in Contexts,
           Inv, OneContextEach(owner), CacheTrue(owner), EndPicture(c)
    PROVE  CacheTrue(owner)'
  <1> DEFINE k == current_target[c]
  <1>1. k \in Keys /\ Register(c, k) /\ UNCHANGED <<kind, session>>
    BY DEF EndPicture, MayEnd, Inv, TypeOK
  <1>2. \A d \in Contexts : registered[d] \subseteq registered'[d]
    BY <1>1, RegisterValues DEF Inv
  <1>3. \A m \in registered_nvenc' \ registered_nvenc : m = k /\ kind[k] = "dmabuf" /\ k \in registered'[c]
    BY <1>1 DEF Register, Inv, TypeOK
  <1>4. SUFFICES ASSUME NEW m \in registered_nvenc'
                 PROVE  m \in registered'[owner[m]] \/ session'[owner[m]] = "closed"
    BY DEF CacheTrue
  <1>5. CASE m \in registered_nvenc
    <2>1. owner[m] \in Contexts  BY <1>5 DEF Inv, TypeOK
    <2> QED  BY <1>1, <1>2, <1>5, <2>1 DEF CacheTrue
  <1>6. CASE m \notin registered_nvenc
    <2>1. m = k /\ kind[k] = "dmabuf" /\ k \in registered'[c]  BY <1>3, <1>6
    <2>2. owner[k] = c  BY <1>1, <2>1 DEF OneContextEach
    <2> QED  BY <2>1, <2>2
  <1> QED  BY <1>5, <1>6

\* Every step keeps CacheTrue.
LEMMA CacheTrueNext ==
    ASSUME NEW owner \in [Keys -> Contexts],
           Inv, OneContextEach(owner), CacheTrue(owner), [Next]_vars
    PROVE  CacheTrue(owner)'
  <1>0. \A k \in registered_nvenc : k \in Keys /\ k \in live /\ kind[k] = "dmabuf" /\ owner[k] \in Contexts
    BY DEF Inv, TypeOK
  <1>1. CASE UNCHANGED vars  BY <1>1 DEF vars, CacheTrue
  <1>2. ASSUME NEW k \in Keys,
               CreateSurface(k, "internal") \/ CreateSurface(k, "dmabuf") \/ DropSurface(k)
        PROVE  CacheTrue(owner)'
    BY <1>2 DEF CreateSurface, DropSurface, CacheTrue
  <1>3. ASSUME NEW k \in Keys, DestroySurface(k)
        PROVE  CacheTrue(owner)'
    <2>1. /\ registered_nvenc' = registered_nvenc \ {k} /\ session' = session
          /\ \A c \in Contexts : registered[c] \ {k} \subseteq registered'[c]
      BY <1>3 DEF DestroySurface, Unregistered
    <2> QED  BY <1>0, <2>1 DEF CacheTrue
  <1>4. ASSUME NEW c \in Contexts,
               \/ CreateContextWithoutSession(c)
               \/ \E targets \in SUBSET Keys : CreateContext(c, targets)
        PROVE  CacheTrue(owner)'
    <2>1. /\ session[c] = "absent" /\ registered_nvenc' = registered_nvenc
          /\ \A d \in Contexts : d # c => session'[d] = session[d] /\ registered'[d] = registered[d]
      BY <1>4 DEF CreateContextWithoutSession, CreateContext, Inv, TypeOK
    <2>2. registered[c] = {}  BY <2>1 DEF Inv, TypeOK, Open
    <2> QED  BY <1>0, <2>1, <2>2 DEF CacheTrue
  <1>5. ASSUME NEW c \in Contexts, DestroyContext(c)
        PROVE  CacheTrue(owner)'
    <2>1. /\ session'[c] = "closed" /\ registered_nvenc' = registered_nvenc
          /\ \A d \in Contexts : d # c => session'[d] = session[d] /\ registered'[d] = registered[d]
      BY <1>5 DEF DestroyContext, DropSession, Inv, TypeOK
    <2> QED  BY <1>0, <2>1 DEF CacheTrue
  <1>6. ASSUME NEW c \in Contexts,
               EndPictureFails(c) \/ \E k \in Keys : BeginPicture(c, k)
        PROVE  CacheTrue(owner)'
    BY <1>6 DEF EndPictureFails, BeginPicture, CacheTrue
  <1>7. CASE Terminate  BY <1>7 DEF Terminate, CacheTrue
  <1>8. CASE DropContexts
    <2>1. session' = [c \in Contexts |-> "closed"] /\ registered_nvenc' = registered_nvenc
      BY <1>8 DEF DropContexts
    <2> QED  BY <1>0, <2>1 DEF CacheTrue
  <1> QED  BY <1>1, <1>2, <1>3, <1>4, <1>5, <1>6, <1>7, <1>8, EndPictureCacheTrue DEF Next

\* Encoding a live surface never ends in InvalidSurface for a client that uses
\* each DMA-BUF surface with one context, however many contexts it has, one
\* after the other or at once: the OnceLock of lib.rs's "short-circuit" is as
\* good as the table then.  Surface_reregister is a client with two.
THEOREM OneContextEncodable ==
    ASSUME NEW CONSTANT owner \in [Keys -> Contexts]
    PROVE  Spec /\ []OneContextEach(owner) => DmaBufNeverInvalid
  <1> DEFINE A == last' # last /\ last'.status = "InvalidSurface" => last'.key \notin live
  <1>1. Init => CacheTrue(owner)  BY DEF Init, CacheTrue
  <1>2. Inv /\ OneContextEach(owner) /\ CacheTrue(owner) /\ [Next]_vars => CacheTrue(owner)'
    BY CacheTrueNext
  <1>3. Inv /\ LastInv /\ OneContextEach(owner) /\ CacheTrue(owner) /\ [Next]_vars => [A]_vars
    <2> SUFFICES ASSUME Inv, LastInv, OneContextEach(owner), CacheTrue(owner), Next,
                        last'.status = "InvalidSurface", last'.key \in live
                 PROVE  FALSE
      OBVIOUS
    <2>1. PICK c \in Contexts : EndPicture(c) \/ EndPictureFails(c)  BY Recorded
    <2>2. ~EndPictureFails(c)  BY DEF EndPictureFails, Finish
    <2> DEFINE k == current_target[c]
    <2>3. last'.key \in Keys /\ Register(c, last'.key) /\ last'.key \notin registered'[c]
      BY <2>1, <2>2, EndPictureRecords
    <2>4. last'.key = k /\ session[c] = "open"
      BY <2>1, <2>2 DEF EndPicture, Finish
    <2> HIDE DEF k
    <2>5. kind[k] = "dmabuf"
      BY <2>3, <2>4, RegisterValues DEF Inv, TypeOK
    <2>6. k \in registered_nvenc /\ k \notin registered[c]
      <3>1. ~NeedsRegistration(c, k)
        BY <2>3, <2>4 DEF Register, Inv, TypeOK
      <3>2. registered' = registered  BY <2>3, <2>4, <3>1 DEF Register
      <3> QED  BY <2>3, <2>4, <2>5, <3>1, <3>2 DEF NeedsRegistration
    <2>7. owner[k] = c  BY <2>3, <2>4, <2>5 DEF OneContextEach, k
    <2> QED  BY <2>4, <2>6, <2>7 DEF CacheTrue
  <1> QED  BY <1>1, <1>2, <1>3, LifetimeCorrect, LastHolds, PTL DEF Spec, DmaBufNeverInvalid
---------------------------------------------------------------------------
(* Where UnregisteredFirstAtTerminate, which a run refutes, does hold: a   *)
(* client that destroyed its DMA-BUF surfaces or its contexts before.      *)

Tidy == (\A k \in live : kind[k] # "dmabuf") \/ Open = {}

\* No DMA-BUF surface is registered once vaTerminate has begun.
NoneRegistered == phase = "terminating" => \A c \in Contexts : \A k \in registered[c] : kind[k] # "dmabuf"

\* vaTerminate drops the CUDA memory of the surfaces before it drops the
\* sessions: it finds nothing registered when the client was tidy, the surfaces
\* destroyed having left every table (DmaBufUnregisteredFirst) and the contexts
\* destroyed having none.
THEOREM TidyTerminates ==
    Spec /\ [][Terminate => Tidy]_vars => []UnregisteredFirstAtTerminate
  <1>1. Init => NoneRegistered  BY DEF Init, NoneRegistered
  <1>2. Inv /\ NoneRegistered /\ [Next]_vars /\ [Terminate => Tidy]_vars => NoneRegistered'
    <2> SUFFICES ASSUME Inv, NoneRegistered, [Next]_vars, [Terminate => Tidy]_vars,
                        phase' = "terminating", NEW c \in Contexts, NEW k \in registered'[c]
                 PROVE  kind'[k] # "dmabuf"
      BY DEF NoneRegistered
    <2>1. CASE UNCHANGED vars  BY <2>1 DEF vars, NoneRegistered
    <2>2. CASE Terminate /\ Tidy
      <3>1. phase = "running" /\ UNCHANGED <<kind, live, registered>>  BY <2>2 DEF Terminate
      <3>2. c \in Open  BY <3>1 DEF Inv, TypeOK
      <3>3. kind[k] = "dmabuf" => k \in live
        BY <3>1 DEF Inv, DmaBufUnregisteredFirst, RegistrationsLive
      <3> QED  BY <2>2, <3>1, <3>2, <3>3 DEF Tidy
    <2>3. ASSUME NEW m \in Keys, DropSurface(m) PROVE kind'[k] # "dmabuf"
      BY <2>3 DEF DropSurface, NoneRegistered
    <2>4. CASE DropContexts  BY <2>4 DEF DropContexts
    <2>5. CASE phase' = "running"  BY <2>5
    <2>6. CASE Next /\ ~Terminate
      <3>1. ASSUME NEW m \in Keys,
                   CreateSurface(m, "internal") \/ CreateSurface(m, "dmabuf") \/ DestroySurface(m)
            PROVE  phase' = "running"
        BY <3>1 DEF CreateSurface, DestroySurface
      <3>2. ASSUME NEW d \in Contexts,
                   \/ CreateContextWithoutSession(d) \/ DestroyContext(d)
                   \/ EndPictureFails(d) \/ EndPicture(d)
                   \/ \E targets \in SUBSET Keys : CreateContext(d, targets)
                   \/ \E m \in Keys : BeginPicture(d, m)
            PROVE  phase' = "running"
        BY <3>2 DEF CreateContextWithoutSession, DestroyContext, EndPictureFails, EndPicture,
                    MayEnd, CreateContext, BeginPicture
      <3> QED  BY <2>3, <2>4, <2>5, <2>6, <3>1, <3>2 DEF Next
    <2>7. Terminate => phase' # phase
      BY DEF Terminate
    <2>8. Terminate => Tidy  BY <2>7 DEF vars
    <2> QED  BY <2>1, <2>2, <2>6, <2>8
  <1>3. NoneRegistered => UnregisteredFirstAtTerminate
    BY DEF NoneRegistered, UnregisteredFirstAtTerminate, RegistrationsLive
  <1> QED  BY <1>1, <1>2, <1>3, LifetimeCorrect, PTL DEF Spec
===========================================================================
