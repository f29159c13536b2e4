-------------------------- MODULE SurfaceLifetime --------------------------
(***************************************************************************)
(* Surfaces, contexts and NVENC registrations: who may still refer to a    *)
(* surface's GPU memory when that memory is released.                      *)
(*                                                                         *)
(* src/driver/surface.rs (create, destroy), context.rs (create, destroy),  *)
(* the registration half of picture.rs, state.rs (SurfaceRec, drop order)  *)
(* and lib.rs (terminate).  A vtable function holds the `pools` lock, so   *)
(* each is one step; only the drops of vaTerminate, which order matters    *)
(* for, are steps of their own.                                            *)
(*                                                                         *)
(* A key is a slotmap key and is never used twice.  Of a session only its  *)
(* registrations and the surfaces of its Pending slots are kept            *)
(* (NvencSession has the rest).                                            *)
(***************************************************************************)
EXTENDS Naturals, FiniteSets

CONSTANTS
    Keys,          \* surface keys, each for one surface ever created
    Contexts,      \* context keys, likewise
    NoKey

ASSUME NoKeyAssumption == NoKey \notin Keys

VARIABLES
    kind,          \* SurfaceKind of each key ever created
    live,          \* keys whose CUDA memory exists: pools.surfaces
    registered_nvenc,  \* DMA-BUF keys whose OnceLock is set
    session,       \* of each context: "absent", "none" (no GPU), "open", "closed"
    registered,    \* of each session: the keys in its `registered` table
    pending,       \* of each session: the keys whose input is still mapped
    current_target,
    phase,         \* "running", "terminating", "terminated"
    last           \* history: the last vaEndPicture, its target and its status

vars == <<kind, live, registered_nvenc, session, registered, pending,
          current_target, phase, last>>

NoCall == [key |-> NoKey, status |-> "none"]
Open   == {c \in Contexts : session[c] = "open"}

Init ==
    /\ kind = [k \in Keys |-> "none"] /\ live = {} /\ registered_nvenc = {}
    /\ session = [c \in Contexts |-> "absent"]
    /\ registered = [c \in Contexts |-> {}] /\ pending = [c \in Contexts |-> {}]
    /\ current_target = [c \in Contexts |-> NoKey]
    /\ phase = "running" /\ last = NoCall
---------------------------------------------------------------------------
CreateSurface(k, sort) ==
    /\ phase = "running" /\ kind[k] = "none"
    /\ kind' = [kind EXCEPT ![k] = sort] /\ live' = live \cup {k}
    /\ last' = NoCall
    /\ UNCHANGED <<registered_nvenc, session, registered, pending, current_target, phase>>

\* unregister_surface, on every session.
LeavesRegistered(k) == registered  \* what if: not called
Unregistered(k) == [c \in Contexts |-> registered[c] \ {k}]

\* Only a DMA-BUF surface is unregistered before it goes.
DestroySurface(k) ==
    /\ phase = "running" /\ k \in live
    /\ registered' = IF kind[k] = "dmabuf" THEN Unregistered(k) ELSE registered
    /\ live' = live \ {k} /\ registered_nvenc' = registered_nvenc \ {k}
    /\ last' = NoCall
    /\ UNCHANGED <<kind, session, pending, current_target, phase>>

\* create_context registers the Internal render targets with the new session.
CreateContext(c, targets) ==
    /\ phase = "running" /\ session[c] = "absent"
    /\ targets \subseteq live
    /\ session' = [session EXCEPT ![c] = "open"]
    /\ registered' = [registered EXCEPT ![c] = {k \in targets : kind[k] = "internal"}]
    /\ last' = NoCall
    /\ UNCHANGED <<kind, live, registered_nvenc, pending, current_target, phase>>

\* CUDA or NVENC did not come up: the context exists without a session.
CreateContextWithoutSession(c) ==
    /\ phase = "running" /\ session[c] = "absent"
    /\ session' = [session EXCEPT ![c] = "none"]
    /\ last' = NoCall
    /\ UNCHANGED <<kind, live, registered_nvenc, registered, pending, current_target, phase>>

\* Drop of NvencSession unmaps its Pending inputs and empties its table; the
\* surfaces' own records are not told.
\* What if: the table survives.
KeepsTable(c)  == /\ pending' = [pending EXCEPT ![c] = {}] /\ registered' = registered
DropSession(c) == /\ pending' = [pending EXCEPT ![c] = {}]
                  /\ registered' = [registered EXCEPT ![c] = {}]

DestroyContext(c) ==
    /\ phase = "running" /\ session[c] \in {"open", "none"}
    /\ session' = [session EXCEPT ![c] = "closed"] /\ DropSession(c)
    /\ current_target' = [current_target EXCEPT ![c] = NoKey]
    /\ last' = NoCall
    /\ UNCHANGED <<kind, live, registered_nvenc, phase>>

BeginPicture(c, k) ==
    /\ phase = "running" /\ session[c] \in {"open", "none"} /\ k \in live
    /\ current_target' = [current_target EXCEPT ![c] = k]
    /\ last' = NoCall
    /\ UNCHANGED <<kind, live, registered_nvenc, session, registered, pending, phase>>
---------------------------------------------------------------------------
(* end_picture: lazy registration of the target, then encode_frame.        *)

Finish(k, status) == last' = [key |-> k, status |-> status]

\* current_target is never reset: the surface may be destroyed by now.
MayEnd(c) == phase = "running" /\ current_target[c] # NoKey

OncePerSurface(c, k) ==  \* what if: Internal surfaces too cached theirs once
    /\ k \in live
    /\ \/ kind[k] = "internal" /\ \A d \in Contexts : k \notin registered[d]
       \/ kind[k] = "dmabuf" /\ k \notin registered_nvenc
NeedsRegistration(c, k) ==
    /\ k \in live
    /\ \/ kind[k] = "internal" /\ k \notin registered[c]
       \/ kind[k] = "dmabuf" /\ k \notin registered_nvenc

EndPictureFails(c) ==
    /\ MayEnd(c)
    /\ session[c] = "none" \/ NeedsRegistration(c, current_target[c])
    /\ Finish(current_target[c], "error")
    /\ UNCHANGED <<kind, live, registered_nvenc, session, registered, pending,
                   current_target, phase>>

\* What the table and the surface's cache hold when encode_frame is called.
Register(c, k) ==
    IF NeedsRegistration(c, k)
      THEN /\ registered' = [registered EXCEPT ![c] = @ \cup {k}]
           /\ registered_nvenc' = IF kind[k] = "dmabuf" THEN registered_nvenc \cup {k}
                                                        ELSE registered_nvenc
      ELSE UNCHANGED <<registered, registered_nvenc>>

\* encode_frame drains some Pending slots, then submits the target if the
\* table has it; a deferred frame keeps the target's input mapped.
EndPicture(c) ==
    LET k == current_target[c] IN
    /\ MayEnd(c) /\ session[c] = "open"
    /\ Register(c, k)
    /\ \E still \in SUBSET pending[c] :
         IF k \in registered'[c]
           THEN \E status \in {"submitted", "deferred", "error"} :
                  /\ Finish(k, status)
                  /\ pending' = [pending EXCEPT ![c] =
                                   IF status = "deferred" THEN still \cup {k} ELSE still]
           ELSE /\ Finish(k, "InvalidSurface")
                /\ pending' = [pending EXCEPT ![c] = still]
    /\ UNCHANGED <<kind, live, session, current_target, phase>>
---------------------------------------------------------------------------
(* vaTerminate drops DriverState: `pools` field by field, surfaces first.  *)

Terminate ==
    /\ phase = "running"
    /\ phase' = "terminating" /\ last' = NoCall
    /\ UNCHANGED <<kind, live, registered_nvenc, session, registered, pending, current_target>>

DropSurface(k) ==
    /\ phase = "terminating" /\ k \in live
    /\ live' = live \ {k} /\ registered_nvenc' = registered_nvenc \ {k}
    /\ UNCHANGED <<kind, session, registered, pending, current_target, phase, last>>

DropContexts ==
    /\ phase = "terminating" /\ live = {}
    /\ phase' = "terminated"
    /\ session' = [c \in Contexts |-> "closed"]
    /\ registered' = [c \in Contexts |-> {}] /\ pending' = [c \in Contexts |-> {}]
    /\ current_target' = [c \in Contexts |-> NoKey]
    /\ UNCHANGED <<kind, live, registered_nvenc, last>>

Next ==
    \/ \E k \in Keys : \/ CreateSurface(k, "internal") \/ CreateSurface(k, "dmabuf")
                       \/ DestroySurface(k) \/ DropSurface(k)
    \/ \E c \in Contexts :
         \/ CreateContextWithoutSession(c) \/ DestroyContext(c)
         \/ EndPictureFails(c) \/ EndPicture(c)
         \/ \E targets \in SUBSET Keys : CreateContext(c, targets)
         \/ \E k \in Keys : BeginPicture(c, k)
    \/ Terminate \/ DropContexts

Spec == Init /\ [][Next]_vars
---------------------------------------------------------------------------
(* Properties. *)

TypeOK ==
    /\ kind \in [Keys -> {"none", "internal", "dmabuf"}]
    /\ live \subseteq {k \in Keys : kind[k] # "none"}
    /\ registered_nvenc \subseteq {k \in live : kind[k] = "dmabuf"}
    /\ session \in [Contexts -> {"absent", "none", "open", "closed"}]
    /\ registered \in [Contexts -> SUBSET Keys]
    /\ pending \in [Contexts -> SUBSET Keys]
    /\ current_target \in [Contexts -> Keys \cup {NoKey}]
    /\ phase \in {"running", "terminating", "terminated"}
    /\ last.key \in Keys \cup {NoKey}
    /\ last.status \in {"none", "submitted", "deferred", "error", "InvalidSurface"}
    /\ \A c \in Contexts : c \notin Open => registered[c] = {} /\ pending[c] = {}

\* "NvEncUnregisterResource must happen before the CUDA external memory and
\* mipmap are destroyed": while the driver runs no session, of however many
\* contexts, keeps a registration of a DMA-BUF surface whose memory is gone.
RegistrationsLive ==
    \A c \in Contexts : \A k \in registered[c] : kind[k] = "dmabuf" => k \in live
DmaBufUnregisteredFirst == phase = "running" => RegistrationsLive

\* The same of the drops of vaTerminate: "BEFORE destroying the CUDA mipmap --
\* violating that order crashes the NVIDIA driver".
UnregisteredFirstAtTerminate == phase = "terminating" => RegistrationsLive

\* A context remembers its target across vaDestroySurfaces and further calls
\* of vaEndPicture; it never submits a DMA-BUF surface that was destroyed.
DestroyedDmaBufNotSubmitted ==
    [][last'.status \in {"submitted", "deferred"} /\ kind[last'.key] = "dmabuf"
         => last'.key \in live]_vars

\* Every session can encode every live Internal surface, listed among the
\* render targets or not, encoded by another session before or not.
InternalNeverInvalid ==
    [][last' # last /\ last'.status = "InvalidSurface" =>
         ~(last'.key \in live /\ kind[last'.key] = "internal")]_vars

\* "registration with NVENC is deferred to the first vaEndPicture call that
\* targets this surface" and later calls "short-circuit inside
\* register_external_surface": so the same holds of live DMA-BUF surfaces.
DmaBufNeverInvalid ==
    [][last' # last /\ last'.status = "InvalidSurface" => last'.key \notin live]_vars
===========================================================================
