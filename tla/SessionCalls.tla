---------------------------- MODULE SessionCalls ----------------------------
(***************************************************************************)
(* An encode session as the modules above it take it: a whole call of      *)
(* encode_frame is one step, and a frame is known by where it is, not by   *)
(* its slot.  PictureFlow uses what this says of `held` and the answers,   *)
(* SurfaceLifetime what it says of `registered` and `deferred`.            *)
(* NvencSession implements it, so both may.                                *)
(*                                                                         *)
(* EncoderPort speaks of the steps inside a call; here a call that accepts *)
(* a frame takes effect when it answers, and NVENC's reads of earlier      *)
(* frames, which no answer depends on, come before it, one by one.         *)
(***************************************************************************)
EXTENDS Naturals, FiniteSets

CONSTANTS Surfaces, Frames, Capacity, NoFrame

VARIABLES
    registered,   \* surfaces that may be encoded
    held,         \* accepted frames, neither returned nor lost
    deferred,     \* those of them whose input is still mapped
    ret           \* the answer of the last call, if it has ended

vars == <<registered, held, deferred, ret>>

Answer(kind) == [kind |-> kind, frame |-> NoFrame]

Init == registered = {} /\ held = {} /\ deferred = {} /\ ret = Answer("none")

Register(s) ==
    /\ s \notin registered /\ registered' = registered \cup {s}
    /\ UNCHANGED <<held, deferred, ret>>

Unregister(s) ==
    /\ s \in registered /\ registered' = registered \ {s}
    /\ UNCHANGED <<held, deferred, ret>>

Begin == ret' = Answer("none") /\ UNCHANGED <<registered, held, deferred>>

\* NVENC is done with a deferred frame: its bytes wait for a caller, or it is
\* lost.  In both cases its input is unmapped.
Retire(f) ==
    /\ f \in deferred /\ deferred' = deferred \ {f}
    /\ held' = held \/ held' = held \ {f}
    /\ UNCHANGED <<registered, ret>>

Refuse == ret' = Answer("error") /\ UNCHANGED <<registered, held, deferred>>

\* Only a frame of a registered surface is accepted, and none twice.
Accepts(f) == f \in Frames \ held /\ f.key \in registered /\ UNCHANGED registered

\* The bytes of g, this frame or an earlier one, which no slot remembers.
EncodeBytes(f, g) ==
    /\ Accepts(f)
    /\ deferred' = deferred \/ deferred' = deferred \cup {f}
    /\ g \in (held \cup {f}) \ deferred'
    /\ held' = (held \cup {f}) \ {g}
    /\ ret' = [kind |-> "bytes", frame |-> g]

\* No bytes wait for a caller, and there is room for one frame more.
EncodePending(f) ==
    /\ Accepts(f)
    /\ held = deferred /\ Cardinality(held) < Capacity
    /\ deferred' = deferred \cup {f} /\ held' = held \cup {f}
    /\ ret' = Answer("pending")

Close == registered' = {} /\ held' = {} /\ deferred' = {} /\ ret' = Answer("none")

Next ==
    \/ \E s \in Surfaces : Register(s) \/ Unregister(s)
    \/ Begin \/ Refuse \/ Close
    \/ \E f \in Frames : \/ Retire(f) \/ EncodePending(f)
                         \/ \E g \in Frames : EncodeBytes(f, g)

Spec == Init /\ [][Next]_vars
=============================================================================
