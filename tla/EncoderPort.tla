---------------------------- MODULE EncoderPort ----------------------------
(***************************************************************************)
(* What an encode session promises its caller, whatever the hardware does: *)
(* the abstract specification NvencSession implements.                     *)
(*                                                                         *)
(* A call offers one frame.  The port either answers "error", and then     *)
(* does not keep the frame, or accepts it and answers with the bytes of    *)
(* some accepted frame, or with "pending".  An accepted frame is returned  *)
(* at most once; it is lost only if the hardware gives it up, never in the *)
(* call that accepted it.  Between calls at most Capacity frames are held, *)
(* so "pending" is never answered by a port that is over its capacity.     *)
(***************************************************************************)
EXTENDS Naturals, FiniteSets

CONSTANTS Frames, Capacity, NoFrame

VARIABLES
    busy,     \* a call is in progress
    offered,  \* the frame the call in progress had accepted, or NoFrame
    held,     \* accepted, neither returned nor lost
    ret       \* the last answer

vars == <<busy, offered, held, ret>>

Init == busy = FALSE /\ offered = NoFrame /\ held = {}
          /\ ret = [kind |-> "none", frame |-> NoFrame]

Call ==
    /\ ~busy
    /\ busy' = TRUE /\ ret' = [kind |-> "none", frame |-> NoFrame]
    /\ UNCHANGED <<offered, held>>

Accept(f) ==
    /\ busy /\ offered = NoFrame /\ f \notin held
    /\ Cardinality(held) <= Capacity
    /\ offered' = f /\ held' = held \cup {f}
    /\ UNCHANGED <<busy, ret>>

Lose(f) ==
    /\ busy /\ offered = NoFrame /\ f \in held
    /\ held' = held \ {f}
    /\ UNCHANGED <<busy, offered, ret>>

Answer(a) == busy' = FALSE /\ offered' = NoFrame /\ ret' = a

Deliver(f) ==
    /\ busy /\ offered # NoFrame /\ f \in held
    /\ held' = held \ {f}
    /\ Answer([kind |-> "bytes", frame |-> f])

Defer ==
    /\ busy /\ offered \in held
    /\ Cardinality(held) <= Capacity
    /\ Answer([kind |-> "pending", frame |-> NoFrame])
    /\ UNCHANGED held

Refuse ==
    /\ busy /\ offered = NoFrame
    /\ Answer([kind |-> "error", frame |-> NoFrame])
    /\ UNCHANGED held

Reset ==
    /\ ~busy
    /\ held' = {} /\ ret' = [kind |-> "none", frame |-> NoFrame]
    /\ UNCHANGED <<busy, offered>>

Next == \/ Call \/ Defer \/ Refuse \/ Reset
        \/ \E f \in Frames : Accept(f) \/ Lose(f) \/ Deliver(f)

Spec == Init /\ [][Next]_vars
===========================================================================
