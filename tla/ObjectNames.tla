----------------------------- MODULE ObjectNames -----------------------------
(***************************************************************************)
(* What a pool of objects promises to those who name its objects, clients  *)
(* by ID and the driver's records by key: the abstract specification       *)
(* IdPool implements.  It has objects and no slots, versions or keys.      *)
(***************************************************************************)
CONSTANTS Entries, Ids

VARIABLES
    live,     \* the objects that exist
    issued,   \* client: the IDs it was given, and for which object
    kept      \* the objects the driver's records refer to

vars == <<live, issued, kept>>

Init == live = {} /\ issued = {} /\ kept = {}

\* No live object is known under this ID, and no record refers to the new one.
Insert(e, id) ==
    /\ e \notin live \cup kept \cup {h.entry : h \in issued}
    /\ \A h \in issued : h.entry \in live => h.id # id
    /\ live' = live \cup {e} /\ issued' = issued \cup {[id |-> id, entry |-> e]}
    /\ UNCHANGED kept

\* The objects an ID may name: its own while that lives, and after that one
\* later object at most, which goes by the same ID and by no other.
Named(h, e) ==
    /\ e \in live
    /\ h.entry \in live => e = h.entry
    /\ \A g \in issued : g.entry = e => g.id = h.id

Destroy(h) ==
    /\ h \in issued
    /\ \/ h.entry \notin live /\ live' = live
       \/ \E e \in Entries : Named(h, e) /\ live' = live \ {e}
    /\ UNCHANGED <<issued, kept>>

Keep(h) ==
    /\ h \in issued
    /\ \E e \in Entries : Named(h, e) /\ kept' = kept \cup {e}
    /\ UNCHANGED <<live, issued>>

\* Through a record: that very object or, if it is gone, none.
DestroyKept(e) ==
    /\ e \in kept
    /\ live' = live \ {e} /\ kept' \in {kept, kept \ {e}}
    /\ UNCHANGED issued

Forget == issued' \subseteq issued /\ kept' \subseteq kept /\ UNCHANGED live

Next ==
    \/ \E e \in Entries, id \in Ids : Insert(e, id)
    \/ \E h \in issued : Destroy(h) \/ Keep(h)
    \/ \E e \in kept : DestroyKept(e)
    \/ Forget

Spec == Init /\ [][Next]_vars
=============================================================================
