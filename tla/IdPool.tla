------------------------------- MODULE IdPool -------------------------------
(***************************************************************************)
(* One object pool and its IDs: src/ids.rs over slotmap's DenseSlotMap.    *)
(*                                                                         *)
(* A key is a slot index and the version the slot had when the entry was   *)
(* inserted; as_ffi puts the version in the upper 32 bits and the index in *)
(* the lower.  Clients get 32-bit IDs, the low bits of a key; records of   *)
(* the driver (current_target, coded_buf, buffer_key, a session's          *)
(* registrations) keep whole keys.                                         *)
(*                                                                         *)
(* An entry is a token: which object it is, not what is in it.             *)
(***************************************************************************)
EXTENDS Naturals, Sequences, FiniteSets

CONSTANTS
    MaxSlots,      \* bound: slots the pool may grow to
    MaxVersion,    \* bound: the version a slot may reach, 2^32 - 1 in the code
    Entries,       \* tokens of objects, reusable once nobody refers to them
    NoEntry, NoKey

ASSUME BoundsAssumption == MaxSlots \in Nat \ {0} /\ MaxVersion \in Nat \ {0}
ASSUME NullAssumption == NoEntry \notin Entries /\ NoKey \notin Nat \X Nat

VARIABLES
    version,       \* of every slot ever used: odd while occupied
    entry,         \* what the slot holds, or NoEntry
    free,          \* vacant slots, the one to reuse first at the head
    issued,        \* client: the IDs it was given, and for which entry
    kept           \* records: the keys they keep, and for which entry

vars == <<version, entry, free, issued, kept>>

Slots    == 1 .. Len(version)
Occupied == {i \in Slots : entry[i] # NoEntry}
Live     == {entry[i] : i \in Occupied}

Key(i)       == <<version[i], i>>       \* KeyData: version << 32 | index
HighBits(k)  == k[1]                     \* what if: the other half is kept
key_to_id(k) == k[2]                     \* as_ffi() & 0xFFFF_FFFF

\* The key of the entry an ID names: a scan over the occupied slots.
FindByLowBits(id) ==
    LET found == {i \in Occupied : key_to_id(Key(i)) = id}
    IN  IF found = {} THEN NoKey ELSE Key(CHOOSE i \in found : TRUE)

\* slotmap's get: index and version have to match.
\* What if: the version is not compared.
SameIndex(k) == IF k # NoKey /\ k[2] \in Occupied THEN entry[k[2]] ELSE NoEntry
Get(k) == IF k # NoKey /\ k[2] \in Occupied /\ version[k[2]] = k[1]
            THEN entry[k[2]] ELSE NoEntry

Fresh == Entries \ (Live \cup {h.entry : h \in issued} \cup {r.entry : r \in kept})
---------------------------------------------------------------------------
Init == version = <<>> /\ entry = <<>> /\ free = <<>> /\ issued = {} /\ kept = {}

\* vaCreateXxx: the client gets the ID of a reused slot if there is one.
Insert(e) ==
    /\ e \in Fresh
    /\ IF free # <<>>
         THEN LET i == Head(free) IN
              /\ version[i] < MaxVersion
              /\ version' = [version EXCEPT ![i] = @ + 1]
              /\ entry' = [entry EXCEPT ![i] = e]
              /\ free' = Tail(free)
              /\ issued' = issued \cup {[id |-> key_to_id(<<version[i] + 1, i>>), entry |-> e]}
         ELSE /\ Len(version) < MaxSlots
              /\ version' = Append(version, 1) /\ entry' = Append(entry, e)
              /\ issued' = issued \cup
                     {[id |-> key_to_id(<<1, Len(version) + 1>>), entry |-> e]}
              /\ UNCHANGED free
    /\ UNCHANGED kept

\* What if: removal does not change the slot's version.
SameVersion(k) ==
    IF Get(k) = NoEntry THEN UNCHANGED <<version, entry, free>>
    ELSE /\ version' = version
         /\ entry' = [entry EXCEPT ![k[2]] = NoEntry]
         /\ free' = <<k[2]>> \o free
RemoveKey(k) ==
    IF Get(k) = NoEntry THEN UNCHANGED <<version, entry, free>>
    ELSE /\ version' = [version EXCEPT ![k[2]] = @ + 1]
         /\ entry' = [entry EXCEPT ![k[2]] = NoEntry]
         /\ free' = <<k[2]>> \o free

\* vaDestroyXxx of an ID the client remembers, valid or stale.
Destroy(h) ==
    /\ h \in issued
    /\ RemoveKey(FindByLowBits(h.id))
    /\ UNCHANGED <<issued, kept>>

\* A call resolves an ID the client remembers and stores the key it found.
Keep(h) ==
    /\ h \in issued
    /\ LET k == FindByLowBits(h.id) IN
       /\ Get(k) # NoEntry
       /\ kept' = kept \cup {[key |-> k, entry |-> Get(k)]}
    /\ UNCHANGED <<version, entry, free, issued>>

\* vaDestroyImage removes the buffer its record keeps the key of: "If the
\* client already destroyed it separately this is a no-op".
\* What if: removes what now has the ID of the buffer.
RemovesById(r) ==
    /\ r \in kept
    /\ RemoveKey(FindByLowBits(key_to_id(r.key))) /\ kept' = kept \ {r}
    /\ UNCHANGED issued
DestroyKept(r) ==
    /\ r \in kept
    /\ RemoveKey(r.key) /\ kept' = kept \ {r}
    /\ UNCHANGED issued

Forget ==
    \/ \E h \in issued : issued' = issued \ {h} /\ UNCHANGED <<version, entry, free, kept>>
    \/ \E r \in kept : kept' = kept \ {r} /\ UNCHANGED <<version, entry, free, issued>>

Next ==
    \/ \E e \in Entries : Insert(e)
    \/ \E h \in issued : Destroy(h) \/ Keep(h)
    \/ \E r \in kept : DestroyKept(r)
    \/ Forget

Spec == Init /\ [][Next]_vars
---------------------------------------------------------------------------
(* Properties. *)

\* Types; the free list is exactly the vacant slots, each once, and versions
\* are odd in occupied slots and even in vacant ones.
TypeOK ==
    /\ Len(version) <= MaxSlots /\ Len(entry) = Len(version)
    /\ \A i \in Slots : /\ version[i] \in 1 .. MaxVersion + 1
                        /\ entry[i] \in Entries \cup {NoEntry}
                        /\ i \in Occupied <=> version[i] % 2 = 1
    /\ Len(free) = Cardinality(Slots \ Occupied)
    /\ {free[k] : k \in 1 .. Len(free)} = Slots \ Occupied

\* The ID of a live object names that object, although IDs drop half of the
\* key and slots are reused: no two live objects share an ID.
LiveIdResolves ==
    \A h \in issued : h.entry \in Live => Get(FindByLowBits(h.id)) = h.entry

\* A key kept in a record never resolves to an object inserted later in the
\* same slot: a session, an image or a context that outlives its object finds
\* nothing, whatever stale IDs the client passes around meanwhile.
KeptKeyNeverAliases ==
    \A r \in kept : Get(r.key) = IF r.entry \in Live THEN r.entry ELSE NoEntry

\* The pool implements ObjectNames: a record destroys or finds its own object
\* or none, and a stale ID, whatever it hits, one object at most and never one
\* that the client knows by another ID.
Names == INSTANCE ObjectNames WITH
    Ids  <- 1 .. MaxSlots,
    live <- Live,
    kept <- {r.entry : r \in kept}

ImplementsNames == Names!Spec
=============================================================================
