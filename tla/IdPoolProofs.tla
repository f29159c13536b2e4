---------------------------- MODULE IdPoolProofs ----------------------------
(***************************************************************************)
(* Proofs about IdPool: however many slots the pool has and however often  *)
(* each is reused, the ID of a live object names that object and a kept    *)
(* key never names an object inserted later; the pool implements           *)
(* ObjectNames, which has neither slots nor keys.                          *)
(***************************************************************************)
EXTENDS IdPool, FiniteSetTheorems, SequenceTheorems, TLAPS

\* A slot's version counts: odd while occupied, and room for one more removal.
SlotInv ==
    /\ version \in Seq(Nat) /\ entry \in Seq(Entries \cup {NoEntry})
    /\ Len(entry) = Len(version) /\ Len(version) <= MaxSlots
    /\ \A i \in Slots : /\ version[i] \in 1 .. MaxVersion + 1
                        /\ entry[i] # NoEntry <=> version[i] % 2 = 1
                        /\ entry[i] # NoEntry => version[i] <= MaxVersion

\* The free list is the vacant slots, each once.
FreeInv ==
    /\ free \in Seq(Nat)
    /\ \A k \in 1 .. Len(free) : free[k] \in Slots /\ entry[free[k]] = NoEntry
    /\ \A i \in Slots : entry[i] = NoEntry => \E k \in 1 .. Len(free) : free[k] = i
    /\ \A j, k \in 1 .. Len(free) : free[j] = free[k] => j = k
    /\ Len(free) = Cardinality(Slots \ Occupied)

\* An object is in one slot, the one its IDs and keys name; a key is not newer
\* than its slot, and as new as the slot only while it is its object's.
EntryInv ==
    /\ \A i, j \in Slots : entry[i] # NoEntry /\ entry[i] = entry[j] => i = j
    /\ \A h \in issued : /\ h.entry \in Entries
                         /\ \A i \in Slots : entry[i] = h.entry => i = h.id
    /\ \A r \in kept :
         /\ r.entry \in Entries /\ r.key \in Nat \X Nat
         /\ r.key[2] \in Slots /\ r.key[1] <= version[r.key[2]]
         /\ r.key[1] = version[r.key[2]] /\ entry[r.key[2]] # NoEntry
              => entry[r.key[2]] = r.entry
         /\ \A i \in Slots : entry[i] = r.entry => i = r.key[2] /\ version[i] = r.key[1]

Inv == SlotInv /\ FreeInv /\ EntryInv
---------------------------------------------------------------------------
\* An empty pool.
LEMMA InitInv == Init => Inv
  <1> SUFFICES ASSUME Init PROVE Inv  OBVIOUS
  <1>1. Slots = {} /\ Occupied = {}  BY DEF Init, Slots, Occupied
  <1>2. SlotInv  BY <1>1, BoundsAssumption DEF Init, SlotInv
  <1>3. FreeInv  BY <1>1, FS_EmptySet DEF Init, FreeInv
  <1>4. EntryInv  BY <1>1 DEF Init, EntryInv
  <1> QED  BY <1>2, <1>3, <1>4 DEF Inv

\* The scan for the low bits finds the slot the ID is the index of.
LEMMA Find ==
    ASSUME NEW id
    PROVE  FindByLowBits(id) = IF id \in Occupied THEN Key(id) ELSE NoKey
  <1> DEFINE found == {i \in Occupied : key_to_id(Key(i)) = id}
  <1>1. found = {i \in Occupied : i = id}  BY DEF key_to_id, Key
  <1>2. CASE id \in Occupied
    <2>1. found = {id}  BY <1>1, <1>2
    <2>2. (CHOOSE i \in found : TRUE) = id  BY <2>1
    <2> QED  BY <1>2, <2>1, <2>2 DEF FindByLowBits
  <1>3. CASE id \notin Occupied
    <2>1. found = {}  BY <1>1, <1>3
    <2> QED  BY <1>3, <2>1 DEF FindByLowBits
  <1> QED  BY <1>2, <1>3

\* The key of an occupied slot finds what is in it.
LEMMA KeyResolves ==
    ASSUME SlotInv, NEW i \in Occupied
    PROVE  Key(i) # NoKey /\ Get(Key(i)) = entry[i] /\ entry[i] \in Entries
  <1>1. i \in Slots /\ entry[i] # NoEntry  BY DEF Occupied
  <1>2. version[i] \in Nat /\ i \in Nat  BY <1>1 DEF SlotInv, Slots
  <1>3. Key(i) # NoKey  BY <1>2, NullAssumption DEF Key
  <1>4. entry[i] \in Entries  BY <1>1 DEF SlotInv, Slots
  <1> QED  BY <1>3, <1>4 DEF Get, Key

\* The vacant slots can be counted.
LEMMA SlotsFinite == ASSUME SlotInv PROVE IsFiniteSet(Slots \ Occupied)
  <1>1. IsFiniteSet(Slots)  BY FS_Interval DEF SlotInv, Slots
  <1> QED  BY <1>1, FS_Subset

\* Odd and even versions alternate.
LEMMA Parity ==
    ASSUME NEW n \in Nat
    PROVE  n % 2 = 1 <=> (n + 1) % 2 # 1
  OBVIOUS

(* Removal.                                                                *)
Removed(i) ==
    /\ version' = [version EXCEPT ![i] = @ + 1]
    /\ entry' = [entry EXCEPT ![i] = NoEntry]
    /\ free' = <<i>> \o free

\* A remove takes out an occupied slot, or nothing.
LEMMA RemoveKeyIs ==
    ASSUME SlotInv, NEW k, RemoveKey(k)
    PROVE  UNCHANGED <<version, entry, free>> \/ \E i \in Occupied : Removed(i)
  <1>1. CASE Get(k) = NoEntry  BY <1>1 DEF RemoveKey
  <1>2. CASE Get(k) # NoEntry
    <2>1. k[2] \in Occupied  BY <1>2 DEF Get
    <2> QED  BY <1>2, <2>1 DEF RemoveKey, Removed
  <1> QED  BY <1>1, <1>2

\* Vacating a slot makes every kept key of its object stale.
LEMMA RemovedInv ==
    ASSUME Inv, NEW i \in Occupied, Removed(i), issued' = issued, kept' \subseteq kept
    PROVE  Inv'
  <1>1. i \in Slots /\ entry[i] # NoEntry /\ i \in Nat /\ i \in 1 .. Len(version)
    BY DEF Occupied, Slots
  <1>2. /\ version' \in Seq(Nat) /\ Len(version') = Len(version)
        /\ entry' \in Seq(Entries \cup {NoEntry}) /\ Len(entry') = Len(entry)
    BY <1>1 DEF Inv, SlotInv, Removed
  <1>3. Slots' = Slots  BY <1>2 DEF Slots
  <1>4. \A j \in Slots : /\ version'[j] = IF j = i THEN version[j] + 1 ELSE version[j]
                         /\ entry'[j] = IF j = i THEN NoEntry ELSE entry[j]
    BY <1>1 DEF Inv, SlotInv, Removed, Slots
  <1>5. SlotInv'
    <2>1. version[i] \in 1 .. MaxVersion + 1 /\ version[i] % 2 = 1 /\ version[i] <= MaxVersion
      BY <1>1 DEF Inv, SlotInv
    <2>2. version[i] + 1 \in 1 .. MaxVersion + 1 /\ (version[i] + 1) % 2 # 1
      BY <2>1, Parity, BoundsAssumption
    <2>3. ASSUME NEW j \in Slots
          PROVE  /\ version'[j] \in 1 .. MaxVersion + 1
                 /\ entry'[j] # NoEntry <=> version'[j] % 2 = 1
                 /\ entry'[j] # NoEntry => version'[j] <= MaxVersion
      <3>1. CASE j = i  BY <1>4, <2>2, <3>1
      <3>2. CASE j # i  BY <1>4, <3>2 DEF Inv, SlotInv
      <3> QED  BY <3>1, <3>2
    <2> QED  BY <1>2, <1>3, <2>3 DEF Inv, SlotInv
  <1>6. FreeInv'
    <2>1. FreeInv /\ free' = <<i>> \o free  BY DEF Inv, Removed
    <2>2. /\ free' \in Seq(Nat) /\ Len(free') = Len(free) + 1 /\ free'[1] = i
          /\ \A k \in 1 .. Len(free) : free'[k + 1] = free[k]
      <3>1. <<i>> \in Seq(Nat) /\ Len(<<i>>) = 1 /\ <<i>>[1] = i /\ free \in Seq(Nat)
        BY <1>1, <2>1 DEF FreeInv
      <3> QED  BY <2>1, <3>1, ConcatProperties, LenProperties
    <2>3. Len(free) \in Nat  BY <2>1 DEF FreeInv
    <2>4. \A k \in 1 .. Len(free') : k = 1 \/ (k - 1 \in 1 .. Len(free) /\ free'[k] = free[k - 1])
      BY <2>2, <2>3
    <2>5. \A k \in 1 .. Len(free') : free'[k] \in Slots' /\ entry'[free'[k]] = NoEntry
      <3>1. \A k \in 1 .. Len(free) : free[k] \in Slots /\ entry[free[k]] = NoEntry
        BY <2>1 DEF FreeInv
      <3>2. ASSUME NEW k \in 1 .. Len(free') PROVE free'[k] \in Slots /\ entry'[free'[k]] = NoEntry
        <4>1. CASE k = 1  BY <1>1, <1>4, <2>2, <4>1
        <4>2. CASE k # 1
          <5>1. k - 1 \in 1 .. Len(free) /\ free'[k] = free[k - 1]  BY <2>4, <4>2
          <5> QED  BY <1>4, <3>1, <5>1
        <4> QED  BY <4>1, <4>2
      <3> QED  BY <1>3, <3>2
    <2>6. ASSUME NEW j \in Slots', entry'[j] = NoEntry
          PROVE  \E k \in 1 .. Len(free') : free'[k] = j
      <3>1. CASE j = i  BY <2>2, <2>3, <3>1
      <3>2. CASE j # i
        <4>1. PICK k \in 1 .. Len(free) : free[k] = j  BY <1>3, <1>4, <2>1, <2>6, <3>2 DEF FreeInv
        <4> QED  BY <2>2, <2>3, <4>1
      <3> QED  BY <3>1, <3>2
    <2>7. ASSUME NEW j \in 1 .. Len(free'), NEW k \in 1 .. Len(free'), free'[j] = free'[k]
          PROVE  j = k
      <3>1. \A m \in 1 .. Len(free) : free[m] # i  BY <1>1, <2>1 DEF FreeInv
      <3>2. \A l, m \in 1 .. Len(free) : free[l] = free[m] => l = m  BY <2>1 DEF FreeInv
      <3>3. j = 1 \/ (j - 1 \in 1 .. Len(free) /\ free'[j] = free[j - 1])  BY <2>4
      <3>4. k = 1 \/ (k - 1 \in 1 .. Len(free) /\ free'[k] = free[k - 1])  BY <2>4
      <3> QED  BY <2>2, <2>3, <2>7, <3>1, <3>2, <3>3, <3>4
    <2>8. Len(free') = Cardinality((Slots \ Occupied)')
      <3>1. (Slots \ Occupied)' = (Slots \ Occupied) \cup {i}
        BY <1>1, <1>3, <1>4 DEF Occupied
      <3>2. i \notin Slots \ Occupied  OBVIOUS
      <3>3. Cardinality((Slots \ Occupied) \cup {i}) = Cardinality(Slots \ Occupied) + 1
        BY <3>2, SlotsFinite, FS_AddElement DEF Inv
      <3> QED  BY <2>1, <2>2, <3>1, <3>3 DEF FreeInv
    <2> QED  BY <2>2, <2>5, <2>6, <2>7, <2>8 DEF FreeInv
  <1>7. EntryInv'
    <2>1. EntryInv /\ NoEntry \notin Entries  BY NullAssumption DEF Inv
    <2>2. \A j \in Slots : version[j] \in Nat /\ version'[j] >= version[j]
      BY <1>4 DEF Inv, SlotInv
    <2>3. \A h \in issued' : /\ h.entry \in Entries
                             /\ \A j \in Slots' : entry'[j] = h.entry => j = h.id
      BY <1>3, <1>4, <2>1 DEF EntryInv
    <2>4. ASSUME NEW r \in kept'
          PROVE  /\ r.entry \in Entries /\ r.key \in Nat \X Nat
                 /\ r.key[2] \in Slots' /\ r.key[1] <= version'[r.key[2]]
                 /\ r.key[1] = version'[r.key[2]] /\ entry'[r.key[2]] # NoEntry
                      => entry'[r.key[2]] = r.entry
                 /\ \A j \in Slots' : entry'[j] = r.entry => j = r.key[2] /\ version'[j] = r.key[1]
      <3>1. /\ r.entry \in Entries /\ r.key \in Nat \X Nat
            /\ r.key[2] \in Slots /\ r.key[1] <= version[r.key[2]]
            /\ r.key[1] = version[r.key[2]] /\ entry[r.key[2]] # NoEntry
                 => entry[r.key[2]] = r.entry
            /\ \A j \in Slots : entry[j] = r.entry => j = r.key[2] /\ version[j] = r.key[1]
        BY <2>1 DEF EntryInv
      <3>2. r.key[1] \in Nat  BY <3>1
      <3>3. r.key[1] <= version'[r.key[2]]  BY <2>2, <3>1, <3>2, <1>4
      <3>4. r.key[1] = version'[r.key[2]] /\ entry'[r.key[2]] # NoEntry
                      => entry'[r.key[2]] = r.entry
        BY <1>4, <3>1
      <3>5. \A j \in Slots : entry'[j] = r.entry => j = r.key[2] /\ version'[j] = r.key[1]
        BY <1>4, <2>1, <3>1
      <3> QED  BY <1>3, <3>1, <3>3, <3>4, <3>5
    <2>5. \A j, m \in Slots' : entry'[j] # NoEntry /\ entry'[j] = entry'[m] => j = m
      BY <1>3, <1>4, <2>1 DEF EntryInv
    <2> QED  BY <2>3, <2>4, <2>5 DEF EntryInv
  <1> QED  BY <1>5, <1>6, <1>7 DEF Inv

(* Insertion.                                                              *)

\* A slot i takes a new object e with version v; the others stay as they are.
Inserted(i, v, e) ==
    /\ Slots' = Slots \cup {i}
    /\ version'[i] = v /\ entry'[i] = e
    /\ \A j \in Slots : j # i => version'[j] = version[j] /\ entry'[j] = entry[j]

\* An object in a slot whose version was raised is named by no key kept before.
LEMMA InsertedEntry ==
    ASSUME Inv, NEW e \in Fresh, NEW i \in Nat, NEW v \in Nat, Inserted(i, v, e),
           i \in Slots => entry[i] = NoEntry /\ version[i] < v,
           issued' = issued \cup {[id |-> i, entry |-> e]}, kept' = kept
    PROVE  EntryInv'
  <1>1. EntryInv /\ e \in Entries /\ e # NoEntry  BY NullAssumption DEF Inv, Fresh
  <1>2. /\ \A h \in issued : h.entry # e
        /\ \A r \in kept : r.entry # e
        /\ \A j \in Slots : entry[j] # e
    BY <1>1 DEF Fresh, Live, Occupied
  <1>3. \A j \in Slots' : j # i => j \in Slots /\ version'[j] = version[j] /\ entry'[j] = entry[j]
    BY DEF Inserted
  <1>4. i \in Slots' /\ version'[i] = v /\ entry'[i] = e  BY DEF Inserted
  <1>5. \A j, m \in Slots' : entry'[j] # NoEntry /\ entry'[j] = entry'[m] => j = m
    BY <1>1, <1>2, <1>3, <1>4 DEF EntryInv
  <1>6. ASSUME NEW h \in issued'
        PROVE  /\ h.entry \in Entries
               /\ \A j \in Slots' : entry'[j] = h.entry => j = h.id
    <2>1. CASE h \in issued
      BY <1>1, <1>2, <1>3, <1>4, <2>1 DEF EntryInv
    <2>2. CASE h = [id |-> i, entry |-> e]
      <3>1. h.id = i /\ h.entry = e  BY <2>2
      <3> QED  BY <1>1, <1>2, <1>3, <3>1
    <2> QED  BY <2>1, <2>2
  <1>7. ASSUME NEW r \in kept'
        PROVE  /\ r.entry \in Entries /\ r.key \in Nat \X Nat
               /\ r.key[2] \in Slots' /\ r.key[1] <= version'[r.key[2]]
               /\ r.key[1] = version'[r.key[2]] /\ entry'[r.key[2]] # NoEntry
                    => entry'[r.key[2]] = r.entry
               /\ \A j \in Slots' : entry'[j] = r.entry => j = r.key[2] /\ version'[j] = r.key[1]
    <2>1. /\ r.entry \in Entries /\ r.key \in Nat \X Nat
          /\ r.key[2] \in Slots /\ r.key[1] <= version[r.key[2]]
          /\ r.key[1] = version[r.key[2]] /\ entry[r.key[2]] # NoEntry
               => entry[r.key[2]] = r.entry
          /\ \A j \in Slots : entry[j] = r.entry => j = r.key[2] /\ version[j] = r.key[1]
          /\ r.entry # e
      BY <1>1, <1>2 DEF EntryInv
    <2>2. r.key[1] \in Nat /\ version[r.key[2]] \in Nat  BY <2>1 DEF Inv, SlotInv
    <2>3. r.key[2] \in Slots'  BY <2>1 DEF Inserted
    <2>4. CASE r.key[2] = i
      <3>1. r.key[1] < v  BY <2>1, <2>2, <2>4
      <3>2. \A j \in Slots' : entry'[j] = r.entry => j = r.key[2] /\ version'[j] = r.key[1]
        BY <1>3, <1>4, <2>1
      <3> QED  BY <1>4, <2>1, <2>2, <2>3, <2>4, <3>1, <3>2
    <2>5. CASE r.key[2] # i
      BY <1>3, <1>4, <2>1, <2>3, <2>5
    <2> QED  BY <2>4, <2>5
  <1> QED  BY <1>5, <1>6, <1>7 DEF EntryInv

\* An insert that reuses the slot freed last.
LEMMA ReuseInv ==
    ASSUME Inv, NEW e, Insert(e), free # <<>>
    PROVE  Inv'
  <1> DEFINE i == Head(free)
  <1>1. /\ e \in Fresh /\ version[i] < MaxVersion
        /\ version' = [version EXCEPT ![i] = @ + 1]
        /\ entry' = [entry EXCEPT ![i] = e] /\ free' = Tail(free)
        /\ issued' = issued \cup {[id |-> i, entry |-> e]} /\ kept' = kept
    BY DEF Insert, key_to_id
  <1>2. /\ free \in Seq(Nat) /\ i = free[1] /\ 1 \in 1 .. Len(free) /\ Len(free) \in Nat
        /\ Tail(free) \in Seq(Nat) /\ Len(Tail(free)) = Len(free) - 1
        /\ \A k \in 1 .. Len(free) - 1 : Tail(free)[k] = free[k + 1]
    <2>1. free \in Seq(Nat) /\ Len(free) \in Nat \ {0}  BY EmptySeq DEF Inv, FreeInv
    <2> QED  BY <2>1, HeadTailProperties
  <1>3. i \in Slots /\ entry[i] = NoEntry  BY <1>2 DEF Inv, FreeInv
  <1> HIDE DEF i
  <1>4. /\ i \in 1 .. Len(version) /\ i \in Nat /\ e \in Entries /\ e # NoEntry
        /\ version[i] \in Nat /\ version[i] % 2 # 1
    BY <1>1, <1>3, NullAssumption DEF Slots, Fresh, Inv, SlotInv
  <1>5. /\ version' \in Seq(Nat) /\ Len(version') = Len(version)
        /\ entry' \in Seq(Entries \cup {NoEntry}) /\ Len(entry') = Len(entry)
    BY <1>1, <1>4 DEF Inv, SlotInv
  <1>6. Slots' = Slots  BY <1>5 DEF Slots
  <1>7. \A j \in Slots : /\ version'[j] = IF j = i THEN version[j] + 1 ELSE version[j]
                         /\ entry'[j] = IF j = i THEN e ELSE entry[j]
    BY <1>1, <1>4 DEF Inv, SlotInv, Slots
  <1>8. SlotInv'
    <2>1. ASSUME NEW j \in Slots
          PROVE  /\ version'[j] \in 1 .. MaxVersion + 1
                 /\ entry'[j] # NoEntry <=> version'[j] % 2 = 1
                 /\ entry'[j] # NoEntry => version'[j] <= MaxVersion
      <3>1. CASE j = i
        <4>1. version[i] + 1 \in 1 .. MaxVersion /\ (version[i] + 1) % 2 = 1
          <5>1. version[i] + 1 \in 1 .. MaxVersion  BY <1>1, <1>4, BoundsAssumption
          <5>2. (version[i] + 1) % 2 = 1  BY <1>4, Parity
          <5> QED  BY <5>1, <5>2
        <4> QED  BY <1>4, <1>7, <3>1, <4>1, BoundsAssumption
      <3>2. CASE j # i  BY <1>7, <3>2 DEF Inv, SlotInv
      <3> QED  BY <3>1, <3>2
    <2> QED  BY <1>5, <1>6, <2>1 DEF Inv, SlotInv
  <1>9. FreeInv'
    <2>1. FreeInv  BY DEF Inv
    <2>2. \A l, m \in 1 .. Len(free) : free[l] = free[m] => l = m  BY <2>1 DEF FreeInv
    <2>3. \A k \in 1 .. Len(free') : /\ k + 1 \in 1 .. Len(free) /\ free'[k] = free[k + 1]
                                     /\ free[k + 1] # i
      <3>1. Len(free') = Len(free) - 1  BY <1>1, <1>2
      <3>2. ASSUME NEW k \in 1 .. Len(free')
            PROVE  k + 1 \in 1 .. Len(free) /\ free'[k] = free[k + 1] /\ k + 1 # 1
        BY <1>1, <1>2, <3>1
      <3> QED  BY <1>2, <2>2, <3>2
    <2>4. ASSUME NEW k \in 1 .. Len(free') PROVE free'[k] \in Slots' /\ entry'[free'[k]] = NoEntry
      <3>1. free'[k] \in Slots /\ entry[free'[k]] = NoEntry /\ free'[k] # i
        <4>1. PICK m \in 1 .. Len(free) : m = k + 1  BY <2>3
        <4>2. free'[k] = free[m] /\ free[m] # i  BY <2>3, <4>1
        <4> QED  BY <2>1, <4>2 DEF FreeInv
      <3> QED  BY <1>6, <1>7, <3>1
    <2>5. ASSUME NEW j \in Slots', entry'[j] = NoEntry
          PROVE  \E k \in 1 .. Len(free') : free'[k] = j
      <3>1. j \in Slots /\ j # i /\ entry[j] = NoEntry  BY <1>4, <1>6, <1>7, <2>5
      <3>2. PICK k \in 1 .. Len(free) : free[k] = j  BY <2>1, <3>1 DEF FreeInv
      <3>3. k # 1  BY <1>2, <3>1, <3>2
      <3>4. k - 1 \in 1 .. Len(free) - 1 /\ (k - 1) + 1 = k  BY <1>2, <3>3
      <3>5. Tail(free)[k - 1] = free[k]  BY <1>2, <3>4
      <3> QED  BY <1>1, <1>2, <3>2, <3>4, <3>5
    <2>6. \A j, k \in 1 .. Len(free') : free'[j] = free'[k] => j = k
      <3> SUFFICES ASSUME NEW j \in 1 .. Len(free'), NEW k \in 1 .. Len(free'), free'[j] = free'[k]
                   PROVE  j = k
        OBVIOUS
      <3>1. j + 1 = k + 1  BY <2>2, <2>3
      <3> QED  BY <3>1
    <2>7. Len(free') = Cardinality((Slots \ Occupied)')
      <3>1. (Slots \ Occupied)' = (Slots \ Occupied) \ {i}
        BY <1>4, <1>6, <1>7 DEF Occupied
      <3>2. i \in Slots \ Occupied  BY <1>3 DEF Occupied
      <3>3. Cardinality((Slots \ Occupied) \ {i}) = Cardinality(Slots \ Occupied) - 1
        BY <3>2, SlotsFinite, FS_RemoveElement DEF Inv
      <3> QED  BY <1>1, <1>2, <2>1, <3>1, <3>3 DEF FreeInv
    <2>8. free' \in Seq(Nat)  BY <1>1, <1>2
    <2> QED  BY <2>4, <2>5, <2>6, <2>7, <2>8 DEF FreeInv
  <1>10. EntryInv'
    <2>1. Inserted(i, version[i] + 1, e)  BY <1>3, <1>6, <1>7 DEF Inserted
    <2>2. version[i] + 1 \in Nat /\ version[i] < version[i] + 1  BY <1>4
    <2> QED  BY <1>1, <1>3, <1>4, <2>1, <2>2, InsertedEntry
  <1> QED  BY <1>8, <1>9, <1>10 DEF Inv

\* An insert that appends a slot.
LEMMA GrowInv ==
    ASSUME Inv, NEW e, Insert(e), free = <<>>
    PROVE  Inv'
  <1> DEFINE i == Len(version) + 1
  <1>1. /\ e \in Fresh /\ Len(version) < MaxSlots
        /\ version' = Append(version, 1) /\ entry' = Append(entry, e) /\ free' = free
        /\ issued' = issued \cup {[id |-> i, entry |-> e]} /\ kept' = kept
    BY DEF Insert, key_to_id
  <1>2. e \in Entries /\ e # NoEntry  BY <1>1, NullAssumption DEF Fresh
  <1>3. /\ version \in Seq(Nat) /\ entry \in Seq(Entries \cup {NoEntry})
        /\ Len(entry) = Len(version) /\ Len(version) \in Nat
    BY DEF Inv, SlotInv
  <1>4. /\ version' \in Seq(Nat) /\ Len(version') = Len(version) + 1
        /\ version'[i] = 1 /\ \A j \in 1 .. Len(version) : version'[j] = version[j]
    BY <1>1, <1>3, AppendProperties
  <1>5. /\ entry' \in Seq(Entries \cup {NoEntry}) /\ Len(entry') = Len(entry) + 1
        /\ entry'[i] = e /\ \A j \in 1 .. Len(entry) : entry'[j] = entry[j]
    BY <1>1, <1>2, <1>3, AppendProperties
  <1>6. Slots' = Slots \cup {i} /\ i \notin Slots /\ i \in Nat
    BY <1>3, <1>4 DEF Slots
  <1>7. \A j \in Slots : j # i /\ version'[j] = version[j] /\ entry'[j] = entry[j]
    BY <1>3, <1>4, <1>5, <1>6 DEF Slots
  <1> HIDE DEF i
  <1>8. SlotInv'
    <2>1. 1 \in 1 .. MaxVersion + 1 /\ 1 % 2 = 1 /\ 1 <= MaxVersion  BY BoundsAssumption
    <2>2. Len(version') <= MaxSlots  BY <1>1, <1>3, <1>4, BoundsAssumption
    <2>3. ASSUME NEW j \in Slots'
          PROVE  /\ version'[j] \in 1 .. MaxVersion + 1
                 /\ entry'[j] # NoEntry <=> version'[j] % 2 = 1
                 /\ entry'[j] # NoEntry => version'[j] <= MaxVersion
      <3>1. CASE j = i  BY <1>2, <1>4, <1>5, <2>1, <3>1
      <3>2. CASE j # i  BY <1>6, <1>7, <3>2 DEF Inv, SlotInv
      <3> QED  BY <3>1, <3>2
    <2> QED  BY <1>3, <1>4, <1>5, <2>2, <2>3 DEF SlotInv
  <1>9. FreeInv'
    <2>1. FreeInv /\ Len(free) = 0 /\ free' = free  BY <1>1 DEF Inv
    <2>2. \A j \in Slots : entry[j] # NoEntry  BY <2>1 DEF FreeInv
    <2>3. \A j \in Slots' : entry'[j] # NoEntry  BY <1>2, <1>5, <1>6, <1>7, <2>2
    <2>4. (Slots \ Occupied)' = {} /\ Slots \ Occupied = {}
      BY <2>2, <2>3 DEF Occupied
    <2>5. Cardinality((Slots \ Occupied)') = 0  BY <2>4, FS_EmptySet
    <2>6. 1 .. Len(free') = {} /\ Len(free') = 0 /\ free' \in Seq(Nat)
      BY <2>1 DEF FreeInv
    <2> QED  BY <2>3, <2>5, <2>6 DEF FreeInv
  <1>10. EntryInv'
    <2>1. Inserted(i, 1, e)  BY <1>4, <1>5, <1>6, <1>7 DEF Inserted
    <2> QED  BY <1>1, <1>6, <2>1, InsertedEntry
  <1> QED  BY <1>8, <1>9, <1>10 DEF Inv
---------------------------------------------------------------------------
\* A step that leaves the pool alone and keeps at most what was kept.
LEMMA ForgetInv ==
    ASSUME Inv, UNCHANGED <<version, entry, free>>, issued' \subseteq issued, kept' \subseteq kept
    PROVE  Inv'
  <1>1. Slots' = Slots /\ Occupied' = Occupied  BY DEF Slots, Occupied
  <1>2. SlotInv' /\ FreeInv'  BY <1>1 DEF Inv, SlotInv, FreeInv
  <1>3. EntryInv'  BY <1>1 DEF Inv, EntryInv
  <1> QED  BY <1>2, <1>3 DEF Inv

\* A remove by key, stale or not.
LEMMA RemoveInv ==
    ASSUME Inv, NEW k, RemoveKey(k), issued' = issued, kept' \subseteq kept
    PROVE  Inv'
  <1>1. CASE UNCHANGED <<version, entry, free>>  BY <1>1, ForgetInv
  <1>2. ASSUME NEW i \in Occupied, Removed(i) PROVE Inv'  BY <1>2, RemovedInv
  <1> QED  BY <1>1, <1>2, RemoveKeyIs DEF Inv

\* A record keeps the key an ID resolves to now.
LEMMA KeepInv ==
    ASSUME Inv, NEW h, Keep(h)
    PROVE  Inv'
  <1> DEFINE k == FindByLowBits(h.id)
             r == [key |-> k, entry |-> Get(k)]
  <1>1. /\ h \in issued /\ Get(k) # NoEntry /\ kept' = kept \cup {r}
        /\ UNCHANGED <<version, entry, free, issued>>
    BY DEF Keep
  <1>2. h.id \in Occupied /\ k = Key(h.id)
    <2>1. CASE h.id \in Occupied  BY <2>1, Find
    <2>2. CASE h.id \notin Occupied
      <3>1. k = NoKey  BY <2>2, Find
      <3> QED  BY <1>1, <3>1 DEF Get
    <2> QED  BY <2>1, <2>2
  <1>3. PICK i \in Occupied : i = h.id  BY <1>2
  <1>4. /\ i \in Slots /\ i \in Nat /\ version[i] \in Nat /\ entry[i] \in Entries
        /\ k = <<version[i], i>> /\ Get(k) = entry[i]
    BY <1>2, <1>3, KeyResolves DEF Inv, SlotInv, Slots, Occupied, Key
  <1> HIDE DEF k
  <1>5. r.key = <<version[i], i>> /\ r.entry = entry[i]  BY <1>4
  <1> HIDE DEF r
  <1>6. Slots' = Slots /\ Occupied' = Occupied  BY <1>1 DEF Slots, Occupied
  <1>7. SlotInv' /\ FreeInv'  BY <1>1, <1>6 DEF Inv, SlotInv, FreeInv
  <1>8. EntryInv'
    <2>1. EntryInv /\ entry[i] # NoEntry  BY <1>3 DEF Inv, Occupied
    <2>2. /\ r.entry \in Entries /\ r.key \in Nat \X Nat
          /\ r.key[2] \in Slots /\ r.key[1] <= version[r.key[2]]
          /\ entry[r.key[2]] = r.entry
          /\ \A j \in Slots : entry[j] = r.entry => j = r.key[2] /\ version[j] = r.key[1]
      <3>1. r.key \in Nat \X Nat /\ r.key[1] = version[i] /\ r.key[2] = i  BY <1>4, <1>5
      <3>2. \A j \in Slots : entry[j] = entry[i] => j = i
        BY <1>4, <2>1 DEF EntryInv
      <3>3. /\ r.entry \in Entries /\ r.key[2] \in Slots /\ r.key[1] <= version[r.key[2]]
            /\ entry[r.key[2]] = r.entry
        BY <1>4, <1>5, <3>1
      <3>4. ASSUME NEW j \in Slots, entry[j] = r.entry
            PROVE  j = r.key[2] /\ version[j] = r.key[1]
        <4>1. j = i  BY <1>5, <3>2, <3>4
        <4> QED  BY <3>1, <4>1
      <3> HIDE DEF r
      <3> QED  BY <3>1, <3>3, <3>4, Zenon
    <2> QED  BY <1>1, <1>6, <2>1, <2>2 DEF EntryInv
  <1> QED  BY <1>7, <1>8 DEF Inv

\* Every step keeps Inv.
LEMMA NextInv == Inv /\ [Next]_vars => Inv'
  <1> SUFFICES ASSUME Inv, [Next]_vars PROVE Inv'  OBVIOUS
  <1>1. CASE UNCHANGED vars  BY <1>1, ForgetInv DEF vars
  <1>2. ASSUME NEW e \in Entries, Insert(e) PROVE Inv'
    BY <1>2, ReuseInv, GrowInv
  <1>3. ASSUME NEW h \in issued, Destroy(h) PROVE Inv'
    BY <1>3, RemoveInv DEF Destroy
  <1>4. ASSUME NEW h \in issued, Keep(h) PROVE Inv'
    BY <1>4, KeepInv
  <1>5. ASSUME NEW r \in kept, DestroyKept(r) PROVE Inv'
    BY <1>5, RemoveInv DEF DestroyKept
  <1>6. CASE Forget  BY <1>6, ForgetInv DEF Forget
  <1> QED  BY <1>1, <1>2, <1>3, <1>4, <1>5, <1>6 DEF Next

\* The inductive invariant.
THEOREM PoolCorrect == Spec => []Inv
  <1> QED  BY InitInv, NextInv, PTL DEF Spec
---------------------------------------------------------------------------
\* Types; the free list is exactly the vacant slots, versions are odd exactly
\* in occupied ones.
THEOREM TypeCorrect == Spec => []TypeOK
  <1>1. Inv => TypeOK
    <2> SUFFICES ASSUME Inv PROVE TypeOK  OBVIOUS
    <2>1. ASSUME NEW i \in Slots
          PROVE  /\ version[i] \in 1 .. MaxVersion + 1
                 /\ entry[i] \in Entries \cup {NoEntry}
                 /\ i \in Occupied <=> version[i] % 2 = 1
      BY DEF Inv, SlotInv, Slots, Occupied
    <2>2. {free[k] : k \in 1 .. Len(free)} = Slots \ Occupied
      <3>1. \A k \in 1 .. Len(free) : free[k] \in Slots \ Occupied
        BY DEF Inv, FreeInv, Occupied
      <3>2. \A i \in Slots \ Occupied : \E k \in 1 .. Len(free) : free[k] = i
        BY DEF Inv, FreeInv, Occupied
      <3> QED  BY <3>1, <3>2
    <2> QED  BY <2>1, <2>2 DEF Inv, SlotInv, FreeInv, TypeOK
  <1> QED  BY <1>1, PoolCorrect, PTL

\* find_by_low_bits: the ID of a live object names it.
THEOREM IdsResolve == Spec => []LiveIdResolves
  <1>1. Inv => LiveIdResolves
    <2> SUFFICES ASSUME Inv, NEW h \in issued, h.entry \in Live
                 PROVE  Get(FindByLowBits(h.id)) = h.entry
      BY DEF LiveIdResolves
    <2>1. PICK i \in Occupied : entry[i] = h.entry  BY DEF Live
    <2>2. i = h.id  BY <2>1 DEF Inv, EntryInv, Occupied
    <2> QED  BY <2>1, <2>2, Find, KeyResolves DEF Inv
  <1> QED  BY <1>1, PoolCorrect, PTL

\* A key a record keeps names its object while that lives, and nothing after.
LEMMA KeptKeyInv == Inv => KeptKeyNeverAliases
  <1> SUFFICES ASSUME Inv, NEW r \in kept
               PROVE  Get(r.key) = IF r.entry \in Live THEN r.entry ELSE NoEntry
    BY DEF KeptKeyNeverAliases
  <1>1. /\ r.key \in Nat \X Nat /\ r.key # NoKey /\ r.key[2] \in Slots
        /\ r.key[1] = version[r.key[2]] /\ entry[r.key[2]] # NoEntry
             => entry[r.key[2]] = r.entry
        /\ \A i \in Slots : entry[i] = r.entry => i = r.key[2] /\ version[i] = r.key[1]
    BY NullAssumption DEF Inv, EntryInv
  <1>2. CASE r.entry \in Live
    <2>1. PICK i \in Occupied : entry[i] = r.entry  BY <1>2 DEF Live
    <2>2. i = r.key[2] /\ version[i] = r.key[1]  BY <1>1, <2>1 DEF Occupied
    <2> QED  BY <1>1, <1>2, <2>1, <2>2 DEF Get
  <1>3. CASE r.entry \notin Live
    <2>1. \A i \in Occupied : entry[i] # r.entry  BY <1>3 DEF Live
    <2> QED  BY <1>1, <1>3, <2>1 DEF Get, Occupied
  <1> QED  BY <1>2, <1>3

\* The same, always: however often a slot is reused, a record's key is not.
THEOREM KeysNeverAlias == Spec => []KeptKeyNeverAliases
  <1> QED  BY KeptKeyInv, PoolCorrect, PTL
---------------------------------------------------------------------------
(* IdPool implements ObjectNames.                                            *)

\* The objects after a slot is vacated.
LEMMA LiveRemoved ==
    ASSUME Inv, NEW i \in Occupied, Removed(i)
    PROVE  entry[i] \in Live /\ Live' = Live \ {entry[i]}
  <1>1. i \in Slots /\ entry[i] # NoEntry /\ i \in 1 .. Len(version)  BY DEF Occupied, Slots
  <1>2. Len(version') = Len(version)  BY <1>1 DEF Inv, SlotInv, Removed
  <1>3. Slots' = Slots  BY <1>2 DEF Slots
  <1>4. \A j \in Slots : entry'[j] = IF j = i THEN NoEntry ELSE entry[j]
    BY <1>1 DEF Inv, SlotInv, Removed, Slots
  <1>5. \A j \in Slots : entry[j] = entry[i] => j = i  BY <1>1 DEF Inv, EntryInv
  <1>6. Occupied' = Occupied \ {i}  BY <1>1, <1>3, <1>4 DEF Occupied
  <1> QED  BY <1>1, <1>4, <1>5, <1>6 DEF Live, Occupied

\* The objects after an insert, and the slot it took.
LEMMA LiveInserted ==
    ASSUME Inv, NEW e, Insert(e)
    PROVE  /\ e \in Fresh /\ Live' = Live \cup {e} /\ kept' = kept
           /\ \E i \in 1 .. MaxSlots :
                 i \notin Occupied /\ issued' = issued \cup {[id |-> i, entry |-> e]}
  <1>1. /\ version \in Seq(Nat) /\ entry \in Seq(Entries \cup {NoEntry})
        /\ Len(entry) = Len(version) /\ Len(version) \in Nat /\ Len(version) <= MaxSlots
        /\ MaxSlots \in Nat /\ e \in Entries /\ e # NoEntry /\ e \in Fresh
    BY BoundsAssumption, NullAssumption DEF Inv, SlotInv, Insert, Fresh
  <1>2. CASE free # <<>>
    <2> DEFINE i == Head(free)
    <2>1. /\ version' = [version EXCEPT ![i] = @ + 1] /\ entry' = [entry EXCEPT ![i] = e]
          /\ issued' = issued \cup {[id |-> i, entry |-> e]} /\ kept' = kept
      BY <1>2 DEF Insert, key_to_id
    <2>2. i = free[1] /\ 1 \in 1 .. Len(free)
      <3>1. free \in Seq(Nat) /\ Len(free) \in Nat \ {0}  BY <1>2, EmptySeq DEF Inv, FreeInv
      <3> QED  BY <3>1, HeadTailProperties
    <2>3. i \in Slots /\ entry[i] = NoEntry  BY <2>2 DEF Inv, FreeInv
    <2> HIDE DEF i
    <2>4. Slots' = Slots /\ i \in 1 .. MaxSlots /\ i \notin Occupied
      BY <1>1, <2>1, <2>3 DEF Slots, Occupied
    <2>5. \A j \in Slots : entry'[j] = IF j = i THEN e ELSE entry[j]
      BY <1>1, <2>1 DEF Slots
    <2>6. Occupied' = Occupied \cup {i}  BY <1>1, <2>3, <2>4, <2>5 DEF Occupied
    <2>7. Live' = Live \cup {e}  BY <2>3, <2>4, <2>5, <2>6 DEF Live, Occupied
    <2> QED  BY <1>1, <2>1, <2>4, <2>7
  <1>3. CASE free = <<>>
    <2> DEFINE i == Len(version) + 1
    <2>1. /\ version' = Append(version, 1) /\ entry' = Append(entry, e)
          /\ issued' = issued \cup {[id |-> i, entry |-> e]} /\ kept' = kept
          /\ Len(version) < MaxSlots
      BY <1>3 DEF Insert, key_to_id
    <2>2. Len(version') = Len(version) + 1  BY <1>1, <2>1, AppendProperties
    <2>3. entry'[i] = e /\ \A j \in 1 .. Len(version) : entry'[j] = entry[j]
      BY <1>1, <2>1, AppendProperties
    <2>4. Slots' = Slots \cup {i} /\ i \notin Slots /\ i \in 1 .. MaxSlots
      BY <1>1, <2>1, <2>2 DEF Slots
    <2>5. \A j \in Slots : entry'[j] = entry[j] /\ j # i  BY <2>3, <2>4 DEF Slots
    <2> HIDE DEF i
    <2>6. Occupied' = Occupied \cup {i}  BY <1>1, <2>3, <2>4, <2>5 DEF Occupied
    <2>7. Live' = Live \cup {e}  BY <2>3, <2>4, <2>5, <2>6 DEF Live, Occupied
    <2> QED  BY <1>1, <2>1, <2>4, <2>7 DEF Occupied
  <1> QED  BY <1>2, <1>3

\* What the scan for an ID finds is an object the ID may name, or no object has
\* the ID, least of all its own.
LEMMA FoundIsNamed ==
    ASSUME Inv, NEW h \in issued
    PROVE  LET k == FindByLowBits(h.id) IN
           /\ Get(k) # NoEntry => /\ h.id \in Occupied /\ k = Key(h.id)
                                  /\ Get(k) = entry[h.id] /\ Get(k) \in Entries
                                  /\ Names!Named(h, Get(k))
           /\ Get(k) = NoEntry => h.entry \notin Live
  <1>1. \A g \in issued : \A i \in Slots : entry[i] = g.entry => i = g.id
    BY DEF Inv, EntryInv
  <1>2. CASE h.id \in Occupied
    <2>1. PICK i \in Occupied : i = h.id  BY <1>2
    <2>2. /\ FindByLowBits(h.id) = Key(i) /\ Get(Key(i)) = entry[i] /\ entry[i] \in Entries
          /\ i \in Slots /\ entry[i] # NoEntry /\ entry[i] \in Live
      BY <2>1, Find, KeyResolves DEF Inv, Occupied, Live
    <2>3. h.entry \in Live => entry[i] = h.entry
      BY <1>1, <2>1 DEF Live, Occupied
    <2>4. \A g \in issued : g.entry = entry[i] => g.id = h.id
      BY <1>1, <2>1, <2>2
    <2>5. Names!Named(h, entry[i])  BY <2>2, <2>3, <2>4 DEF Names!Named
    <2> QED  BY <2>1, <2>2, <2>5
  <1>3. CASE h.id \notin Occupied
    <2>1. Get(FindByLowBits(h.id)) = NoEntry  BY <1>3, Find DEF Get
    <2>2. h.entry \notin Live  BY <1>1, <1>3 DEF Live, Occupied
    <2> QED  BY <2>1, <2>2
  <1> QED  BY <1>2, <1>3

\* Removing what a key names removes that object, and none if it is gone.
LEMMA RemoveIs ==
    ASSUME Inv, NEW k, RemoveKey(k)
    PROVE  Live' = Live \ {Get(k)}
  <1>1. NoEntry \notin Live  BY DEF Live, Occupied
  <1>2. CASE Get(k) = NoEntry
    <2>1. Live' = Live  BY <1>2 DEF RemoveKey, Live, Occupied, Slots
    <2> QED  BY <1>1, <1>2, <2>1
  <1>3. CASE Get(k) # NoEntry
    <2>1. k[2] \in Occupied /\ Get(k) = entry[k[2]]  BY <1>3 DEF Get
    <2>2. Removed(k[2])  BY <1>3 DEF RemoveKey, Removed
    <2> QED  BY <2>1, <2>2, LiveRemoved
  <1> QED  BY <1>2, <1>3

NamesStep == [Names!Next]_(Names!vars)

\* Every step of the pool is a step of ObjectNames, or none.
LEMMA NamesNext ==
    ASSUME Inv, [Next]_vars
    PROVE  NamesStep
  <1> DEFINE objects == {r.entry : r \in kept}
  <1>1. ASSUME NEW e \in Entries, Insert(e) PROVE NamesStep
    <2>1. PICK i \in 1 .. MaxSlots :
             /\ i \notin Occupied /\ issued' = issued \cup {[id |-> i, entry |-> e]}
             /\ e \in Fresh /\ Live' = Live \cup {e} /\ kept' = kept
      BY <1>1, LiveInserted
    <2>2. \A h \in issued : h.entry \in Live => h.id # i
      BY <2>1 DEF Inv, EntryInv, Live, Occupied
    <2>3. Names!Insert(e, i)  BY <2>1, <2>2 DEF Names!Insert, Fresh
    <2> QED  BY <2>3 DEF NamesStep, Names!Next
  <1>2. ASSUME NEW h \in issued, Destroy(h) PROVE NamesStep
    <2> DEFINE k == FindByLowBits(h.id)
    <2>1. Live' = Live \ {Get(k)} /\ issued' = issued /\ kept' = kept
      BY <1>2, RemoveIs DEF Destroy
    <2>2. CASE Get(k) = NoEntry
      <3>1. h.entry \notin Live /\ NoEntry \notin Live  BY <2>2, FoundIsNamed DEF Live, Occupied
      <3>2. Names!Destroy(h)  BY <2>1, <2>2, <3>1 DEF Names!Destroy
      <3> QED  BY <3>2 DEF NamesStep, Names!Next
    <2>3. CASE Get(k) # NoEntry
      <3>1. Get(k) \in Entries /\ Names!Named(h, Get(k))  BY <2>3, FoundIsNamed
      <3> HIDE DEF k
      <3>2. Names!Destroy(h)  BY <2>1, <3>1 DEF Names!Destroy
      <3> QED  BY <3>2 DEF NamesStep, Names!Next
    <2> QED  BY <2>2, <2>3
  <1>3. ASSUME NEW h \in issued, Keep(h) PROVE NamesStep
    <2> DEFINE k == FindByLowBits(h.id)
    <2>1. /\ Get(k) # NoEntry /\ kept' = kept \cup {[key |-> k, entry |-> Get(k)]}
          /\ UNCHANGED <<version, entry, free, issued>>
      BY <1>3 DEF Keep
    <2>2. Live' = Live  BY <2>1 DEF Live, Occupied, Slots
    <2>3. Get(k) \in Entries /\ Names!Named(h, Get(k))  BY <2>1, FoundIsNamed
    <2> HIDE DEF k
    <2>4. objects' = objects \cup {Get(k)}
      <3>1. PICK r : r.entry = Get(k) /\ kept' = kept \cup {r}  BY <2>1
      <3> QED  BY <3>1
    <2>5. Names!Keep(h)  BY <2>1, <2>2, <2>3, <2>4 DEF Names!Keep
    <2> QED  BY <2>5 DEF NamesStep, Names!Next
  <1>4. ASSUME NEW r \in kept, DestroyKept(r) PROVE NamesStep
    <2>1. Live' = Live \ {Get(r.key)} /\ issued' = issued /\ kept' = kept \ {r}
      BY <1>4, RemoveIs DEF DestroyKept
    <2>2. Get(r.key) = IF r.entry \in Live THEN r.entry ELSE NoEntry
      BY KeptKeyInv DEF KeptKeyNeverAliases
    <2>3. Live' = Live \ {r.entry}  BY <2>1, <2>2 DEF Live, Occupied
    <2>4. objects' \in {objects, objects \ {r.entry}}
      <3>1. objects \ {r.entry} \subseteq objects' /\ objects' \subseteq objects
        BY <2>1
      <3> HIDE DEF objects
      <3> QED  BY <3>1
    <2>5. Names!DestroyKept(r.entry)  BY <2>1, <2>3, <2>4 DEF Names!DestroyKept
    <2> QED  BY <2>5 DEF NamesStep, Names!Next
  <1>5. CASE Forget
    <2>1. Live' = Live /\ objects' \subseteq objects /\ issued' \subseteq issued
      BY <1>5 DEF Forget, Live, Occupied, Slots
    <2> QED  BY <2>1 DEF NamesStep, Names!Next, Names!Forget
  <1>6. CASE UNCHANGED vars
    BY <1>6 DEF vars, Live, Occupied, Slots, NamesStep, Names!vars
  <1> QED  BY <1>1, <1>2, <1>3, <1>4, <1>5, <1>6 DEF Next

\* For those who name its objects the pool has no slots: a record's key reaches
\* its own object or none, a stale ID at most one object, of no other ID.
THEOREM PoolImplementsNames == Spec => ImplementsNames
  <1>1. Init => Names!Init
    BY DEF Init, Names!Init, Live, Occupied, Slots
  <1>2. Inv /\ [Next]_vars => NamesStep
    BY NamesNext
  <1> QED  BY <1>1, <1>2, PoolCorrect, PTL DEF Spec, ImplementsNames, Names!Spec, NamesStep
=============================================================================
