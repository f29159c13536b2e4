-------------------------- MODULE GpuMemoryProofs --------------------------
(***************************************************************************)
(* Proofs about GpuMemory: the invariants of run gpu_memory for any number *)
(* of threads, surfaces and descriptors, any batch and every failure; that *)
(* calls are bounded and never all wait; and which clients the double      *)
(* close of ClosesOwnFd does no harm to.                                   *)
(***************************************************************************)
EXTENDS GpuMemory, FiniteSetTheorems, TLAPS

Entries  == {"none", "create", "import", "context", "destroy", "terminate"}
CallType == [entry : Entries, keys : SUBSET Surfaces, cur : Surfaces \cup {NoSurface}]

\* Which calls are where, with what in their hands.
Flow(l, e, keys, c, arc) ==
    /\ l = "outside" => e = "none" /\ keys = {} /\ c = NoSurface
    /\ l \in {"get", "wait_init", "init"} => e \in {"create", "import", "context"} /\ c = NoSurface
    /\ l = "pools" => e \in {"create", "import", "context", "destroy"}
    /\ l = "inside" => e \in {"create", "import", "context", "destroy", "terminate"}
    /\ l = "bind" => e = "import" /\ c = NoSurface
    /\ l \in {"import", "map", "level"} => e = "import" /\ c \in Surfaces
    /\ l \in {"drop_mip", "drop_ext", "close"} =>
         e \in {"import", "destroy", "terminate"} /\ c \in Surfaces
    /\ l \in {"pools", "inside"} => (c \in Surfaces <=> e = "import")
    /\ e = "import" /\ c \in Surfaces => keys = {}
    /\ l \in {"outside", "get", "wait_init", "init"} => arc = 0
    /\ l = "pools" /\ e = "context" => arc = 0

FlowInv ==
    /\ pc \in [Threads -> Labels] /\ call \in [Threads -> CallType] /\ cuda \in [Threads -> Nat]
    /\ \A t \in Threads : Flow(pc[t], call[t].entry, call[t].keys, call[t].cur, cuda[t])

\* Who has which lock.
HoldsAt(l, e) == \/ l = "inside" /\ e # "terminate"
                 \/ l \in {"drop_mip", "drop_ext", "close"} /\ e = "destroy"
                 \/ l \in {"get", "wait_init", "init"} /\ e = "context"
LockInv ==
    /\ pools \in Threads \cup {NoThread} /\ init_lock \in Threads \cup {NoThread}
    /\ \A t \in Threads : /\ pools = t <=> HoldsAt(pc[t], call[t].entry)
                          /\ init_lock = t <=> pc[t] = "init"

\* An allocation and the Arc of the record that owns it; a forgotten one has none.
Account(sort, arc, a, forgotten) ==
    /\ arc <= created /\ a <= created
    /\ ~forgotten => a = arc /\ (a # 0 <=> sort = "internal")
    /\ forgotten => a # 0 /\ arc = 0 /\ sort = "none"

\* One context, and whose Arc of it every allocation relies on.
ContextInv ==
    /\ created \in Nat /\ created <= 1
    /\ ctx = IF phase = "running" THEN created ELSE 0
    /\ \A t \in Threads : cuda[t] <= created
    /\ kind \in [Surfaces -> {"none", "stub", "internal", "dmabuf"}]
    /\ cuda_ctx \in [Surfaces -> Nat] /\ allocs \in [Surfaces -> Nat]
    /\ \A k \in Surfaces : Account(kind[k], cuda_ctx[k], allocs[k], k \in lost)

\* What exists of the import a thread has in its hands, from step to step.
Held(l, k) ==
    /\ kind[k] = "none"
    /\ l = "import" => k \notin ext_mem /\ k \notin mip
    /\ l = "map" => k \in ext_mem /\ k \notin mip
    /\ l \in {"level", "drop_mip", "pools", "inside"} => k \in ext_mem /\ k \in mip
    /\ l = "drop_ext" => k \in ext_mem /\ k \notin mip
    /\ l = "close" => k \notin ext_mem /\ k \notin mip

\* Everything that exists belongs to a surface of the pool or to one thread.
ImportInv ==
    /\ ext_mem \subseteq Surfaces /\ mip \subseteq Surfaces
    /\ \A t, u \in Threads : call[t].cur \in Surfaces /\ call[t].cur = call[u].cur => t = u
    /\ \A t \in Threads : call[t].cur \in Surfaces => Held(pc[t], call[t].cur)
    /\ \A k \in Surfaces : kind[k] = "dmabuf" => k \in mip /\ k \in ext_mem
    /\ \A k \in Surfaces :
         kind[k] # "dmabuf" /\ (\A t \in Threads : call[t].cur # k) =>
            k \notin mip /\ k \notin ext_mem /\ dup_fd[k] = NoFd
    /\ \A t \in Threads : call[t].entry \in {"create", "import"} =>
         \A k \in call[t].keys :
            /\ kind[k] = "none"
            /\ \A u \in Threads : call[u].cur # k /\ (u # t => k \notin call[u].keys)

\* A descriptor of an import is the one its surface remembers.
FdInv ==
    /\ dup_fd \in [Surfaces -> Fds \cup {NoFd}]
    /\ fds \in [Fds -> Surfaces \cup {NoSurface, Drm}]
    /\ \A n \in Fds : fds[n] \in Surfaces => dup_fd[fds[n]] = n
    /\ phase # "running" => \A n \in Fds : fds[n] # Drm

PhaseInv ==
    /\ phase \in {"running", "terminating", "terminated"}
    /\ phase = "running" => \A t \in Threads : call[t].entry # "terminate"
    /\ phase # "running" => \A t \in Threads : call[t].entry \in {"none", "terminate"}
    /\ phase = "terminated" => /\ \A t \in Threads : pc[t] = "outside"
                               /\ \A k \in Surfaces : kind[k] = "none"
    /\ \A t, u \in Threads : call[t].entry = "terminate" /\ call[u].entry = "terminate" => t = u

\* A surface whose allocation was forgotten is in nobody's hands: no call meets
\* the allocation again.
LostInv ==
    /\ lost \subseteq Surfaces
    /\ \A t \in Threads :
         /\ call[t].cur \notin lost
         /\ call[t].entry \in {"create", "import"} => call[t].keys \cap lost = {}

Inv == FlowInv /\ LockInv /\ ContextInv /\ ImportInv /\ FdInv /\ PhaseInv /\ LostInv
---------------------------------------------------------------------------
\* Before the first call nothing is held and nothing exists.
LEMMA InitInv == Init => Inv
  <1> SUFFICES ASSUME Init PROVE Inv  OBVIOUS
  <1> USE DEF Init
  <1>1. FlowInv  BY DEF FlowInv, Flow, Labels, CallType, Entries, NoCall
  <1>2. LockInv  BY NullAssumption DEF LockInv, HoldsAt
  <1>3. ContextInv  BY DEF ContextInv, Account
  <1>4. ImportInv  BY NullAssumption DEF ImportInv, NoCall
  <1>5. FdInv  BY NullAssumption DEF FdInv, Fds, NoFd
  <1>6. PhaseInv  BY DEF PhaseInv, NoCall
  <1>7. LostInv  BY DEF LostInv
  <1> QED  BY <1>1, <1>2, <1>3, <1>4, <1>5, <1>6, <1>7 DEF Inv

(* One thread moves; the others are where they were.                       *)
Moves(t, l, e, keys, c, arc) ==
    /\ pc' = [pc EXCEPT ![t] = l] /\ cuda' = [cuda EXCEPT ![t] = arc]
    /\ call' = [call EXCEPT ![t] = [entry |-> e, keys |-> keys, cur |-> c]]

Typed(l, e, keys, c, arc) ==
    /\ l \in Labels /\ e \in Entries /\ keys \subseteq Surfaces
    /\ c \in Surfaces \cup {NoSurface} /\ arc \in Nat

\* A thread that moves to a place its call may be in keeps FlowInv.
LEMMA MovesFlow ==
    ASSUME FlowInv, NEW t \in Threads, NEW l, NEW e, NEW keys, NEW c, NEW arc,
           Moves(t, l, e, keys, c, arc), Typed(l, e, keys, c, arc), Flow(l, e, keys, c, arc)
    PROVE  FlowInv'
  <1>1. [entry |-> e, keys |-> keys, cur |-> c] \in CallType  BY DEF Typed, CallType
  <1>2. pc' \in [Threads -> Labels] /\ call' \in [Threads -> CallType] /\ cuda' \in [Threads -> Nat]
    BY <1>1 DEF FlowInv, Moves, Typed
  <1>3. ASSUME NEW u \in Threads
        PROVE  Flow(pc[u], call[u].entry, call[u].keys, call[u].cur, cuda[u])'
    <2>1. CASE u = t
      <3>1. pc'[u] = l /\ call'[u] = [entry |-> e, keys |-> keys, cur |-> c] /\ cuda'[u] = arc
        BY <2>1 DEF FlowInv, Moves
      <3> QED  BY <3>1
    <2>2. CASE u # t
      <3>1. pc'[u] = pc[u] /\ call'[u] = call[u] /\ cuda'[u] = cuda[u]
        BY <2>2 DEF FlowInv, Moves
      <3> QED  BY <3>1 DEF FlowInv
    <2> QED  BY <2>1, <2>2
  <1> QED  BY <1>2, <1>3 DEF FlowInv

\* The values after a move, one by one.
LEMMA MovesValues ==
    ASSUME FlowInv, NEW t \in Threads, NEW l, NEW e, NEW keys, NEW c, NEW arc,
           Moves(t, l, e, keys, c, arc)
    PROVE  /\ pc'[t] = l /\ cuda'[t] = arc
           /\ call'[t].entry = e /\ call'[t].keys = keys /\ call'[t].cur = c
           /\ \A u \in Threads : u # t =>
                pc'[u] = pc[u] /\ cuda'[u] = cuda[u] /\ call'[u] = call[u]
  BY DEF FlowInv, Moves

\* Where a move leaves the pool and the imports alone, the thread only has to
\* account for what it holds.
LEMMA MovesImport ==
    ASSUME FlowInv, ImportInv, NEW t \in Threads, NEW l, NEW e, NEW keys, NEW c, NEW arc,
           Moves(t, l, e, keys, c, arc), Typed(l, e, keys, c, arc),
           UNCHANGED <<kind, ext_mem, mip, dup_fd>>,
           c = call[t].cur, keys \subseteq call[t].keys, e = call[t].entry \/ keys = {},
           c \in Surfaces => Held(l, c)
    PROVE  ImportInv'
  <1>1. /\ pc'[t] = l /\ call'[t].entry = e /\ call'[t].keys = keys /\ call'[t].cur = c
        /\ \A u \in Threads : u # t => pc'[u] = pc[u] /\ call'[u] = call[u]
    BY MovesValues
  <1>2. \A u \in Threads : call'[u].cur = call[u].cur  BY <1>1
  <1>3. \A u \in Threads : /\ call'[u].keys \subseteq call[u].keys
                           /\ call'[u].entry = call[u].entry \/ call'[u].keys = {}
    BY <1>1
  <1>4. ASSUME NEW u \in Threads, call'[u].cur \in Surfaces PROVE Held(pc[u], call[u].cur)'
    BY <1>1, <1>4 DEF ImportInv, Held
  <1> QED  BY <1>2, <1>3, <1>4 DEF ImportInv

\* A thread that takes or gives a lock only where its new place says so keeps
\* LockInv, if nobody else had it.
LEMMA MovesLock ==
    ASSUME FlowInv, LockInv, NEW t \in Threads, NEW l, NEW e, NEW keys, NEW c, NEW arc,
           Moves(t, l, e, keys, c, arc),
           pools' \in {pools, t, NoThread}, init_lock' \in {init_lock, t, NoThread},
           pools' = t <=> HoldsAt(l, e), init_lock' = t <=> l = "init",
           pools' # pools => pools \in {t, NoThread},
           init_lock' # init_lock => init_lock \in {t, NoThread}
    PROVE  LockInv'
  <1>1. /\ pc'[t] = l /\ call'[t].entry = e
        /\ \A u \in Threads : u # t => pc'[u] = pc[u] /\ call'[u] = call[u]
    BY MovesValues
  <1> QED  BY <1>1, NullAssumption DEF LockInv

\* A move that starts no terminate keeps PhaseInv.
LEMMA MovesPhase ==
    ASSUME FlowInv, PhaseInv, NEW t \in Threads, NEW l, NEW e, NEW keys, NEW c, NEW arc,
           Moves(t, l, e, keys, c, arc), UNCHANGED phase,
           e \in {call[t].entry, "none"} \/ (phase = "running" /\ e # "terminate"),
           phase # "terminated"
    PROVE  PhaseInv'
  <1>1. /\ pc'[t] = l /\ call'[t].entry = e
        /\ \A u \in Threads : u # t => pc'[u] = pc[u] /\ call'[u] = call[u]
    BY MovesValues
  <1> QED  BY <1>1 DEF PhaseInv

\* What is nobody else's business in most steps.
LEMMA MovesContext ==
    ASSUME FlowInv, ContextInv, NEW t \in Threads, NEW l, NEW e, NEW keys, NEW c, NEW arc,
           Moves(t, l, e, keys, c, arc), arc <= created,
           UNCHANGED <<created, ctx, phase, kind, cuda_ctx, allocs, lost>>
    PROVE  ContextInv'
  <1>1. /\ cuda'[t] = arc
        /\ \A u \in Threads : u # t => cuda'[u] = cuda[u]
    BY MovesValues
  <1> QED  BY <1>1 DEF ContextInv, Account

\* A thread that takes nothing forgotten into its hands.
LEMMA MovesLost ==
    ASSUME FlowInv, LostInv, NEW t \in Threads, NEW l, NEW e, NEW keys, NEW c, NEW arc,
           Moves(t, l, e, keys, c, arc), UNCHANGED lost,
           c \notin lost, e \in {"create", "import"} => keys \cap lost = {}
    PROVE  LostInv'
  <1>1. /\ call'[t].entry = e /\ call'[t].keys = keys /\ call'[t].cur = c
        /\ \A u \in Threads : u # t => call'[u] = call[u]
    BY MovesValues
  <1> QED  BY <1>1 DEF LostInv

\* A step that moves its thread, perhaps takes or gives back locks, and leaves
\* surfaces, imports and context alone.
LEMMA MovesOnly ==
    ASSUME Inv, NEW t \in Threads, NEW l, NEW e, NEW keys, NEW c, NEW arc,
           Moves(t, l, e, keys, c, arc), Typed(l, e, keys, c, arc), Flow(l, e, keys, c, arc),
           arc <= created, c = call[t].cur, keys \subseteq call[t].keys,
           e = call[t].entry \/ (e = "none" /\ keys = {}),
           c \in Surfaces => Held(l, c), pc[t] # "outside",
           UNCHANGED <<context, surfaces, imports, phase>>,
           pools' \in {pools, t, NoThread}, init_lock' \in {init_lock, t, NoThread},
           pools' = t <=> HoldsAt(l, e), init_lock' = t <=> l = "init",
           pools' # pools => pools \in {t, NoThread},
           init_lock' # init_lock => init_lock \in {t, NoThread}
    PROVE  Inv'
  <1>1. FlowInv'  BY MovesFlow DEF Inv
  <1>2. LockInv'  BY MovesLock DEF Inv
  <1>3. ContextInv'  BY MovesContext DEF Inv, context, surfaces
  <1>4. ImportInv'  BY MovesImport DEF Inv, imports, surfaces
  <1>5. FdInv'  BY DEF Inv, FdInv, imports
  <1>6. PhaseInv'
    <2>1. phase # "terminated"  BY DEF Inv, PhaseInv
    <2> QED  BY <2>1, MovesPhase DEF Inv
  <1>7. LostInv'
    <2>1. /\ c \notin lost /\ lost' = lost
          /\ e \in {"create", "import"} => keys \cap lost = {}
      BY DEF Inv, LostInv, surfaces
    <2> QED  BY <2>1, MovesLost DEF Inv
  <1> QED  BY <1>1, <1>2, <1>3, <1>4, <1>5, <1>6, <1>7 DEF Inv

\* The facts about the acting thread every step starts from.
LEMMA Own ==
    ASSUME Inv, NEW t \in Threads
    PROVE  /\ Flow(pc[t], call[t].entry, call[t].keys, call[t].cur, cuda[t])
           /\ Typed(pc[t], call[t].entry, call[t].keys, call[t].cur, cuda[t])
           /\ call[t] = [entry |-> call[t].entry, keys |-> call[t].keys, cur |-> call[t].cur]
           /\ Moves(t, pc'[t], call[t].entry, call[t].keys, call[t].cur, cuda[t])
                <=> /\ pc' = [pc EXCEPT ![t] = pc'[t]] /\ UNCHANGED <<call, cuda>>
           /\ pools = t <=> HoldsAt(pc[t], call[t].entry)
           /\ init_lock = t <=> pc[t] = "init"
           /\ cuda[t] <= created
           /\ call[t].cur \in Surfaces => Held(pc[t], call[t].cur)
  <1>1. /\ pc \in [Threads -> Labels] /\ call \in [Threads -> CallType]
        /\ cuda \in [Threads -> Nat]
    BY DEF Inv, FlowInv
  <1>2. call[t] = [entry |-> call[t].entry, keys |-> call[t].keys, cur |-> call[t].cur]
    BY <1>1 DEF CallType
  <1>3. [call EXCEPT ![t] = [entry |-> call[t].entry, keys |-> call[t].keys, cur |-> call[t].cur]] = call
    BY <1>1, <1>2
  <1>4. [cuda EXCEPT ![t] = cuda[t]] = cuda  BY <1>1
  <1>5. Typed(pc[t], call[t].entry, call[t].keys, call[t].cur, cuda[t])
    BY <1>1 DEF Typed, CallType
  <1>6. Moves(t, pc'[t], call[t].entry, call[t].keys, call[t].cur, cuda[t])
                <=> /\ pc' = [pc EXCEPT ![t] = pc'[t]] /\ UNCHANGED <<call, cuda>>
    BY <1>3, <1>4, Zenon DEF Moves
  <1>7. /\ Flow(pc[t], call[t].entry, call[t].keys, call[t].cur, cuda[t])
        /\ pools = t <=> HoldsAt(pc[t], call[t].entry)
        /\ init_lock = t <=> pc[t] = "init"
        /\ cuda[t] <= created
        /\ call[t].cur \in Surfaces => Held(pc[t], call[t].cur)
    BY DEF Inv, FlowInv, LockInv, ContextInv, ImportInv
  <1> QED  BY <1>2, <1>5, <1>6, <1>7
---------------------------------------------------------------------------
(* Steps that only move a thread.                                          *)

\* A move of the label alone.
LEMMA GotoMoves ==
    ASSUME Inv, NEW t \in Threads, NEW l, Goto(t, l), UNCHANGED <<call, cuda>>
    PROVE  Moves(t, l, call[t].entry, call[t].keys, call[t].cur, cuda[t])
  <1>1. /\ call[t] = [entry |-> call[t].entry, keys |-> call[t].keys, cur |-> call[t].cur]
        /\ call \in [Threads -> CallType] /\ cuda \in [Threads -> Nat]
    BY Own DEF Inv, FlowInv
  <1>2. [call EXCEPT ![t] = [entry |-> call[t].entry, keys |-> call[t].keys, cur |-> call[t].cur]] = call
    BY <1>1
  <1>3. [cuda EXCEPT ![t] = cuda[t]] = cuda  BY <1>1
  <1> QED  BY <1>2, <1>3, Zenon DEF Moves, Goto

\* A return drops the call, its Arc and its lock.
LEMMA ReturnMoves ==
    ASSUME Inv, NEW t \in Threads, Return(t), pc[t] # "outside", pc[t] # "init"
    PROVE  /\ Moves(t, "outside", "none", {}, NoSurface, 0)
           /\ UNCHANGED init_lock /\ pools' = IF pools = t THEN NoThread ELSE pools
           /\ LockInv'
  <1>1. /\ Moves(t, "outside", "none", {}, NoSurface, 0)
        /\ UNCHANGED init_lock /\ pools' = IF pools = t THEN NoThread ELSE pools
    BY DEF Return, Goto, NoCall, Moves
  <1>2. init_lock # t  BY Own
  <1>3. LockInv'
    BY <1>1, <1>2, MovesLock, NullAssumption DEF HoldsAt, Inv
  <1> QED  BY <1>1, <1>3

\* Taking `pools`.
LEMMA LockPoolsInv ==
    ASSUME Inv, NEW t \in Threads, LockPools(t)
    PROVE  Inv'
  <1> DEFINE l == IF call[t].entry = "context" THEN "get" ELSE "inside"
  <1>1. /\ pc[t] = "pools" /\ pools = NoThread /\ pools' = t
        /\ UNCHANGED <<init_lock, context, surfaces, imports, phase>>
    BY DEF LockPools, At
  <1>2. Moves(t, l, call[t].entry, call[t].keys, call[t].cur, cuda[t])
    BY GotoMoves DEF LockPools
  <1>3. /\ Typed(l, call[t].entry, call[t].keys, call[t].cur, cuda[t])
        /\ Flow(l, call[t].entry, call[t].keys, call[t].cur, cuda[t])
        /\ call[t].cur \in Surfaces => Held(l, call[t].cur)
        /\ HoldsAt(l, call[t].entry) /\ init_lock # t /\ cuda[t] <= created
    BY <1>1, Own DEF Flow, Typed, Labels, Held, HoldsAt
  <1>4. l # "init" /\ l # "outside"  OBVIOUS
  <1> HIDE DEF l
  <1> QED  BY <1>1, <1>2, <1>3, <1>4, MovesOnly

\* Taking init_lock.
LEMMA LockInitInv ==
    ASSUME Inv, NEW t \in Threads, GetSlow(t) \/ LockInit(t)
    PROVE  Inv'
  <1> DEFINE l == IF pc[t] = "get" THEN "wait_init" ELSE "init"
  <1>1. /\ pc[t] \in {"get", "wait_init"} /\ Goto(t, l)
        /\ UNCHANGED <<call, cuda, pools, context, surfaces, imports, phase>>
        /\ IF pc[t] = "get" THEN UNCHANGED init_lock
                            ELSE init_lock = NoThread /\ init_lock' = t
    BY DEF GetSlow, LockInit, At, locks
  <1>2. Moves(t, l, call[t].entry, call[t].keys, call[t].cur, cuda[t])
    BY <1>1, GotoMoves
  <1>3. /\ Typed(l, call[t].entry, call[t].keys, call[t].cur, cuda[t])
        /\ Flow(l, call[t].entry, call[t].keys, call[t].cur, cuda[t])
        /\ call[t].cur \notin Surfaces
        /\ HoldsAt(l, call[t].entry) <=> HoldsAt(pc[t], call[t].entry)
        /\ pools = t <=> HoldsAt(pc[t], call[t].entry)
        /\ pc[t] # "init" => init_lock # t
        /\ cuda[t] <= created
    BY <1>1, Own, NullAssumption DEF Flow, Typed, Labels, HoldsAt
  <1>4. init_lock' = t <=> l = "init"  BY <1>1, <1>3
  <1>5. /\ UNCHANGED <<context, surfaces, imports, phase>> /\ pools' = pools
        /\ init_lock' \in {init_lock, t, NoThread}
        /\ init_lock' # init_lock => init_lock \in {t, NoThread}
    BY <1>1
  <1>6. (pools = t <=> HoldsAt(l, call[t].entry)) /\ pc[t] # "outside"
    BY <1>1, <1>3, Zenon
  <1> HIDE DEF l
  <1> QED  BY <1>2, <1>3, <1>4, <1>5, <1>6, MovesOnly

\* get_or_init found a context, or was told there is none.
LEMMA GotInv ==
    ASSUME Inv, NEW t \in Threads, NEW c \in Nat, Got(t, c), c <= created,
           pc[t] \in {"get", "init"}, init_lock' = IF pc[t] = "init" THEN NoThread ELSE init_lock,
           UNCHANGED <<call, pools, context, surfaces, imports, phase>>
    PROVE  Inv'
  <1> DEFINE l == AfterGet(t)
  <1>1. call[t].entry \in {"create", "import", "context"} /\ call[t].cur = NoSurface
    BY Own DEF Flow
  <1>2. l = IF call[t].entry = "create" THEN "pools"
            ELSE IF call[t].entry = "import" THEN "bind" ELSE "inside"
    BY <1>1 DEF AfterGet
  <1>3. /\ call[t] = [entry |-> call[t].entry, keys |-> call[t].keys, cur |-> call[t].cur]
        /\ call \in [Threads -> CallType]
    BY Own DEF Inv, FlowInv
  <1>4. [call EXCEPT ![t] = [entry |-> call[t].entry, keys |-> call[t].keys, cur |-> call[t].cur]] = call
    BY <1>3
  <1>5. Moves(t, l, call[t].entry, call[t].keys, call[t].cur, c)
    BY <1>4, Zenon DEF Got, Goto, Moves
  <1>6. /\ Typed(l, call[t].entry, call[t].keys, call[t].cur, c)
        /\ Flow(l, call[t].entry, call[t].keys, call[t].cur, c)
    BY <1>1, <1>2, Own, NullAssumption DEF Typed, Flow, Labels
  <1>7. pools' = t <=> HoldsAt(l, call[t].entry)
    BY <1>1, <1>2, Own DEF HoldsAt
  <1>8. l # "init" /\ l # "outside"  BY <1>1, <1>2
  <1>9. init_lock' # t /\ init_lock' \in {init_lock, NoThread}
        /\ (init_lock' # init_lock => init_lock = t)
    BY Own, NullAssumption
  <1> HIDE DEF l
  <1> QED  BY <1>1, <1>5, <1>6, <1>7, <1>8, <1>9, MovesOnly, NullAssumption

\* The slow path of get_or_init: whoever has init_lock and finds no context
\* creates the only one there will be.
LEMMA InitContextInv ==
    ASSUME Inv, NEW t \in Threads, InitContext(t)
    PROVE  Inv'
  <1>1. /\ pc[t] = "init" /\ init_lock' = NoThread /\ CreateOnce /\ Got(t, ctx')
        /\ UNCHANGED <<call, pools, surfaces, imports, phase>>
    BY DEF InitContext, At
  <1>2. phase = "running"
    BY <1>1, Own DEF Flow, Inv, PhaseInv
  <1>3. ctx = created /\ created \in Nat /\ created <= 1  BY <1>2 DEF Inv, ContextInv
  <1>4. CASE ctx # 0
    <2>1. UNCHANGED context /\ ctx' = ctx  BY <1>1, <1>4 DEF CreateOnce, context
    <2> QED  BY <1>1, <1>3, <2>1, GotInv
  <1>5. CASE ctx = 0
    <2>1. created = 0 /\ created' = 1 /\ ctx' = 1  BY <1>1, <1>3, <1>5 DEF CreateOnce
    <2> DEFINE l == AfterGet(t)
    <2>2. call[t].entry \in {"create", "import", "context"} /\ call[t].cur = NoSurface
      BY <1>1, Own DEF Flow
    <2>3. l = IF call[t].entry = "create" THEN "pools"
              ELSE IF call[t].entry = "import" THEN "bind" ELSE "inside"
      BY <2>2 DEF AfterGet
    <2>4. /\ call[t] = [entry |-> call[t].entry, keys |-> call[t].keys, cur |-> call[t].cur]
          /\ call \in [Threads -> CallType]
      BY Own DEF Inv, FlowInv
    <2>5. [call EXCEPT ![t] = [entry |-> call[t].entry, keys |-> call[t].keys, cur |-> call[t].cur]] = call
      BY <2>4
    <2>6. Moves(t, l, call[t].entry, call[t].keys, call[t].cur, 1)
      BY <1>1, <2>1, <2>5, Zenon DEF Got, Goto, Moves
    <2>7. /\ Typed(l, call[t].entry, call[t].keys, call[t].cur, 1)
          /\ Flow(l, call[t].entry, call[t].keys, call[t].cur, 1)
      BY <2>2, <2>3, Own, NullAssumption DEF Typed, Flow, Labels
    <2>8. pools = t <=> HoldsAt(l, call[t].entry)
      BY <1>1, <2>2, <2>3, Own DEF HoldsAt
    <2>9. l # "init" /\ init_lock = t /\ init_lock' # t
      BY <1>1, <2>2, <2>3, Own, NullAssumption
    <2> HIDE DEF l
    <2>10. FlowInv'  BY <2>6, <2>7, MovesFlow DEF Inv
    <2>11. LockInv'  BY <1>1, <2>6, <2>8, <2>9, MovesLock DEF Inv
    <2>12. ContextInv'
      <3>1. cuda'[t] = 1 /\ \A u \in Threads : u # t => cuda'[u] = cuda[u]
        BY <2>6, MovesValues DEF Inv
      <3>2. \A u \in Threads : cuda[u] <= 0  BY <2>1 DEF Inv, ContextInv
      <3>3. \A u \in Threads : cuda[u] \in Nat  BY DEF Inv, FlowInv
      <3>4. \A u \in Threads : cuda'[u] <= created'  BY <2>1, <3>1, <3>2, <3>3
      <3>5. /\ kind \in [Surfaces -> {"none", "stub", "internal", "dmabuf"}]
            /\ cuda_ctx \in [Surfaces -> Nat] /\ allocs \in [Surfaces -> Nat]
            /\ \A k \in Surfaces : Account(kind[k], cuda_ctx[k], allocs[k], k \in lost)
        BY DEF Inv, ContextInv
      <3>6. UNCHANGED <<kind, cuda_ctx, allocs, lost, phase>>  BY <1>1 DEF surfaces
      <3>7. \A k \in Surfaces : Account(kind[k], cuda_ctx[k], allocs[k], k \in lost)'
        BY <2>1, <3>5, <3>6 DEF Account
      <3> QED  BY <1>2, <2>1, <3>4, <3>5, <3>6, <3>7 DEF ContextInv
    <2>13. ImportInv'
      BY <1>1, <2>2, <2>6, <2>7, MovesImport, NullAssumption DEF Inv, surfaces, imports
    <2>14. FdInv'  BY <1>1 DEF Inv, FdInv, imports
    <2>15. PhaseInv'  BY <1>1, <1>2, <2>6, MovesPhase DEF Inv
    <2>16. LostInv'
      <3>1. /\ NoSurface \notin lost /\ lost' = lost
            /\ call[t].entry \in {"create", "import"} => call[t].keys \cap lost = {}
        BY <1>1, NullAssumption DEF Inv, LostInv, surfaces
      <3> QED  BY <2>2, <2>6, <3>1, MovesLost DEF Inv
    <2> QED  BY <2>10, <2>11, <2>12, <2>13, <2>14, <2>15, <2>16 DEF Inv
  <1> QED  BY <1>4, <1>5

\* A failing CudaContext::new leaves things as they were.
LEMMA InitContextFailsInv ==
    ASSUME Inv, NEW t \in Threads, InitContextFails(t)
    PROVE  Inv'
  <1>1. /\ pc[t] = "init" /\ init_lock' = NoThread
        /\ UNCHANGED <<cuda, pools, context, surfaces, imports, phase>>
    BY DEF InitContextFails, At
  <1>2. cuda[t] = 0 /\ init_lock = t /\ call[t].cur = NoSurface  BY <1>1, Own DEF Flow
  <1>3. cuda \in [Threads -> Nat] /\ created \in Nat  BY DEF Inv, FlowInv, ContextInv
  <1>4. CASE call[t].entry = "import"
    <2>1. Moves(t, "outside", "none", {}, NoSurface, 0)
      <3>1. [cuda EXCEPT ![t] = 0] = cuda  BY <1>2, <1>3
      <3>2. Goto(t, "outside") /\ call' = [call EXCEPT ![t] = NoCall]
        BY <1>4 DEF InitContextFails
      <3> QED  BY <1>1, <3>1, <3>2, Zenon DEF Moves, Goto, NoCall
    <2>2. Typed("outside", "none", {}, NoSurface, 0) /\ Flow("outside", "none", {}, NoSurface, 0)
      BY DEF Typed, Flow, Labels, Entries
    <2>3. pools # t /\ ~HoldsAt("outside", "none")  BY <1>1, <1>4, Own DEF HoldsAt
    <2>4. NoSurface \notin Surfaces /\ NoThread # t /\ 0 <= created  BY <1>3, NullAssumption
    <2>5. /\ UNCHANGED <<context, surfaces, imports, phase>> /\ pools' = pools
          /\ init_lock' = NoThread /\ init_lock = t /\ pc[t] # "outside"
      BY <1>1, <1>2
    <2>6. (pools' = t <=> HoldsAt("outside", "none")) /\ ~(init_lock' = t)
      BY <2>3, <2>4, <2>5, Zenon
    <2> QED  BY <1>2, <2>1, <2>2, <2>4, <2>5, <2>6, MovesOnly
  <1>5. CASE call[t].entry # "import"
    <2>1. Goto(t, AfterGet(t)) /\ UNCHANGED call  BY <1>5 DEF InitContextFails
    <2>2. cuda' = [cuda EXCEPT ![t] = 0]  BY <1>1, <1>2, <1>3
    <2>3. Got(t, 0)  BY <2>1, <2>2 DEF Got
    <2>4. 0 <= created  BY <1>3
    <2>5. init_lock' = IF pc[t] = "init" THEN NoThread ELSE init_lock  BY <1>1
    <2>6. UNCHANGED <<call, pools, context, surfaces, imports, phase>>  BY <1>1, <2>1
    <2> QED  BY <1>1, <2>3, <2>4, <2>5, <2>6, GotInv
  <1> QED  BY <1>4, <1>5

\* A call that ends without anything in its hands.
LEMMA ReturnInv ==
    ASSUME Inv, NEW t \in Threads, AllocateFails(t) \/ Done(t) \/ DupFails(t)
    PROVE  Inv'
  <1>1. /\ pc[t] \in {"inside", "bind"} /\ Return(t)
        /\ UNCHANGED <<context, surfaces, imports, phase>>
        /\ pc[t] = "inside" => call[t].entry # "import"
    BY DEF AllocateFails, Done, DupFails, At
  <1>2. call[t].cur = NoSurface  BY <1>1, Own DEF Flow, Typed
  <1>3. /\ Moves(t, "outside", "none", {}, NoSurface, 0)
        /\ UNCHANGED init_lock /\ pools' = IF pools = t THEN NoThread ELSE pools
    BY <1>1, ReturnMoves
  <1>4. Typed("outside", "none", {}, NoSurface, 0) /\ Flow("outside", "none", {}, NoSurface, 0)
    BY DEF Typed, Flow, Labels, Entries
  <1>5. NoSurface \notin Surfaces /\ NoThread # t /\ 0 <= created
    BY NullAssumption DEF Inv, ContextInv
  <1>6. init_lock # t  BY <1>1, Own
  <1>7. /\ UNCHANGED <<context, surfaces, imports, phase>> /\ pc[t] # "outside"
        /\ pools' \in {pools, t, NoThread} /\ init_lock' \in {init_lock, t, NoThread}
        /\ pools' # pools => pools \in {t, NoThread}
        /\ init_lock' # init_lock => init_lock \in {t, NoThread}
    BY <1>1, <1>3
  <1>8. ~HoldsAt("outside", "none")  BY DEF HoldsAt
  <1>9. pools' # t /\ init_lock' # t  BY <1>3, <1>5, <1>6
  <1>10. (pools' = t <=> HoldsAt("outside", "none")) /\ (init_lock' = t <=> "outside" = "init")
    BY <1>8, <1>9
  <1>11. {} \subseteq call[t].keys  OBVIOUS
  <1> QED  BY <1>2, <1>3, <1>4, <1>5, <1>7, <1>10, <1>11, MovesOnly

\* An ID that is gone by now is skipped.
LEMMA SkipSurfaceInv ==
    ASSUME Inv, NEW t \in Threads, NEW k \in Surfaces, SkipSurface(t, k)
    PROVE  Inv'
  <1> DEFINE keys == call[t].keys \ {k}
  <1>1. /\ pc[t] = "inside" /\ call[t].entry = "destroy"
        /\ call' = [call EXCEPT ![t].keys = keys]
        /\ UNCHANGED <<pc, cuda, locks, context, surfaces, imports, phase>>
    BY DEF SkipSurface, At
  <1>2. Moves(t, "inside", "destroy", keys, call[t].cur, cuda[t])
    <2>1. pc \in [Threads -> Labels] /\ call \in [Threads -> CallType] /\ cuda \in [Threads -> Nat]
      BY DEF Inv, FlowInv
    <2>2. pc' = [pc EXCEPT ![t] = "inside"] /\ cuda' = [cuda EXCEPT ![t] = cuda[t]]
      BY <1>1, <2>1
    <2>3. call' = [call EXCEPT ![t] = [entry |-> "destroy", keys |-> keys, cur |-> call[t].cur]]
      <3>1. call[t] \in CallType  BY <2>1
      <3>2. [call[t] EXCEPT !.keys = keys] = [entry |-> "destroy", keys |-> keys, cur |-> call[t].cur]
        BY <1>1, <3>1 DEF CallType
      <3>3. call' = [call EXCEPT ![t] = [call[t] EXCEPT !.keys = keys]]
        BY <1>1, Zenon
      <3> QED  BY <3>2, <3>3
    <2> QED  BY <2>2, <2>3 DEF Moves
  <1>3. /\ Typed("inside", "destroy", keys, call[t].cur, cuda[t])
        /\ Flow("inside", "destroy", keys, call[t].cur, cuda[t])
    BY <1>1, Own DEF Typed, Flow
  <1>4. keys \subseteq call[t].keys  OBVIOUS
  <1>5. /\ UNCHANGED <<context, surfaces, imports, phase>> /\ pc[t] # "outside"
        /\ pools' = pools /\ init_lock' = init_lock
    BY <1>1 DEF locks
  <1>6. pools' = t <=> HoldsAt("inside", "destroy")  BY <1>1, <1>5, Own
  <1>7. init_lock' = t <=> "inside" = "init"  BY <1>1, <1>5, Own
  <1>8. call[t].cur \in Surfaces => Held("inside", call[t].cur)  BY <1>1, Own
  <1>9. cuda[t] <= created /\ "destroy" = call[t].entry  BY <1>1, Own
  <1>10. /\ pools' \in {pools, t, NoThread} /\ init_lock' \in {init_lock, t, NoThread}
         /\ pools' # pools => pools \in {t, NoThread}
         /\ init_lock' # init_lock => init_lock \in {t, NoThread}
    BY <1>5
  <1> HIDE DEF keys
  <1> QED  BY <1>2, <1>3, <1>4, <1>5, <1>6, <1>7, <1>8, <1>9, <1>10, MovesOnly

\* The steps of an import that touch no resource.
LEMMA ImportMovesInv ==
    ASSUME Inv, NEW t \in Threads, GetLevel(t) \/ ImportFails(t)
    PROVE  Inv'
  <1> DEFINE l == pc'[t]
  <1>0. pc \in [Threads -> Labels]  BY DEF Inv, FlowInv
  <1>1. /\ pc[t] \in {"import", "map", "level"} /\ Goto(t, l)
        /\ \/ pc[t] = "level" /\ l \in {"pools", "drop_mip"}
           \/ pc[t] = "map" /\ l = "drop_ext"
           \/ pc[t] = "import" /\ l = "close"
        /\ UNCHANGED <<call, cuda, locks, context, surfaces, imports, phase>>
    BY <1>0 DEF GetLevel, ImportFails, At, Goto, UndoFrom
  <1>2. Moves(t, l, call[t].entry, call[t].keys, call[t].cur, cuda[t])
    BY <1>1, GotoMoves
  <1>3. /\ Typed(l, call[t].entry, call[t].keys, call[t].cur, cuda[t])
        /\ Flow(l, call[t].entry, call[t].keys, call[t].cur, cuda[t])
        /\ call[t].cur \in Surfaces => Held(l, call[t].cur)
        /\ ~HoldsAt(l, call[t].entry) /\ pools # t /\ init_lock # t /\ cuda[t] <= created
    BY <1>1, Own DEF Typed, Flow, Labels, Held, HoldsAt
  <1>4. /\ UNCHANGED <<context, surfaces, imports, phase>> /\ pc[t] # "outside"
        /\ pools' = pools /\ init_lock' = init_lock
    BY <1>1 DEF locks
  <1>5. l # "init"  BY <1>1
  <1> HIDE DEF l
  <1>6. pools' = t <=> HoldsAt(l, call[t].entry)  BY <1>3, <1>4, Zenon
  <1> QED  BY <1>2, <1>3, <1>4, <1>5, <1>6, MovesOnly
---------------------------------------------------------------------------
(* A call begins.                                                          *)

\* A thread enters with surfaces nobody else has in hand.
LEMMA EnterInv ==
    ASSUME Inv, NEW t \in Threads, NEW entry \in {"create", "import", "context", "destroy"},
           NEW keys \in SUBSET Surfaces, NEW label \in {"get", "pools"},
           Enter(t, entry, keys, label),
           label = "pools" <=> entry \in {"context", "destroy"},
           entry \in {"create", "import"} => keys \subseteq Fresh,
           entry = "destroy" => keys \subseteq Pool,
           entry = "context" => keys = {}
    PROVE  Inv'
  <1>1. /\ pc[t] = "outside" /\ phase = "running"
        /\ UNCHANGED <<cuda, locks, context, surfaces, imports, phase>>
    BY DEF Enter, At
  <1>2. cuda[t] = 0 /\ call[t].keys = {} /\ call[t].cur = NoSurface  BY <1>1, Own DEF Flow
  <1>3. Moves(t, label, entry, keys, NoSurface, 0)
    <2>1. cuda \in [Threads -> Nat]  BY DEF Inv, FlowInv
    <2>2. cuda' = [cuda EXCEPT ![t] = 0]  BY <1>1, <1>2, <2>1
    <2> QED  BY <2>2 DEF Enter, Goto, Moves
  <1>4. Typed(label, entry, keys, NoSurface, 0) /\ Flow(label, entry, keys, NoSurface, 0)
    BY NullAssumption DEF Typed, Flow, Labels, Entries
  <1>5. /\ pc'[t] = label
        /\ call'[t].entry = entry /\ call'[t].keys = keys /\ call'[t].cur = NoSurface
        /\ \A u \in Threads : u # t => pc'[u] = pc[u] /\ call'[u] = call[u]
    BY <1>3, MovesValues DEF Inv
  <1>6. FlowInv'  BY <1>3, <1>4, MovesFlow DEF Inv
  <1>7. LockInv'
    <2>1. pools # t /\ init_lock # t  BY <1>1, Own DEF HoldsAt, Flow
    <2>2. ~HoldsAt(label, entry)  BY DEF HoldsAt
    <2>3. pools' = pools /\ init_lock' = init_lock  BY <1>1 DEF locks
    <2> QED  BY <1>3, <2>1, <2>2, <2>3, MovesLock DEF Inv
  <1>8. ContextInv'
    <2>1. 0 <= created  BY DEF Inv, ContextInv
    <2>2. UNCHANGED <<created, ctx, phase, kind, cuda_ctx, allocs, lost>>  BY <1>1 DEF context, surfaces
    <2> QED  BY <1>3, <2>1, <2>2, MovesContext DEF Inv
  <1>9. ImportInv'
    <2>1. ImportInv /\ UNCHANGED <<kind, ext_mem, mip, dup_fd>>  BY <1>1 DEF Inv, surfaces, imports
    <2>2. \A u \in Threads : call'[u].cur = call[u].cur  BY <1>2, <1>5
    <2>3. ASSUME NEW u \in Threads, call'[u].cur \in Surfaces PROVE Held(pc[u], call[u].cur)'
      BY <1>5, <2>1, <2>3, NullAssumption DEF ImportInv, Held
    <2>4. ASSUME NEW u \in Threads, call'[u].entry \in {"create", "import"},
                 NEW k \in call'[u].keys
          PROVE  /\ kind[k] = "none"
                 /\ \A v \in Threads : call[v].cur # k /\ (v # u => k \notin call'[v].keys)
      <3>1. \A v \in Threads : call[v].keys \subseteq Surfaces
        BY DEF Inv, FlowInv, CallType
      <3>2. CASE u = t
        <4>1. k \in Fresh /\ k \in Surfaces  BY <1>5, <2>4, <3>2
        <4>2. kind[k] = "none" /\ \A v \in Threads : k \notin Named(v)
          BY <4>1 DEF Fresh, Pool
        <4> QED  BY <1>5, <3>2, <4>2 DEF Named
      <3>3. CASE u # t
        <4>1. /\ k \in call[u].keys /\ call[u].entry \in {"create", "import"} /\ k \in Surfaces
              /\ kind[k] = "none"
              /\ \A v \in Threads : call[v].cur # k /\ (v # u => k \notin call[v].keys)
          BY <1>5, <2>1, <2>4, <3>1, <3>3 DEF ImportInv
        <4>2. k \notin keys
          <5>1. CASE entry \in {"create", "import"}
            <6>1. keys \subseteq Fresh  BY <5>1
            <6> QED  BY <4>1, <6>1 DEF Fresh, Named
          <5>2. CASE entry = "destroy"
            <6>1. keys \subseteq Pool  BY <5>2
            <6> QED  BY <4>1, <6>1 DEF Pool
          <5>3. CASE entry = "context"
            BY <5>3
          <5> QED  BY <5>1, <5>2, <5>3
        <4> QED  BY <1>5, <4>1, <4>2
      <3> QED  BY <3>2, <3>3
    <2> QED  BY <2>1, <2>2, <2>3, <2>4 DEF ImportInv
  <1>10. FdInv'  BY <1>1 DEF Inv, FdInv, imports
  <1>11. PhaseInv'  BY <1>1, <1>3, MovesPhase DEF Inv
  <1>12. LostInv'
    <2>1. entry \in {"create", "import"} => keys \cap lost = {}  BY DEF Fresh
    <2>2. NoSurface \notin lost /\ lost' = lost
      BY <1>1, NullAssumption DEF Inv, LostInv, surfaces
    <2> QED  BY <1>3, <2>1, <2>2, MovesLost DEF Inv
  <1> QED  BY <1>6, <1>7, <1>8, <1>9, <1>10, <1>11, <1>12 DEF Inv
---------------------------------------------------------------------------
(* Steps that change surfaces or imports.                                  *)

\* A move that changes the keys and what the thread has in its hands.
LEMMA CallMoves ==
    ASSUME Inv, NEW t \in Threads, NEW keys, NEW c,
           call' = [call EXCEPT ![t].keys = keys, ![t].cur = c]
    PROVE  call' = [call EXCEPT ![t] = [entry |-> call[t].entry, keys |-> keys, cur |-> c]]
  <1>1. call \in [Threads -> CallType]  BY DEF Inv, FlowInv
  <1>2. call[t] \in CallType  BY <1>1
  <1>3. [[call[t] EXCEPT !.keys = keys] EXCEPT !.cur = c]
          = [entry |-> call[t].entry, keys |-> keys, cur |-> c]
    <2> DEFINE r == [call[t] EXCEPT !.keys = keys]
    <2>1. r = [entry |-> call[t].entry, keys |-> keys, cur |-> call[t].cur]
      BY <1>2 DEF CallType
    <2> HIDE DEF r
    <2>2. [r EXCEPT !.cur = c] = [entry |-> call[t].entry, keys |-> keys, cur |-> c]
      BY <2>1
    <2> QED  BY <2>2 DEF r
  <1>4. call' = [call EXCEPT ![t] = [[call[t] EXCEPT !.keys = keys] EXCEPT !.cur = c]]
    BY <1>1
  <1> QED  BY <1>3, <1>4

\* Working off one surface of a list is a move.
LEMMA KeysMoves ==
    ASSUME Inv, NEW t \in Threads, NEW keys, call' = [call EXCEPT ![t].keys = keys]
    PROVE  call' = [call EXCEPT ![t] = [entry |-> call[t].entry, keys |-> keys,
                                        cur |-> call[t].cur]]
  <1>1. call \in [Threads -> CallType]  BY DEF Inv, FlowInv
  <1>2. call[t] \in CallType  BY <1>1
  <1>3. [call[t] EXCEPT !.keys = keys] = [entry |-> call[t].entry, keys |-> keys, cur |-> call[t].cur]
    BY <1>2 DEF CallType
  <1>4. call' = [call EXCEPT ![t] = [call[t] EXCEPT !.keys = keys]]
    BY <1>1
  <1> QED  BY <1>3, <1>4

\* One surface of a list: the record retains the context of its allocation.
LEMMA InsertSurfaceInv ==
    ASSUME Inv, NEW t \in Threads, NEW k \in Surfaces, InsertSurface(t, k)
    PROVE  Inv'
  <1> DEFINE keys == call[t].keys \ {k}
             sort == IF cuda[t] # 0 THEN "internal" ELSE "stub"
  <1>1. /\ pc[t] = "inside" /\ call[t].entry = "create" /\ k \in call[t].keys
        /\ call' = [call EXCEPT ![t].keys = keys]
        /\ kind' = [kind EXCEPT ![k] = sort]
        /\ cuda_ctx' = [cuda_ctx EXCEPT ![k] = cuda[t]]
        /\ allocs' = IF cuda[t] # 0 THEN [allocs EXCEPT ![k] = cuda[t]] ELSE allocs
        /\ UNCHANGED <<pc, cuda, pools, init_lock, ctx, created, lost,
                       ext_mem, mip, dup_fd, fds, phase>>
    BY DEF InsertSurface, At, AllocateNv12, Insert, locks, context, imports
  <1>2. pc \in [Threads -> Labels] /\ cuda \in [Threads -> Nat]  BY DEF Inv, FlowInv
  <1>3. Moves(t, "inside", "create", keys, call[t].cur, cuda[t])
    <2>1. pc' = [pc EXCEPT ![t] = "inside"] /\ cuda' = [cuda EXCEPT ![t] = cuda[t]]
      BY <1>1, <1>2
    <2> HIDE DEF keys
    <2>2. call' = [call EXCEPT ![t] = [entry |-> "create", keys |-> keys, cur |-> call[t].cur]]
      <3>1. call' = [call EXCEPT ![t] = [entry |-> call[t].entry, keys |-> keys,
                                         cur |-> call[t].cur]]
        BY <1>1, KeysMoves
      <3> QED  BY <1>1, <3>1
    <2> QED  BY <2>1, <2>2 DEF Moves
  <1>4. /\ Typed("inside", "create", keys, call[t].cur, cuda[t])
        /\ Flow("inside", "create", keys, call[t].cur, cuda[t])
    BY <1>1, Own DEF Typed, Flow
  <1>5. /\ call'[t].entry = "create" /\ call'[t].keys = keys /\ call'[t].cur = call[t].cur
        /\ \A u \in Threads : u # t => call'[u] = call[u]
    BY <1>3, MovesValues DEF Inv
  <1>6. kind[k] = "none" /\ \A u \in Threads : call[u].cur # k /\ (u # t => k \notin call[u].keys)
    BY <1>1 DEF Inv, ImportInv
  <1>7. FlowInv'  BY <1>3, <1>4, MovesFlow DEF Inv
  <1>8. LockInv'
    BY <1>1, <1>5 DEF Inv, LockInv
  <1>9. ContextInv'
    <2>1. ContextInv  BY DEF Inv
    <2>2. allocs[k] = 0 /\ k \notin lost
      BY <1>1, <1>6, <2>1 DEF ContextInv, Account, Inv, LostInv
    <2>3. \A m \in Surfaces : /\ allocs'[m] = IF m = k THEN cuda[t] ELSE allocs[m]
                              /\ cuda_ctx'[m] = IF m = k THEN cuda[t] ELSE cuda_ctx[m]
                              /\ kind'[m] = IF m = k THEN sort ELSE kind[m]
      BY <1>1, <2>1, <2>2 DEF ContextInv
    <2>4. cuda[t] \in Nat /\ cuda[t] <= created  BY <1>2, <2>1 DEF ContextInv
    <2>5. /\ kind' \in [Surfaces -> {"none", "stub", "internal", "dmabuf"}]
          /\ cuda_ctx' \in [Surfaces -> Nat] /\ allocs' \in [Surfaces -> Nat]
      BY <1>1, <2>1, <2>4 DEF ContextInv
    <2>6. \A m \in Surfaces : Account(kind[m], cuda_ctx[m], allocs[m], m \in lost)'
      BY <1>1, <2>1, <2>2, <2>3, <2>4 DEF ContextInv, Account
    <2> QED  BY <1>1, <2>1, <2>4, <2>5, <2>6 DEF ContextInv
  <1>10. ImportInv'
    <2>1. ImportInv  BY DEF Inv
    <2>2. kind \in [Surfaces -> {"none", "stub", "internal", "dmabuf"}]  BY DEF Inv, ContextInv
    <2>3. \A m \in Surfaces : kind'[m] = IF m = k THEN sort ELSE kind[m]  BY <1>1, <2>2
    <2>4. sort # "dmabuf"  OBVIOUS
    <2>5. \A u \in Threads : /\ call'[u].cur = call[u].cur /\ call'[u].cur # k
                             /\ call'[u].entry = call[u].entry
                             /\ call'[u].keys \subseteq call[u].keys /\ k \notin call'[u].keys
      BY <1>1, <1>5, <1>6
    <2>6. ASSUME NEW u \in Threads, call'[u].cur \in Surfaces PROVE Held(pc[u], call[u].cur)'
      BY <1>1, <2>1, <2>3, <2>5, <2>6 DEF ImportInv, Held
    <2>7. \A u \in Threads : call[u].keys \subseteq Surfaces  BY DEF Inv, FlowInv, CallType
    <2> HIDE DEF sort
    <2>8. ASSUME NEW u \in Threads, call'[u].entry \in {"create", "import"},
                 NEW m \in call'[u].keys
          PROVE  /\ kind'[m] = "none"
                 /\ \A v \in Threads : call'[v].cur # m /\ (v # u => m \notin call'[v].keys)
      BY <2>1, <2>3, <2>5, <2>7, <2>8 DEF ImportInv
    <2> QED  BY <1>1, <1>6, <2>1, <2>3, <2>4, <2>5, <2>6, <2>8 DEF ImportInv
  <1>11. FdInv'  BY <1>1 DEF Inv, FdInv
  <1>12. PhaseInv'
    <2>1. phase # "terminated"  BY <1>1 DEF Inv, PhaseInv
    <2> QED  BY <1>1, <1>3, <2>1, MovesPhase DEF Inv
  <1>13. LostInv'
    <2>1. call[t].cur \notin lost /\ keys \cap lost = {}  BY <1>1 DEF Inv, LostInv
    <2> HIDE DEF keys
    <2> QED  BY <1>1, <1>3, <2>1, MovesLost DEF Inv
  <1> QED  BY <1>7, <1>8, <1>9, <1>10, <1>11, <1>12, <1>13 DEF Inv

\* A thread works on the import in its hands: the others cannot be affected.
LEMMA WorkInv ==
    ASSUME Inv, NEW t \in Threads, NEW k \in Surfaces, k = call[t].cur,
           NEW l \in {"map", "level", "drop_ext", "close"}, Goto(t, l), pc[t] # "outside",
           UNCHANGED <<call, cuda, locks, context, surfaces, dup_fd, phase>>,
           call[t].entry \in {"import", "destroy", "terminate"},
           l \in {"map", "level"} => call[t].entry = "import",
           HoldsAt(pc[t], call[t].entry) <=> HoldsAt(l, call[t].entry), pc[t] # "init",
           ext_mem' \subseteq Surfaces, mip' \subseteq Surfaces,
           \A m \in Surfaces : m # k => (m \in ext_mem' <=> m \in ext_mem)
                                        /\ (m \in mip' <=> m \in mip),
           l = "map" => k \in ext_mem' /\ k \notin mip',
           l = "level" => k \in ext_mem' /\ k \in mip',
           l = "drop_ext" => k \in ext_mem' /\ k \notin mip',
           l = "close" => k \notin ext_mem' /\ k \notin mip',
           FdInv'
    PROVE  Inv'
  <1>1. Moves(t, l, call[t].entry, call[t].keys, k, cuda[t])
    BY GotoMoves
  <1>2. /\ Typed(l, call[t].entry, call[t].keys, k, cuda[t])
        /\ Flow(l, call[t].entry, call[t].keys, k, cuda[t])
    BY Own DEF Typed, Flow, Labels
  <1>3. FlowInv'  BY <1>1, <1>2, MovesFlow DEF Inv
  <1>4. pc'[t] = l /\ \A u \in Threads : u # t => pc'[u] = pc[u]
    BY <1>1, MovesValues DEF Inv
  <1>5. LockInv'
    <2>1. pools' = pools /\ init_lock' = init_lock  BY DEF locks
    <2>2. (pools = t <=> HoldsAt(l, call[t].entry)) /\ (init_lock = t <=> l = "init")
      BY Own
    <2> QED  BY <1>1, <2>1, <2>2, MovesLock DEF Inv
  <1>6. ContextInv'  BY DEF Inv, ContextInv, Account, context, surfaces
  <1>7. ImportInv'
    <2>1. ImportInv /\ UNCHANGED <<kind, call, dup_fd>>  BY DEF Inv, surfaces
    <2>2. kind[k] = "none"  BY <2>1 DEF ImportInv, Held
    <2>3. \A u \in Threads : u # t => call[u].cur # k  BY <2>1 DEF ImportInv
    <2>4. Held(l, k)'  BY <2>1, <2>2 DEF Held
    <2>5. ASSUME NEW u \in Threads, call[u].cur \in Surfaces PROVE Held(pc[u], call[u].cur)'
      <3>1. CASE u = t  BY <1>4, <2>1, <2>4, <3>1
      <3>2. CASE u # t
        <4>1. Held(pc[u], call[u].cur) /\ call[u].cur # k  BY <2>1, <2>3, <2>5, <3>2 DEF ImportInv
        <4> QED  BY <1>4, <2>1, <2>5, <3>2, <4>1 DEF Held
      <3> QED  BY <3>1, <3>2
    <2>6. ASSUME NEW m \in Surfaces, kind[m] = "dmabuf" PROVE m \in mip' /\ m \in ext_mem'
      BY <2>1, <2>2, <2>6 DEF ImportInv
    <2>7. ASSUME NEW m \in Surfaces, kind[m] # "dmabuf", \A u \in Threads : call[u].cur # m
          PROVE  m \notin mip' /\ m \notin ext_mem' /\ dup_fd[m] = NoFd
      BY <2>1, <2>7 DEF ImportInv
    <2> QED  BY <2>1, <2>5, <2>6, <2>7 DEF ImportInv
  <1>8. PhaseInv'
    <2>1. phase # "terminated"  BY DEF Inv, PhaseInv
    <2> QED  BY <1>1, <2>1, MovesPhase DEF Inv
  <1>9. LostInv'  BY DEF Inv, LostInv, surfaces
  <1> QED  BY <1>3, <1>5, <1>6, <1>7, <1>8, <1>9 DEF Inv

\* The import of external memory.
LEMMA ImportExternalMemoryInv ==
    ASSUME Inv, NEW t \in Threads, ImportExternalMemory(t) \/ GetMappedMipmappedArray(t)
    PROVE  Inv'
  <1> DEFINE l == IF pc[t] = "import" THEN "map" ELSE "level"
  <1>1. /\ pc[t] \in {"import", "map"} /\ Goto(t, l)
        /\ ext_mem' = IF pc[t] = "import" THEN ext_mem \cup {call[t].cur} ELSE ext_mem
        /\ mip' = IF pc[t] = "map" THEN mip \cup {call[t].cur} ELSE mip
        /\ UNCHANGED <<call, cuda, locks, context, surfaces, dup_fd, fds, phase>>
    BY DEF ImportExternalMemory, GetMappedMipmappedArray, At, Cur
  <1>2. PICK k \in Surfaces : k = call[t].cur  BY <1>1, Own DEF Flow
  <1>3. Held(pc[t], k) /\ call[t].entry = "import"  BY <1>1, <1>2, Own DEF Flow
  <1>4. ext_mem \subseteq Surfaces /\ mip \subseteq Surfaces /\ FdInv  BY DEF Inv, ImportInv
  <1>5. FdInv'  BY <1>1, <1>4 DEF FdInv
  <1>6. ~HoldsAt(pc[t], call[t].entry) /\ ~HoldsAt(l, call[t].entry)
    BY <1>1, <1>3 DEF HoldsAt
  <1>7. /\ ext_mem' \subseteq Surfaces /\ mip' \subseteq Surfaces
        /\ \A m \in Surfaces : m # k => (m \in ext_mem' <=> m \in ext_mem)
                                        /\ (m \in mip' <=> m \in mip)
        /\ l = "map" => k \in ext_mem' /\ k \notin mip'
        /\ l = "level" => k \in ext_mem' /\ k \in mip'
    BY <1>1, <1>2, <1>3, <1>4 DEF Held
  <1>8. /\ l \in {"map", "level", "drop_ext", "close"} /\ l # "drop_ext" /\ l # "close"
        /\ pc[t] # "outside" /\ pc[t] # "init"
        /\ UNCHANGED <<call, cuda, locks, context, surfaces, dup_fd, phase>>
    BY <1>1
  <1> HIDE DEF l
  <1>9. HoldsAt(pc[t], call[t].entry) <=> HoldsAt(l, call[t].entry)  BY <1>6, Zenon
  <1> QED  BY <1>1, <1>2, <1>3, <1>5, <1>7, <1>8, <1>9, WorkInv

\* Drop, and the roll-backs, destroy the mipmap first and the memory next.
LEMMA DestroyImportInv ==
    ASSUME Inv, NEW t \in Threads, DestroyMip(t) \/ DestroyExternalMemory(t)
    PROVE  Inv'
  <1> DEFINE l == IF pc[t] = "drop_mip" THEN "drop_ext" ELSE "close"
  <1>1. /\ pc[t] \in {"drop_mip", "drop_ext"} /\ Goto(t, l)
        /\ mip' = IF pc[t] = "drop_mip" THEN mip \ {call[t].cur} ELSE mip
        /\ ext_mem' = IF pc[t] = "drop_ext" THEN ext_mem \ {call[t].cur} ELSE ext_mem
        /\ fds' = IF pc[t] = "drop_ext"
                    THEN [fds EXCEPT ![dup_fd[call[t].cur]] = NoSurface] ELSE fds
        /\ UNCHANGED <<call, cuda, locks, context, surfaces, dup_fd, phase>>
    BY DEF DestroyMip, DestroyExternalMemory, At, Cur
  <1>2. PICK k \in Surfaces : k = call[t].cur  BY <1>1, Own DEF Flow
  <1>3. /\ Held(pc[t], k) /\ call[t].entry \in {"import", "destroy", "terminate"}
    BY <1>1, <1>2, Own DEF Flow
  <1>4. ext_mem \subseteq Surfaces /\ mip \subseteq Surfaces /\ FdInv  BY DEF Inv, ImportInv
  <1>5. FdInv'  BY <1>1, <1>4, NullAssumption DEF FdInv
  <1>6. HoldsAt(pc[t], call[t].entry) <=> HoldsAt(l, call[t].entry)
    BY <1>1, <1>3 DEF HoldsAt
  <1>7. /\ ext_mem' \subseteq Surfaces /\ mip' \subseteq Surfaces
        /\ \A m \in Surfaces : m # k => (m \in ext_mem' <=> m \in ext_mem)
                                        /\ (m \in mip' <=> m \in mip)
        /\ l = "drop_ext" => k \in ext_mem' /\ k \notin mip'
        /\ l = "close" => k \notin ext_mem' /\ k \notin mip'
    BY <1>1, <1>2, <1>3, <1>4 DEF Held
  <1>8. /\ l \in {"map", "level", "drop_ext", "close"} /\ l # "map" /\ l # "level"
        /\ pc[t] # "outside" /\ pc[t] # "init"
        /\ UNCHANGED <<call, cuda, locks, context, surfaces, dup_fd, phase>>
    BY <1>1
  <1> HIDE DEF l
  <1> QED  BY <1>1, <1>2, <1>3, <1>5, <1>6, <1>7, <1>8, WorkInv

\* A duplicate is made for a surface only this thread has in hand.
LEMMA DupFdInv ==
    ASSUME Inv, NEW t \in Threads, NEW n \in Fds, DupFd(t, n)
    PROVE  Inv'
  <1>1. PICK k \in call[t].keys :
          /\ fds' = [fds EXCEPT ![n] = k] /\ dup_fd' = [dup_fd EXCEPT ![k] = n]
          /\ call' = [call EXCEPT ![t].keys = {}, ![t].cur = k]
    BY DEF DupFd
  <1>2. /\ pc[t] = "bind" /\ fds[n] = NoSurface /\ Goto(t, "import")
        /\ UNCHANGED <<cuda, locks, context, surfaces, ext_mem, mip, phase>>
    BY DEF DupFd, At
  <1>3. call[t].entry = "import" /\ call[t].cur = NoSurface  BY <1>2, Own DEF Flow
  <1>4. k \in Surfaces  BY Own DEF Typed
  <1>5. kind[k] = "none" /\ \A u \in Threads : call[u].cur # k /\ (u # t => k \notin call[u].keys)
    BY <1>3 DEF Inv, ImportInv
  <1>6. k \notin mip /\ k \notin ext_mem /\ dup_fd[k] = NoFd
    BY <1>4, <1>5 DEF Inv, ImportInv
  <1>7. Moves(t, "import", "import", {}, k, cuda[t])
    <2>1. call' = [call EXCEPT ![t] = [entry |-> call[t].entry, keys |-> {}, cur |-> k]]
      BY <1>1, CallMoves
    <2>2. cuda' = [cuda EXCEPT ![t] = cuda[t]]  BY <1>2 DEF Inv, FlowInv
    <2> QED  BY <1>2, <1>3, <2>1, <2>2 DEF Moves, Goto
  <1>8. Typed("import", "import", {}, k, cuda[t]) /\ Flow("import", "import", {}, k, cuda[t])
    BY <1>4, Own DEF Typed, Flow, Labels, Entries
  <1>9. /\ pc'[t] = "import" /\ call'[t].entry = "import" /\ call'[t].keys = {} /\ call'[t].cur = k
        /\ \A u \in Threads : u # t => pc'[u] = pc[u] /\ call'[u] = call[u]
    BY <1>7, MovesValues DEF Inv
  <1>10. FlowInv'  BY <1>7, <1>8, MovesFlow DEF Inv
  <1>11. LockInv'
    <2>1. pools # t /\ init_lock # t  BY <1>2, Own DEF HoldsAt
    <2>2. ~HoldsAt("import", "import")  BY DEF HoldsAt
    <2>3. pools' = pools /\ init_lock' = init_lock  BY <1>2 DEF locks
    <2> QED  BY <1>7, <2>1, <2>2, <2>3, MovesLock DEF Inv
  <1>12. ContextInv'
    <2>1. cuda[t] <= created  BY Own
    <2>2. UNCHANGED <<created, ctx, phase, kind, cuda_ctx, allocs, lost>>  BY <1>2 DEF context, surfaces
    <2> QED  BY <1>7, <2>1, <2>2, MovesContext DEF Inv
  <1>13. ImportInv'
    <2>1. ImportInv /\ FdInv /\ UNCHANGED <<kind, ext_mem, mip>>  BY <1>2 DEF Inv, surfaces
    <2>2. \A m \in Surfaces : m # k => dup_fd'[m] = dup_fd[m]  BY <1>1, <2>1 DEF FdInv
    <2>3. Held("import", k)'  BY <1>5, <1>6, <2>1 DEF Held
    <2>4. ASSUME NEW u \in Threads, call'[u].cur \in Surfaces PROVE Held(pc[u], call[u].cur)'
      <3>1. CASE u = t  BY <1>9, <2>1, <2>3, <3>1
      <3>2. CASE u # t  BY <1>9, <2>1, <2>4, <3>2 DEF ImportInv, Held
      <3> QED  BY <3>1, <3>2
    <2>5. ASSUME NEW u \in Threads, NEW v \in Threads, call'[u].cur \in Surfaces,
                 call'[u].cur = call'[v].cur
          PROVE  u = v
      BY <1>5, <1>9, <2>1, <2>5 DEF ImportInv
    <2>6. ASSUME NEW m \in Surfaces, kind[m] # "dmabuf", \A u \in Threads : call'[u].cur # m
          PROVE  m \notin mip /\ m \notin ext_mem /\ dup_fd'[m] = NoFd
      <3>1. m # k  BY <1>9, <2>6
      <3>2. \A u \in Threads : call[u].cur # m  BY <1>3, <1>9, <2>6, NullAssumption
      <3> QED  BY <2>1, <2>2, <2>6, <3>1, <3>2 DEF ImportInv
    <2>7. ASSUME NEW u \in Threads, call'[u].entry \in {"create", "import"},
                 NEW m \in call'[u].keys
          PROVE  /\ kind[m] = "none"
                 /\ \A v \in Threads : call'[v].cur # m /\ (v # u => m \notin call'[v].keys)
      <3>1. u # t  BY <1>9, <2>7
      <3>2. m # k  BY <1>5, <1>9, <2>7, <3>1
      <3> QED  BY <1>9, <2>1, <2>7, <3>1, <3>2 DEF ImportInv
    <2> QED  BY <2>1, <2>4, <2>5, <2>6, <2>7 DEF ImportInv
  <1>14. FdInv'
    <2>1. FdInv /\ UNCHANGED phase  BY <1>2 DEF Inv
    <2>2. dup_fd' \in [Surfaces -> Fds \cup {NoFd}]  BY <1>1, <1>4, <2>1 DEF FdInv
    <2>3. fds' \in [Fds -> Surfaces \cup {NoSurface, Drm}]  BY <1>1, <1>4, <2>1 DEF FdInv
    <2>4. \A m \in Fds : fds[m] # k  BY <1>4, <1>6, <2>1 DEF FdInv, Fds, NoFd
    <2>5. \A m \in Fds : fds'[m] \in Surfaces => dup_fd'[fds'[m]] = m
      BY <1>1, <1>4, <2>1, <2>4 DEF FdInv
    <2>6. k # Drm  BY <1>4, NullAssumption
    <2>7. phase' # "running" => \A m \in Fds : fds'[m] # Drm  BY <1>1, <2>1, <2>6 DEF FdInv
    <2> QED  BY <2>2, <2>3, <2>5, <2>7 DEF FdInv
  <1>15. PhaseInv'
    <2>1. phase # "terminated"  BY <1>2 DEF Inv, PhaseInv
    <2> QED  BY <1>2, <1>3, <1>7, <2>1, MovesPhase DEF Inv
  <1>16. LostInv'
    <2>1. k \notin lost /\ lost' = lost  BY <1>2, <1>3 DEF Inv, LostInv, surfaces
    <2> QED  BY <1>7, <2>1, MovesLost DEF Inv
  <1> QED  BY <1>10, <1>11, <1>12, <1>13, <1>14, <1>15, <1>16 DEF Inv

\* A finished import passes from the thread to the pool.
LEMMA InsertImportedInv ==
    ASSUME Inv, NEW t \in Threads, InsertImported(t)
    PROVE  Inv'
  <1>1. /\ pc[t] = "inside" /\ call[t].entry = "import" /\ Return(t)
        /\ Insert(call[t].cur, "dmabuf", 0)
        /\ UNCHANGED <<context, allocs, lost, imports, phase>>
    BY DEF InsertImported, At, Cur
  <1>2. PICK k \in Surfaces : k = call[t].cur  BY <1>1, Own DEF Flow
  <1>3. /\ kind' = [kind EXCEPT ![k] = "dmabuf"] /\ cuda_ctx' = [cuda_ctx EXCEPT ![k] = 0]
        /\ UNCHANGED <<ctx, created, allocs, lost, ext_mem, mip, dup_fd, fds, phase>>
    BY <1>1, <1>2 DEF Insert, context, imports
  <1>4. Held("inside", k)  BY <1>1, <1>2, Own
  <1>5. /\ Moves(t, "outside", "none", {}, NoSurface, 0) /\ LockInv'
    BY <1>1, ReturnMoves
  <1>6. /\ pc'[t] = "outside" /\ call'[t].entry = "none" /\ call'[t].keys = {}
        /\ call'[t].cur = NoSurface /\ cuda'[t] = 0
        /\ \A u \in Threads : u # t => pc'[u] = pc[u] /\ call'[u] = call[u] /\ cuda'[u] = cuda[u]
    BY <1>5, MovesValues DEF Inv
  <1>7. FlowInv'
    <2>1. Typed("outside", "none", {}, NoSurface, 0) /\ Flow("outside", "none", {}, NoSurface, 0)
      BY DEF Typed, Flow, Labels, Entries
    <2> QED  BY <1>5, <2>1, MovesFlow DEF Inv
  <1>8. ContextInv'
    <2>1. ContextInv  BY DEF Inv
    <2>2. k \notin lost  BY <1>2 DEF Inv, LostInv
    <2>3. allocs[k] = 0 /\ kind[k] = "none" /\ cuda_ctx[k] = 0
      BY <1>4, <2>1, <2>2 DEF ContextInv, Account, Held
    <2>4. cuda_ctx' = cuda_ctx  BY <1>3, <2>1, <2>3 DEF ContextInv
    <2>5. kind' \in [Surfaces -> {"none", "stub", "internal", "dmabuf"}]
      BY <1>3, <2>1 DEF ContextInv
    <2>6. \A m \in Surfaces : Account(kind[m], cuda_ctx[m], allocs[m], m \in lost)'
      BY <1>3, <2>1, <2>2, <2>3, <2>4 DEF ContextInv, Account
    <2>7. \A u \in Threads : cuda'[u] <= created  BY <1>6, <2>1 DEF ContextInv
    <2> QED  BY <1>3, <2>1, <2>4, <2>5, <2>6, <2>7 DEF ContextInv
  <1>9. ImportInv'
    <2>1. ImportInv  BY DEF Inv
    <2>2. kind \in [Surfaces -> {"none", "stub", "internal", "dmabuf"}]  BY DEF Inv, ContextInv
    <2>3. \A m \in Surfaces : kind'[m] = IF m = k THEN "dmabuf" ELSE kind[m]  BY <1>3, <2>2
    <2>4. \A u \in Threads : u # t => call[u].cur # k  BY <1>2, <2>1 DEF ImportInv
    <2>5. ASSUME NEW u \in Threads, call'[u].cur \in Surfaces PROVE Held(pc[u], call[u].cur)'
      <3>1. u # t  BY <1>6, <2>5, NullAssumption
      <3> QED  BY <1>3, <1>6, <2>1, <2>3, <2>4, <2>5, <3>1 DEF ImportInv, Held
    <2>6. ASSUME NEW u \in Threads, NEW v \in Threads, call'[u].cur \in Surfaces,
                 call'[u].cur = call'[v].cur
          PROVE  u = v
      BY <1>6, <2>1, <2>6, NullAssumption DEF ImportInv
    <2>7. ASSUME NEW m \in Surfaces, kind'[m] = "dmabuf" PROVE m \in mip /\ m \in ext_mem
      BY <1>4, <2>1, <2>3, <2>7 DEF ImportInv, Held
    <2>8. ASSUME NEW m \in Surfaces, kind'[m] # "dmabuf", \A u \in Threads : call'[u].cur # m
          PROVE  m \notin mip /\ m \notin ext_mem /\ dup_fd[m] = NoFd
      <3>1. m # k  BY <2>3, <2>8
      <3>2. \A u \in Threads : call[u].cur # m  BY <1>2, <1>6, <2>8, <3>1
      <3> QED  BY <2>1, <2>3, <2>8, <3>1, <3>2 DEF ImportInv
    <2>9. ASSUME NEW u \in Threads, call'[u].entry \in {"create", "import"},
                 NEW m \in call'[u].keys
          PROVE  /\ kind'[m] = "none"
                 /\ \A v \in Threads : call'[v].cur # m /\ (v # u => m \notin call'[v].keys)
      <3>1. u # t /\ call'[u] = call[u]  BY <1>6, <2>9
      <3>2. m \in Surfaces  BY <2>9, <3>1 DEF Inv, FlowInv, CallType
      <3>3. m # k /\ kind[m] = "none"  BY <1>2, <2>1, <2>9, <3>1 DEF ImportInv
      <3>4. m # NoSurface  BY <3>2, NullAssumption
      <3> QED  BY <1>6, <2>1, <2>3, <2>9, <3>1, <3>2, <3>3, <3>4 DEF ImportInv
    <2> QED  BY <1>3, <2>1, <2>5, <2>6, <2>7, <2>8, <2>9 DEF ImportInv
  <1>10. FdInv'  BY <1>3 DEF Inv, FdInv
  <1>11. PhaseInv'
    <2>1. phase # "terminated"  BY <1>1 DEF Inv, PhaseInv
    <2> QED  BY <1>3, <1>5, <2>1, MovesPhase DEF Inv
  <1>12. LostInv'
    <2>1. NoSurface \notin lost  BY NullAssumption DEF Inv, LostInv
    <2> QED  BY <1>3, <1>5, <2>1, MovesLost DEF Inv
  <1> QED  BY <1>5, <1>7, <1>8, <1>9, <1>10, <1>11, <1>12 DEF Inv

\* A dropped surface gives up memory and Arc together; an import passes from
\* the pool to the thread.
LEMMA DropSurfaceInv ==
    ASSUME Inv, NEW t \in Threads, NEW k \in Surfaces, DestroySurface(t, k) \/ DropPools(t, k)
    PROVE  Inv'
  <1> DEFINE isdma == kind[k] = "dmabuf"
             l     == IF isdma THEN "drop_mip" ELSE "inside"
             c     == IF isdma THEN k ELSE NoSurface
             keys  == call[t].keys \ {k}
             e     == call[t].entry
  <1>1. /\ pc[t] = "inside" /\ e \in {"destroy", "terminate"} /\ kind[k] # "none"
        /\ DropSurface(t, k)
    BY DEF DestroySurface, DropPools, At, Pool
  <1>2. /\ kind' = [kind EXCEPT ![k] = "none"] /\ cuda_ctx' = [cuda_ctx EXCEPT ![k] = 0]
        /\ allocs' = IF cuda_ctx[k] # 0 THEN [allocs EXCEPT ![k] = 0] ELSE allocs
        /\ Goto(t, l) /\ call' = [call EXCEPT ![t].keys = keys, ![t].cur = c]
        /\ UNCHANGED <<cuda, pools, init_lock, lost, ext_mem, mip, dup_fd, fds,
                       created, ctx, phase>>
    BY <1>1, Zenon DEF DropSurface, Insert, Free, locks, imports, context
  <1>3. call[t].cur = NoSurface  BY <1>1, Own DEF Flow, Typed
  <1>4. Moves(t, l, e, keys, c, cuda[t])
    <2> HIDE DEF keys, c, l
    <2>1. call' = [call EXCEPT ![t] = [entry |-> e, keys |-> keys, cur |-> c]]
      BY <1>2, CallMoves
    <2>2. cuda' = [cuda EXCEPT ![t] = cuda[t]]  BY <1>2 DEF Inv, FlowInv
    <2> QED  BY <1>2, <2>1, <2>2 DEF Moves, Goto
  <1>5. Typed(l, e, keys, c, cuda[t]) /\ Flow(l, e, keys, c, cuda[t])
    BY <1>1, Own, NullAssumption DEF Typed, Flow, Labels
  <1>6. /\ pc'[t] = l /\ call'[t].entry = e /\ call'[t].keys = keys /\ call'[t].cur = c
        /\ \A u \in Threads : u # t => pc'[u] = pc[u] /\ call'[u] = call[u]
    BY <1>4, MovesValues DEF Inv
  <1>7. FlowInv'  BY <1>4, <1>5, MovesFlow DEF Inv
  <1>8. LockInv'
    <2>1. /\ HoldsAt(l, e) <=> HoldsAt(pc[t], e)
          /\ pools = t <=> HoldsAt(pc[t], e)
          /\ init_lock # t /\ l # "init"
      BY <1>1, Own DEF HoldsAt
    <2>2. pools' = pools /\ init_lock' = init_lock  BY <1>2
    <2> HIDE DEF l, e, c, keys
    <2> QED  BY <1>4, <2>1, <2>2, MovesLock DEF Inv
  <1>9. ContextInv'
    <2>1. ContextInv  BY DEF Inv
    <2>2. k \notin lost /\ allocs[k] = cuda_ctx[k]  BY <1>1, <2>1 DEF ContextInv, Account
    <2>3. \A m \in Surfaces : /\ allocs'[m] = IF m = k THEN 0 ELSE allocs[m]
                              /\ cuda_ctx'[m] = IF m = k THEN 0 ELSE cuda_ctx[m]
                              /\ kind'[m] = IF m = k THEN "none" ELSE kind[m]
      BY <1>2, <2>1, <2>2 DEF ContextInv
    <2>4. /\ kind' \in [Surfaces -> {"none", "stub", "internal", "dmabuf"}]
          /\ cuda_ctx' \in [Surfaces -> Nat] /\ allocs' \in [Surfaces -> Nat]
      BY <1>2, <2>1 DEF ContextInv
    <2>5. \A m \in Surfaces : Account(kind[m], cuda_ctx[m], allocs[m], m \in lost)'
      BY <1>2, <2>1, <2>2, <2>3 DEF ContextInv, Account
    <2> QED  BY <1>2, <2>1, <2>4, <2>5 DEF ContextInv
  <1>10. ImportInv'
    <2>1. ImportInv  BY DEF Inv
    <2>2. kind \in [Surfaces -> {"none", "stub", "internal", "dmabuf"}]  BY DEF Inv, ContextInv
    <2>3. \A m \in Surfaces : kind'[m] = IF m = k THEN "none" ELSE kind[m]  BY <1>2, <2>2
    <2>4. \A u \in Threads : call[u].cur # k  BY <1>1, <2>1 DEF ImportInv, Held
    <2>5. isdma => k \in mip /\ k \in ext_mem  BY <2>1 DEF ImportInv
    <2>6. ~isdma => k \notin mip /\ k \notin ext_mem /\ dup_fd[k] = NoFd
      BY <2>1, <2>4 DEF ImportInv
    <2>7. c \in Surfaces => c = k /\ isdma /\ l = "drop_mip"  BY NullAssumption
    <2>8. c # k => ~isdma  OBVIOUS
    <2>9. keys \subseteq call[t].keys /\ e \notin {"create", "import"}  BY <1>1
    <2> HIDE DEF c, l, keys, e
    <2>10. ASSUME NEW u \in Threads, call'[u].cur \in Surfaces PROVE Held(pc[u], call[u].cur)'
      <3>1. CASE u = t
        <4>1. call'[u].cur = k /\ isdma /\ pc'[u] = "drop_mip"  BY <1>6, <2>7, <2>10, <3>1
        <4> QED  BY <1>2, <2>3, <2>5, <4>1 DEF Held
      <3>2. CASE u # t
        <4>1. call'[u] = call[u] /\ pc'[u] = pc[u] /\ call[u].cur # k  BY <1>6, <2>4, <3>2
        <4>2. Held(pc[u], call[u].cur) /\ call[u].cur \in Surfaces
          BY <2>1, <2>10, <4>1 DEF ImportInv
        <4>3. kind'[call[u].cur] = "none"  BY <2>3, <4>2 DEF Held
        <4>4. ext_mem' = ext_mem /\ mip' = mip  BY <1>2
        <4>5. pc'[u] = pc[u] /\ call'[u].cur = call[u].cur  BY <4>1
        <4> QED  BY <4>2, <4>3, <4>4, <4>5 DEF Held
      <3> QED  BY <3>1, <3>2
    <2>11. ASSUME NEW u \in Threads, NEW v \in Threads, call'[u].cur \in Surfaces,
                  call'[u].cur = call'[v].cur
           PROVE  u = v
      BY <1>6, <2>1, <2>4, <2>7, <2>11 DEF ImportInv
    <2>12. ASSUME NEW m \in Surfaces, kind'[m] # "dmabuf", \A u \in Threads : call'[u].cur # m
           PROVE  m \notin mip /\ m \notin ext_mem /\ dup_fd[m] = NoFd
      <3>1. CASE m = k  BY <1>6, <2>6, <2>8, <2>12, <3>1
      <3>2. CASE m # k
        <4>1. \A u \in Threads : call[u].cur # m  BY <1>3, <1>6, <2>12, NullAssumption
        <4> QED  BY <2>1, <2>3, <2>12, <3>2, <4>1 DEF ImportInv
      <3> QED  BY <3>1, <3>2
    <2>13. ASSUME NEW u \in Threads, call'[u].entry \in {"create", "import"},
                  NEW m \in call'[u].keys
           PROVE  /\ kind'[m] = "none"
                  /\ \A v \in Threads : call'[v].cur # m /\ (v # u => m \notin call'[v].keys)
      <3>1. u # t /\ call'[u] = call[u]  BY <1>6, <2>9, <2>13
      <3>2. m \in Surfaces  BY <2>13, <3>1 DEF Inv, FlowInv, CallType
      <3>3. m # k /\ kind[m] = "none"  BY <1>1, <2>1, <2>13, <3>1 DEF ImportInv
      <3>4. c # m  BY <2>7, <3>2, <3>3
      <3> QED  BY <1>6, <2>1, <2>3, <2>9, <2>13, <3>1, <3>2, <3>3, <3>4 DEF ImportInv
    <2>14. ASSUME NEW m \in Surfaces, kind'[m] = "dmabuf" PROVE m \in mip /\ m \in ext_mem
      BY <2>1, <2>3, <2>14 DEF ImportInv
    <2> QED  BY <1>2, <2>1, <2>10, <2>11, <2>12, <2>13, <2>14 DEF ImportInv
  <1>11. FdInv'  BY <1>2 DEF Inv, FdInv
  <1>12. PhaseInv'
    <2>1. phase # "terminated"  BY <1>1 DEF Inv, PhaseInv
    <2> QED  BY <1>2, <1>4, <2>1, MovesPhase DEF Inv
  <1>13. LostInv'
    <2>1. k \notin lost  BY <1>1 DEF Inv, ContextInv, Account
    <2>2. c \notin lost /\ e \notin {"create", "import"}
      BY <1>1, <2>1, NullAssumption DEF Inv, LostInv
    <2> HIDE DEF c, l, keys, e
    <2> QED  BY <1>2, <1>4, <2>2, MovesLost DEF Inv
  <1> QED  BY <1>7, <1>8, <1>9, <1>10, <1>11, <1>12, <1>13 DEF Inv

\* The close, whatever its number means by then.
LEMMA CloseFdInv ==
    ASSUME Inv, NEW t \in Threads, CloseFd(t)
    PROVE  Inv'
  <1> DEFINE imports_ == call[t].entry = "import"
             l    == IF imports_ THEN "outside" ELSE "inside"
             e    == IF imports_ THEN "none" ELSE call[t].entry
             keys == IF imports_ THEN {} ELSE call[t].keys
             arc  == IF imports_ THEN 0 ELSE cuda[t]
  <1>1. /\ pc[t] = "close"
        /\ fds' = [fds EXCEPT ![dup_fd[call[t].cur]] = NoSurface]
        /\ dup_fd' = [dup_fd EXCEPT ![call[t].cur] = NoFd]
        /\ UNCHANGED <<ctx, created, kind, cuda_ctx, allocs, lost, ext_mem, mip, phase>>
    BY DEF CloseFd, At, Cur, context, surfaces
  <1>2. PICK k \in Surfaces : k = call[t].cur  BY <1>1, Own DEF Flow
  <1>3. Held("close", k) /\ call[t].entry \in {"import", "destroy", "terminate"}
    BY <1>1, <1>2, Own DEF Flow
  <1>4. Moves(t, l, e, keys, NoSurface, arc) /\ LockInv'
    <2>1. CASE imports_
      <3>1. Return(t)  BY <2>1 DEF CloseFd
      <3> QED  BY <1>1, <2>1, <3>1, ReturnMoves
    <2>2. CASE ~imports_
      <3>1. /\ Goto(t, "inside") /\ call' = [call EXCEPT ![t].cur = NoSurface]
            /\ UNCHANGED <<cuda, pools, init_lock>>
        BY <2>2 DEF CloseFd, locks
      <3>2. call' = [call EXCEPT ![t] = [entry |-> call[t].entry, keys |-> call[t].keys,
                                         cur |-> NoSurface]]
        <4>1. call \in [Threads -> CallType]  BY DEF Inv, FlowInv
        <4>2. call[t] \in CallType  BY <4>1
        <4>3. [call[t] EXCEPT !.cur = NoSurface]
                = [entry |-> call[t].entry, keys |-> call[t].keys, cur |-> NoSurface]
          BY <4>2 DEF CallType
        <4>4. call' = [call EXCEPT ![t] = [call[t] EXCEPT !.cur = NoSurface]]
          BY <3>1, <4>1
        <4> QED  BY <4>3, <4>4
      <3>3. cuda' = [cuda EXCEPT ![t] = cuda[t]]  BY <3>1 DEF Inv, FlowInv
      <3>4. Moves(t, "inside", call[t].entry, call[t].keys, NoSurface, cuda[t])
        BY <3>1, <3>2, <3>3 DEF Moves, Goto
      <3>5. /\ HoldsAt("inside", call[t].entry) <=> HoldsAt(pc[t], call[t].entry)
            /\ pools = t <=> HoldsAt(pc[t], call[t].entry)
            /\ init_lock # t
        BY <1>1, <1>3, <2>2, Own DEF HoldsAt
      <3>6. LockInv'
        BY <3>1, <3>4, <3>5, MovesLock DEF Inv
      <3> QED  BY <2>2, <3>4, <3>6
    <2> QED  BY <2>1, <2>2
  <1>5. Typed(l, e, keys, NoSurface, arc) /\ Flow(l, e, keys, NoSurface, arc)
    BY <1>3, Own, NullAssumption DEF Typed, Flow, Labels, Entries
  <1>6. arc <= created  BY Own DEF Inv, ContextInv
  <1>7. keys \subseteq call[t].keys /\ e \in {call[t].entry, "none"} /\ e \notin {"create", "import"}
        /\ l # "close"
    BY <1>3
  <1> HIDE DEF l, e, keys, arc
  <1>8. /\ pc'[t] = l /\ call'[t].entry = e /\ call'[t].keys = keys /\ call'[t].cur = NoSurface
        /\ \A u \in Threads : u # t => pc'[u] = pc[u] /\ call'[u] = call[u]
    BY <1>4, MovesValues DEF Inv
  <1>9. FlowInv'  BY <1>4, <1>5, MovesFlow DEF Inv
  <1>10. ContextInv'  BY <1>1, <1>4, <1>6, MovesContext DEF Inv
  <1>11. ImportInv'
    <2>1. ImportInv /\ FdInv  BY DEF Inv
    <2>2. \A m \in Surfaces : m # k => dup_fd'[m] = dup_fd[m]  BY <1>1, <1>2, <2>1 DEF FdInv
    <2>3. dup_fd'[k] = NoFd  BY <1>1, <1>2, <2>1 DEF FdInv
    <2>4. ASSUME NEW u \in Threads, call'[u].cur \in Surfaces PROVE Held(pc[u], call[u].cur)'
      <3>1. u # t  BY <1>8, <2>4, NullAssumption
      <3> QED  BY <1>1, <1>8, <2>1, <2>4, <3>1 DEF ImportInv, Held
    <2>5. ASSUME NEW u \in Threads, NEW v \in Threads, call'[u].cur \in Surfaces,
                 call'[u].cur = call'[v].cur
          PROVE  u = v
      BY <1>8, <2>1, <2>5, NullAssumption DEF ImportInv
    <2>6. ASSUME NEW m \in Surfaces, kind[m] # "dmabuf", \A u \in Threads : call'[u].cur # m
          PROVE  m \notin mip /\ m \notin ext_mem /\ dup_fd'[m] = NoFd
      <3>1. CASE m = k  BY <1>3, <2>3, <3>1 DEF Held
      <3>2. CASE m # k
        <4>1. \A u \in Threads : call[u].cur # m  BY <1>2, <1>8, <2>6, <3>2
        <4> QED  BY <2>1, <2>2, <2>6, <3>2, <4>1 DEF ImportInv
      <3> QED  BY <3>1, <3>2
    <2>7. ASSUME NEW u \in Threads, call'[u].entry \in {"create", "import"},
                 NEW m \in call'[u].keys
          PROVE  /\ kind[m] = "none"
                 /\ \A v \in Threads : call'[v].cur # m /\ (v # u => m \notin call'[v].keys)
      <3>1. u # t /\ call'[u] = call[u]  BY <1>7, <1>8, <2>7
      <3>2. m \in Surfaces  BY <2>7, <3>1 DEF Inv, FlowInv, CallType
      <3>3. m # NoSurface  BY <3>2, NullAssumption
      <3> QED  BY <1>7, <1>8, <2>1, <2>7, <3>1, <3>2, <3>3 DEF ImportInv
    <2> QED  BY <1>1, <2>1, <2>4, <2>5, <2>6, <2>7 DEF ImportInv
  <1>12. FdInv'
    <2>1. FdInv  BY DEF Inv
    <2>2. dup_fd' \in [Surfaces -> Fds \cup {NoFd}]  BY <1>1, <2>1 DEF FdInv
    <2>3. fds' \in [Fds -> Surfaces \cup {NoSurface, Drm}]  BY <1>1, <2>1 DEF FdInv
    <2>4. ASSUME NEW n \in Fds, fds'[n] \in Surfaces PROVE dup_fd'[fds'[n]] = n
      <3>1. fds'[n] = fds[n] /\ n # dup_fd[k]
        BY <1>1, <1>2, <2>1, <2>4, NullAssumption DEF FdInv
      <3>2. dup_fd[fds[n]] = n  BY <2>1, <2>4, <3>1 DEF FdInv
      <3>3. fds[n] # k  BY <3>1, <3>2
      <3> QED  BY <1>1, <1>2, <2>1, <2>4, <3>1, <3>2, <3>3 DEF FdInv
    <2>5. phase' # "running" => \A n \in Fds : fds'[n] # Drm
      BY <1>1, <2>1, NullAssumption DEF FdInv
    <2> QED  BY <2>2, <2>3, <2>4, <2>5 DEF FdInv
  <1>13. PhaseInv'
    <2>1. phase # "terminated"  BY <1>1 DEF Inv, PhaseInv
    <2> QED  BY <1>1, <1>4, <1>7, <2>1, MovesPhase DEF Inv
  <1>14. LostInv'
    <2>1. NoSurface \notin lost  BY NullAssumption DEF Inv, LostInv
    <2> QED  BY <1>1, <1>4, <1>7, <2>1, MovesLost DEF Inv
  <1> QED  BY <1>4, <1>9, <1>10, <1>11, <1>12, <1>13, <1>14 DEF Inv

\* The fast path of get_or_init.
LEMMA GetFastInv ==
    ASSUME Inv, NEW t \in Threads, GetFast(t)
    PROVE  Inv'
  <1>1. /\ pc[t] = "get" /\ Got(t, ctx)
        /\ UNCHANGED <<call, pools, init_lock, context, surfaces, imports, phase>>
    BY DEF GetFast, At, locks
  <1>2. ctx \in Nat /\ ctx <= created  BY DEF Inv, ContextInv
  <1> QED  BY <1>1, <1>2, GotInv

\* vaTerminate lets go of the context and of the drm descriptor.
LEMMA TerminateInv ==
    ASSUME Inv, NEW t \in Threads, Terminate(t)
    PROVE  Inv'
  <1>1. /\ \A u \in Threads : pc[u] = "outside"
        /\ phase = "running" /\ phase' = "terminating" /\ Goto(t, "inside")
        /\ call' = [call EXCEPT ![t].entry = "terminate"]
        /\ ctx' = 0 /\ fds' = [n \in Fds |-> IF fds[n] = Drm THEN NoSurface ELSE fds[n]]
        /\ UNCHANGED <<cuda, pools, init_lock, created, kind, cuda_ctx, allocs, lost,
                       ext_mem, mip, dup_fd>>
    BY DEF Terminate, At, locks, surfaces
  <1>2. \A u \in Threads : /\ call[u].entry = "none" /\ call[u].keys = {}
                           /\ call[u].cur = NoSurface /\ cuda[u] = 0
    BY <1>1 DEF Inv, FlowInv, Flow
  <1>3. Moves(t, "inside", "terminate", {}, NoSurface, 0)
    <2>1. call \in [Threads -> CallType] /\ cuda \in [Threads -> Nat]  BY DEF Inv, FlowInv
    <2>2. call[t] \in CallType  BY <2>1
    <2>3. [call[t] EXCEPT !.entry = "terminate"]
            = [entry |-> "terminate", keys |-> {}, cur |-> NoSurface]
      <3>1. call[t] = [entry |-> "none", keys |-> {}, cur |-> NoSurface]
        BY <1>2, <2>2 DEF CallType
      <3> QED  BY <3>1
    <2>4. call' = [call EXCEPT ![t] = [call[t] EXCEPT !.entry = "terminate"]]  BY <1>1, <2>1
    <2>5. cuda' = [cuda EXCEPT ![t] = 0]  BY <1>1, <1>2, <2>1
    <2> QED  BY <1>1, <2>3, <2>4, <2>5 DEF Moves, Goto
  <1>4. /\ Typed("inside", "terminate", {}, NoSurface, 0)
        /\ Flow("inside", "terminate", {}, NoSurface, 0)
    BY NullAssumption DEF Typed, Flow, Labels, Entries
  <1>5. /\ pc'[t] = "inside" /\ call'[t].entry = "terminate"
        /\ call'[t].keys = {} /\ call'[t].cur = NoSurface /\ cuda'[t] = 0
        /\ \A u \in Threads : u # t => pc'[u] = pc[u] /\ cuda'[u] = cuda[u] /\ call'[u] = call[u]
    BY <1>3, MovesValues DEF Inv
  <1>6. FlowInv'  BY <1>3, <1>4, MovesFlow DEF Inv
  <1>7. LockInv'
    <2>1. pools # t /\ init_lock # t  BY <1>1, <1>2, Own DEF HoldsAt
    <2>2. ~HoldsAt("inside", "terminate")  BY DEF HoldsAt
    <2>3. pools' = pools /\ init_lock' = init_lock  BY <1>1
    <2> QED  BY <1>3, <2>1, <2>2, <2>3, MovesLock DEF Inv
  <1>8. ContextInv'
    <2>1. \A u \in Threads : cuda'[u] = cuda[u]  BY <1>1
    <2> QED  BY <1>1, <2>1 DEF Inv, ContextInv, Account
  <1>9. ImportInv'
    <2>1. ImportInv /\ \A u \in Threads : call'[u].cur = NoSurface /\ call'[u].keys = {}
      BY <1>2, <1>5 DEF Inv
    <2> QED  BY <1>1, <1>2, <2>1, NullAssumption DEF ImportInv
  <1>10. FdInv'  BY <1>1, NullAssumption DEF Inv, FdInv
  <1>11. PhaseInv'
    <2>1. \A u \in Threads : u # t => call'[u].entry = "none"  BY <1>2, <1>5
    <2> QED  BY <1>1, <1>5, <2>1 DEF PhaseInv
  <1>12. LostInv'
    <2>1. NoSurface \notin lost  BY NullAssumption DEF Inv, LostInv
    <2> QED  BY <1>1, <1>3, <2>1, MovesLost DEF Inv
  <1> QED  BY <1>6, <1>7, <1>8, <1>9, <1>10, <1>11, <1>12 DEF Inv

\* The end of vaTerminate: the pool is empty.
LEMMA TerminatedInv ==
    ASSUME Inv, NEW t \in Threads, Terminated(t)
    PROVE  Inv'
  <1>1. /\ pc[t] = "inside" /\ call[t].entry = "terminate" /\ Pool = {} /\ Return(t)
        /\ phase' = "terminated" /\ UNCHANGED <<context, surfaces, imports>>
    BY DEF Terminated, At
  <1>2. call[t].cur = NoSurface  BY <1>1, Own DEF Flow, Typed
  <1>3. Moves(t, "outside", "none", {}, NoSurface, 0) /\ LockInv'
    BY <1>1, ReturnMoves
  <1>4. /\ Typed("outside", "none", {}, NoSurface, 0) /\ Flow("outside", "none", {}, NoSurface, 0)
    BY DEF Typed, Flow, Labels, Entries
  <1>5. /\ pc'[t] = "outside" /\ call'[t].entry = "none" /\ cuda'[t] = 0
        /\ \A u \in Threads : u # t => pc'[u] = pc[u] /\ cuda'[u] = cuda[u] /\ call'[u] = call[u]
    BY <1>3, MovesValues DEF Inv
  <1>6. FlowInv'  BY <1>3, <1>4, MovesFlow DEF Inv
  <1>7. phase = "terminating" /\ phase # "running"
    BY <1>1 DEF Inv, PhaseInv
  <1>8. ContextInv'
    <2>1. ContextInv /\ UNCHANGED <<ctx, created, kind, cuda_ctx, allocs, lost>>
      BY <1>1 DEF Inv, context, surfaces
    <2>2. \A u \in Threads : cuda'[u] <= created  BY <1>5, <2>1 DEF ContextInv
    <2> QED  BY <1>1, <1>7, <2>1, <2>2 DEF ContextInv, Account
  <1>9. ImportInv'
    <2>1. UNCHANGED <<kind, ext_mem, mip, dup_fd>>  BY <1>1 DEF surfaces, imports
    <2> QED  BY <1>2, <1>3, <1>4, <2>1, MovesImport, NullAssumption DEF Inv
  <1>10. FdInv'  BY <1>1, <1>7 DEF Inv, FdInv, imports
  <1>11. PhaseInv'
    <2>1. \A k \in Surfaces : kind'[k] = "none"  BY <1>1 DEF Pool, surfaces
    <2>2. ASSUME NEW u \in Threads, u # t PROVE pc[u] = "outside" /\ call[u].entry = "none"
      <3>1. call[u].entry \in {"none", "terminate"} /\ call[u].entry # "terminate"
        BY <1>1, <1>7, <2>2 DEF Inv, PhaseInv
      <3>2. pc[u] \in Labels /\ Flow(pc[u], call[u].entry, call[u].keys, call[u].cur, cuda[u])
        BY DEF Inv, FlowInv
      <3> QED  BY <3>1, <3>2 DEF Flow, Labels
    <2>3. \A u \in Threads : pc'[u] = "outside" /\ call'[u].entry = "none"  BY <1>5, <2>2
    <2> QED  BY <1>1, <2>1, <2>3 DEF PhaseInv
  <1>12. LostInv'
    <2>1. NoSurface \notin lost /\ lost' = lost
      BY <1>1, NullAssumption DEF Inv, LostInv, surfaces
    <2> QED  BY <1>3, <2>1, MovesLost DEF Inv
  <1> QED  BY <1>3, <1>6, <1>8, <1>9, <1>10, <1>11, <1>12 DEF Inv

\* The pointer dropped by allocate_nv12: the call is gone, the allocation is not.
LEMMA PitchTooWideInv ==
    ASSUME Inv, NEW t \in Threads, NEW k \in Surfaces, PitchTooWide(t, k)
    PROVE  Inv'
  <1>1. /\ pc[t] = "inside" /\ call[t].entry = "create" /\ cuda[t] # 0 /\ k \in call[t].keys
        /\ allocs' = [allocs EXCEPT ![k] = cuda[t]] /\ lost' = lost \cup {k} /\ Return(t)
        /\ UNCHANGED <<ctx, created, kind, cuda_ctx, ext_mem, mip, dup_fd, fds, phase>>
    BY DEF PitchTooWide, At, context, imports
  <1>2. call[t].cur = NoSurface /\ NoSurface \notin Surfaces
    BY <1>1, Own, NullAssumption DEF Flow, Typed
  <1>3. Moves(t, "outside", "none", {}, NoSurface, 0) /\ LockInv'
    BY <1>1, ReturnMoves
  <1>4. /\ Typed("outside", "none", {}, NoSurface, 0) /\ Flow("outside", "none", {}, NoSurface, 0)
    BY DEF Typed, Flow, Labels, Entries
  <1>5. /\ call'[t].entry = "none" /\ call'[t].keys = {} /\ call'[t].cur = NoSurface
        /\ cuda'[t] = 0
        /\ \A u \in Threads : u # t => cuda'[u] = cuda[u] /\ call'[u] = call[u]
    BY <1>3, MovesValues DEF Inv
  <1>6. kind[k] = "none" /\ \A u \in Threads : call[u].cur # k /\ (u # t => k \notin call[u].keys)
    BY <1>1 DEF Inv, ImportInv
  <1>7. FlowInv'  BY <1>3, <1>4, MovesFlow DEF Inv
  <1>8. ContextInv'
    <2>1. ContextInv /\ k \notin lost  BY <1>1 DEF Inv, LostInv
    <2>2. cuda[t] \in Nat /\ cuda[t] <= created  BY <2>1 DEF Inv, FlowInv, ContextInv
    <2>3. cuda_ctx[k] = 0  BY <1>6, <2>1 DEF ContextInv, Account
    <2>4. \A m \in Surfaces : allocs'[m] = IF m = k THEN cuda[t] ELSE allocs[m]
      BY <1>1, <2>1 DEF ContextInv
    <2>5. \A m \in Surfaces : Account(kind[m], cuda_ctx[m], allocs[m], m \in lost)'
      BY <1>1, <1>6, <2>1, <2>2, <2>3, <2>4 DEF ContextInv, Account
    <2>6. allocs' \in [Surfaces -> Nat]  BY <1>1, <2>1, <2>2 DEF ContextInv
    <2>7. \A u \in Threads : cuda'[u] <= created  BY <1>5, <2>1 DEF ContextInv
    <2> QED  BY <1>1, <2>1, <2>5, <2>6, <2>7 DEF ContextInv
  <1>9. ImportInv'  BY <1>1, <1>2, <1>3, <1>4, MovesImport DEF Inv
  <1>10. FdInv'  BY <1>1 DEF Inv, FdInv
  <1>11. PhaseInv'
    <2>1. phase # "terminated"  BY <1>1 DEF Inv, PhaseInv
    <2> QED  BY <1>1, <1>3, <2>1, MovesPhase DEF Inv
  <1>12. LostInv'  BY <1>1, <1>2, <1>5, <1>6 DEF Inv, LostInv
  <1> QED  BY <1>3, <1>7, <1>8, <1>9, <1>10, <1>11, <1>12 DEF Inv
---------------------------------------------------------------------------
\* Nothing changes.
LEMMA StutterInv ==
    ASSUME Inv, UNCHANGED vars
    PROVE  Inv'
  <1> USE DEF vars
  <1>1. FlowInv'  BY DEF Inv, FlowInv
  <1>2. LockInv'  BY DEF Inv, LockInv
  <1>3. ContextInv'  BY DEF Inv, ContextInv, Account
  <1>4. ImportInv'  BY DEF Inv, ImportInv, Held
  <1>5. FdInv'  BY DEF Inv, FdInv
  <1>6. PhaseInv'  BY DEF Inv, PhaseInv
  <1>7. LostInv'  BY DEF Inv, LostInv
  <1> QED  BY <1>1, <1>2, <1>3, <1>4, <1>5, <1>6, <1>7 DEF Inv

\* The client starts a call.
LEMMA CallInv ==
    ASSUME Inv, NEW t \in Threads,
           \/ CreateContext(t)
           \/ \E keys \in SUBSET Surfaces : CreateSurfaces(t, keys) \/ DestroySurfaces(t, keys)
           \/ \E k \in Surfaces : CreateSurfacesDmaBuf(t, k)
    PROVE  Inv'
  <1>1. CASE CreateContext(t)
    BY <1>1, EnterInv DEF CreateContext
  <1>2. ASSUME NEW keys \in SUBSET Surfaces, CreateSurfaces(t, keys)
        PROVE  Inv'
    BY <1>2, EnterInv DEF CreateSurfaces
  <1>3. ASSUME NEW keys \in SUBSET Surfaces, DestroySurfaces(t, keys)
        PROVE  Inv'
    BY <1>3, EnterInv DEF DestroySurfaces
  <1>4. ASSUME NEW k \in Surfaces, CreateSurfacesDmaBuf(t, k)
        PROVE  Inv'
    BY <1>4, EnterInv DEF CreateSurfacesDmaBuf
  <1> QED  BY <1>1, <1>2, <1>3, <1>4

\* A step inside a call.
LEMMA InsideInv ==
    ASSUME Inv, NEW t \in Threads, Inside(t)
    PROVE  Inv'
  <1>1. CASE GetOrInit(t)
    BY <1>1, GetFastInv, LockInitInv, InitContextInv, InitContextFailsInv DEF GetOrInit
  <1>2. CASE Import(t)
    BY <1>2, ReturnInv, ImportExternalMemoryInv, ImportMovesInv, InsertImportedInv, DupFdInv
       DEF Import
  <1>3. CASE AllocateFails(t) \/ Done(t)
    BY <1>3, ReturnInv
  <1>4. CASE Terminated(t)
    BY <1>4, TerminatedInv
  <1>5. CASE DestroyMip(t) \/ DestroyExternalMemory(t) \/ CloseFd(t)
    BY <1>5, DestroyImportInv, CloseFdInv
  <1>6. ASSUME NEW k \in Surfaces,
               \/ InsertSurface(t, k) \/ PitchTooWide(t, k) \/ DestroySurface(t, k)
               \/ SkipSurface(t, k) \/ DropPools(t, k)
        PROVE  Inv'
    BY <1>6, InsertSurfaceInv, PitchTooWideInv, DropSurfaceInv, SkipSurfaceInv
  <1> QED  BY <1>1, <1>2, <1>3, <1>4, <1>5, <1>6 DEF Inside

\* Every step keeps Inv.
LEMMA NextInv == Inv /\ [Next]_vars => Inv'
  <1> SUFFICES ASSUME Inv, [Next]_vars PROVE Inv'  OBVIOUS
  <1>1. CASE UNCHANGED vars
    BY <1>1, StutterInv
  <1>2. ASSUME NEW t \in Threads, Inside(t) PROVE Inv'
    BY <1>2, InsideInv
  <1>3. ASSUME NEW t \in Threads, Terminate(t) \/ LockPools(t) \/ LockInit(t) PROVE Inv'
    BY <1>3, TerminateInv, LockPoolsInv, LockInitInv
  <1>4. ASSUME NEW t \in Threads,
               \/ CreateContext(t)
               \/ \E keys \in SUBSET Surfaces : CreateSurfaces(t, keys) \/ DestroySurfaces(t, keys)
               \/ \E k \in Surfaces : CreateSurfacesDmaBuf(t, k)
        PROVE  Inv'
    BY <1>4, CallInv
  <1> QED  BY <1>1, <1>2, <1>3, <1>4 DEF Next

\* The inductive invariant holds in every state, for any number of threads,
\* surfaces and descriptors.
THEOREM MemoryCorrect == Spec => []Inv
  <1> QED  BY InitInv, NextInv, PTL DEF Spec
---------------------------------------------------------------------------
\* Types, and every lock is held by exactly the calls that took it.
THEOREM TypeCorrect == Spec => []TypeOK
  <1>1. Inv => TypeOK
    <2> SUFFICES ASSUME Inv PROVE TypeOK  OBVIOUS
    <2>1. \A t \in Threads : (pools = t <=> HoldsPools(t)) /\ (init_lock = t <=> At(t, "init"))
      BY DEF Inv, LockInv, HoldsAt, HoldsPools, At
    <2>2. /\ pc \in [Threads -> Labels]
          /\ \A t \in Threads :
               /\ call[t].entry \in {"none", "create", "import", "context", "destroy", "terminate"}
               /\ call[t].keys \subseteq Surfaces /\ call[t].cur \in Surfaces \cup {NoSurface}
      BY DEF Inv, FlowInv, CallType, Entries
    <2>3. created \in Nat /\ ctx \in 0 .. created  BY DEF Inv, ContextInv
    <2>4. cuda \in [Threads -> 0 .. created]
      <3>1. \A t \in Threads : cuda[t] \in 0 .. created  BY <2>3 DEF Inv, FlowInv, ContextInv
      <3> QED  BY <3>1 DEF Inv, FlowInv
    <2>5. cuda_ctx \in [Surfaces -> 0 .. created] /\ allocs \in [Surfaces -> 0 .. created]
      <3>1. \A k \in Surfaces : cuda_ctx[k] \in 0 .. created /\ allocs[k] \in 0 .. created
        BY <2>3 DEF Inv, ContextInv, Account
      <3> QED  BY <3>1 DEF Inv, ContextInv
    <2>6. /\ pools \in Threads \cup {NoThread} /\ init_lock \in Threads \cup {NoThread}
          /\ kind \in [Surfaces -> {"none", "stub", "internal", "dmabuf"}]
          /\ lost \subseteq Surfaces
          /\ ext_mem \subseteq Surfaces /\ mip \subseteq Surfaces
          /\ dup_fd \in [Surfaces -> Fds \cup {NoFd}]
          /\ fds \in [Fds -> Surfaces \cup {NoSurface, Drm}]
          /\ phase \in {"running", "terminating", "terminated"}
      BY DEF Inv, LockInv, ContextInv, ImportInv, FdInv, PhaseInv, LostInv
    <2> QED  BY <2>1, <2>2, <2>3, <2>4, <2>5, <2>6 DEF TypeOK
  <1> QED  BY <1>1, MemoryCorrect, PTL

\* CudaCtx::get_or_init: whoever races, one CUDA context is ever created.
THEOREM ContextOnce == Spec => []OneContext
  <1>1. Inv => OneContext  BY DEF Inv, ContextInv, OneContext
  <1> QED  BY <1>1, MemoryCorrect, PTL

\* ExternalDmaBufImage: no mipmapped array outlives its memory.
THEOREM MipsHaveMemory == Spec => []MipHasMemory
  <1>1. Inv => MipHasMemory
    <2> SUFFICES ASSUME Inv, NEW k \in Surfaces, k \in mip PROVE k \in ext_mem
      BY DEF MipHasMemory, Inv, ImportInv
    <2>1. CASE kind[k] = "dmabuf"  BY <2>1 DEF Inv, ImportInv
    <2>2. CASE kind[k] # "dmabuf"
      <3>1. PICK t \in Threads : call[t].cur = k  BY <2>2 DEF Inv, ImportInv
      <3>2. Held(pc[t], k)  BY <3>1 DEF Inv, ImportInv
      <3>3. Flow(pc[t], call[t].entry, call[t].keys, k, cuda[t]) /\ pc[t] \in Labels
        BY <3>1 DEF Inv, FlowInv
      <3> QED  BY <3>2, <3>3, NullAssumption DEF Held, Flow, Labels
    <2> QED  BY <2>1, <2>2
  <1> QED  BY <1>1, MemoryCorrect, PTL

\* vaCreateSurfaces2, imports and drops: whatever step failed, everything that
\* exists belongs to a surface of the pool or to a thread that works on it, but
\* for the allocations with too wide a pitch (surface.rs:156): those are nobody's.
THEOREM EverythingOwned == Spec => []NothingLost
  <1>1. Inv => NothingLost
    BY DEF Inv, ImportInv, ContextInv, Account, NothingLost, InHand
  <1> QED  BY <1>1, MemoryCorrect, PTL

\* A surface's allocation is freed in a context that still exists.
THEOREM MemoryBeforeContext == Spec => []MemoryInLiveContext
  <1>1. Inv => MemoryInLiveContext
    BY DEF Inv, ContextInv, Account, MemoryInLiveContext, Alive, Pool
  <1> QED  BY <1>1, MemoryCorrect, PTL

\* vaTerminate leaves no import, no context, no descriptor, and no allocation
\* but those allocate_nv12 forgot.
THEOREM TerminateFrees == Spec => []TerminateReleasesAll
  <1>1. Inv => TerminateReleasesAll
    <2> SUFFICES ASSUME Inv, phase = "terminated"
                 PROVE  /\ ext_mem = {} /\ \A k \in Surfaces \ lost : allocs[k] = 0
                        /\ ~ \E c \in 1 .. created : Alive(c)
                        /\ \A n \in Fds : fds[n] = NoSurface
      BY DEF TerminateReleasesAll
    <2>1. \A k \in Surfaces : kind[k] = "none"  BY DEF Inv, PhaseInv
    <2>2. \A t \in Threads : call[t].cur = NoSurface /\ cuda[t] = 0
      BY DEF Inv, PhaseInv, FlowInv, Flow
    <2>3. \A k \in Surfaces : k \notin ext_mem /\ dup_fd[k] = NoFd
      BY <2>1, <2>2, NullAssumption DEF Inv, ImportInv
    <2>4. \A k \in Surfaces : (k \notin lost => allocs[k] = 0) /\ cuda_ctx[k] = 0
      BY <2>1 DEF Inv, ContextInv, Account
    <2>5. ctx = 0  BY DEF Inv, ContextInv
    <2>6. ~ \E c \in 1 .. created : Alive(c)
      BY <2>2, <2>4, <2>5 DEF Alive, Inv, ContextInv
    <2>7. ASSUME NEW n \in Fds PROVE fds[n] = NoSurface
      BY <2>3 DEF Inv, FdInv, Fds, NoFd
    <2> QED  BY <2>3, <2>4, <2>6, <2>7 DEF Inv, ImportInv
  <1> QED  BY <1>1, MemoryCorrect, PTL
---------------------------------------------------------------------------
(* Calls come to an end.                                                     *)

\* Threads that wait for `pools` or `init_lock` wait for one that does not wait.
THEOREM NobodyDeadlocks == Spec => []NoDeadlock
  <1>1. Inv => NoDeadlock
    <2> SUFFICES ASSUME Inv, NEW t \in Threads, ~At(t, "outside")
                 PROVE  \E u \in Threads : ~At(u, "outside") /\ ~Waits(u)
      BY DEF NoDeadlock
    <2>1. ASSUME NEW u \in Threads, At(u, "wait_init"), Waits(u)
          PROVE  init_lock \in Threads /\ ~At(init_lock, "outside") /\ ~Waits(init_lock)
      BY <2>1 DEF Inv, LockInv, Waits, At
    <2>2. ASSUME At(t, "pools"), Waits(t)
          PROVE  pools \in Threads /\ ~At(pools, "outside") /\ (Waits(pools) => At(pools, "wait_init"))
      BY <2>2 DEF Inv, LockInv, HoldsAt, Waits, At
    <2> QED  BY <2>1, <2>2 DEF Waits
  <1> QED  BY <1>1, MemoryCorrect, PTL

\* What a call has to do can be counted.
LEMMA StepsCount ==
    ASSUME Inv, NEW t \in Threads
    PROVE  /\ IsFiniteSet(Todo(t)) /\ Cardinality(Todo(t)) \in Nat
           /\ Rank(t) \in 0 .. 12 /\ (Rank(t) = 0 <=> pc[t] = "outside")
  <1>1. Todo(t) \subseteq Surfaces
    BY DEF Todo, Pool, Inv, FlowInv, CallType
  <1>2. IsFiniteSet(Todo(t))  BY <1>1, SurfacesAssumption, FS_Subset
  <1>3. pc[t] \in Labels  BY DEF Inv, FlowInv
  <1> QED  BY <1>2, <1>3, FS_CardinalityType DEF Rank, Ranks, At, Labels

\* The same after a step.
LEMMA StepsCountNext ==
    ASSUME Inv', NEW t \in Threads
    PROVE  Cardinality(Todo(t))' \in Nat /\ Rank(t)' \in 0 .. 12
  <1>1. Todo(t)' \subseteq Surfaces
    BY DEF Todo, Pool, Inv, FlowInv, CallType
  <1>2. IsFiniteSet(Todo(t)')  BY <1>1, SurfacesAssumption, FS_Subset
  <1>3. pc'[t] \in Labels  BY DEF Inv, FlowInv
  <1> QED  BY <1>2, <1>3, FS_CardinalityType DEF Rank, Ranks, At, Labels

\* A step that works nothing off but goes on, and one that works a surface off.
LEMMA GoesOn ==
    ASSUME Inv, Inv', NEW t \in Threads, Todo(t)' \subseteq Todo(t), Rank(t)' < Rank(t)
    PROVE  StepsLeft(t)' < StepsLeft(t)
  <1>1. /\ IsFiniteSet(Todo(t)) /\ Cardinality(Todo(t)) \in Nat /\ Rank(t) \in 0 .. 12
        /\ Cardinality(Todo(t))' \in Nat /\ Rank(t)' \in 0 .. 12
    BY StepsCount, StepsCountNext
  <1>2. Cardinality(Todo(t)') <= Cardinality(Todo(t))  BY <1>1, FS_Subset
  <1> QED  BY <1>1, <1>2 DEF StepsLeft

LEMMA WorksOff ==
    ASSUME Inv, Inv', NEW t \in Threads, NEW k \in Todo(t), Todo(t)' = Todo(t) \ {k},
           Rank(t)' < Rank(t) + 4
    PROVE  StepsLeft(t)' < StepsLeft(t)
  <1>1. /\ IsFiniteSet(Todo(t)) /\ Cardinality(Todo(t)) \in Nat /\ Rank(t) \in 0 .. 12
        /\ Cardinality(Todo(t))' \in Nat /\ Rank(t)' \in 0 .. 12
    BY StepsCount, StepsCountNext
  <1>2. Cardinality(Todo(t)') = Cardinality(Todo(t)) - 1  BY <1>1, FS_RemoveElement
  <1> QED  BY <1>1, <1>2 DEF StepsLeft

\* Where the label alone changes, the rank says whether the call goes on.
LEMMA LabelGoesOn ==
    ASSUME Inv, Inv', NEW t \in Threads, NEW l \in Labels, Goto(t, l), UNCHANGED <<call, kind>>,
           IF l = "pools" THEN call[t].entry # "context" /\ 2 < Rank(t) ELSE Ranks[l] < Rank(t)
    PROVE  StepsLeft(t)' < StepsLeft(t)
  <1>1. pc'[t] = l  BY DEF Goto, Inv, FlowInv
  <1>2. Todo(t)' = Todo(t)  BY DEF Todo, Pool
  <1>3. Rank(t)' < Rank(t)  BY <1>1 DEF Rank, At
  <1> QED  BY <1>2, <1>3, GoesOn

\* A call that returns is done.
LEMMA ReturnsGoesOn ==
    ASSUME Inv, Inv', NEW t \in Threads, pc[t] # "outside", Goto(t, "outside"),
           call' = [call EXCEPT ![t] = NoCall]
    PROVE  StepsLeft(t)' < StepsLeft(t)
  <1>1. pc'[t] = "outside" /\ call'[t] = NoCall  BY DEF Goto, Inv, FlowInv
  <1>2. Todo(t)' = {}  BY <1>1 DEF Todo, NoCall
  <1>3. Rank(t)' = 0 /\ Rank(t) \in 1 .. 12  BY <1>1, StepsCount DEF Rank, Ranks, At
  <1> QED  BY <1>2, <1>3, GoesOn

\* The steps of CudaCtx::get_or_init.
LEMMA GetGoesOn ==
    ASSUME Inv, Inv', NEW t \in Threads,
           GetFast(t) \/ GetSlow(t) \/ LockInit(t) \/ InitContext(t) \/ InitContextFails(t)
    PROVE  StepsLeft(t)' < StepsLeft(t)
  <1>1. /\ pc[t] \in {"get", "wait_init", "init"} => call[t].entry \in {"create", "import", "context"}
        /\ Flow(pc[t], call[t].entry, call[t].keys, call[t].cur, cuda[t])
    BY Own DEF Flow
  <1>2. Rank(t) = Ranks[pc[t]] \/ pc[t] = "pools"  BY DEF Rank, At
  <1>3. CASE GetFast(t) \/ InitContext(t)
    <2>1. /\ AfterGet(t) \in Labels /\ Goto(t, AfterGet(t)) /\ UNCHANGED <<call, kind>>
          /\ IF AfterGet(t) = "pools" THEN call[t].entry # "context" /\ 2 < Rank(t)
                                      ELSE Ranks[AfterGet(t)] < Rank(t)
      BY <1>1, <1>2, <1>3 DEF GetFast, InitContext, Got, AfterGet, At, Ranks, Labels, surfaces
    <2> QED  BY <2>1, LabelGoesOn
  <1>4. CASE GetSlow(t)
    <2>1. Goto(t, "wait_init") /\ UNCHANGED <<call, kind>> /\ Ranks["wait_init"] < Rank(t)
      BY <1>2, <1>4 DEF GetSlow, At, Ranks, surfaces
    <2> QED  BY <2>1, LabelGoesOn DEF Labels
  <1>5. CASE LockInit(t)
    <2>1. Goto(t, "init") /\ UNCHANGED <<call, kind>> /\ Ranks["init"] < Rank(t)
      BY <1>2, <1>5 DEF LockInit, At, Ranks, surfaces
    <2> QED  BY <2>1, LabelGoesOn DEF Labels
  <1>6. CASE InitContextFails(t)
    <2>1. CASE call[t].entry = "import"
      BY <1>6, <2>1, ReturnsGoesOn DEF InitContextFails, At
    <2>2. CASE call[t].entry # "import"
      <3>1. /\ AfterGet(t) \in Labels /\ Goto(t, AfterGet(t)) /\ UNCHANGED <<call, kind>>
            /\ IF AfterGet(t) = "pools" THEN call[t].entry # "context" /\ 2 < Rank(t)
                                        ELSE Ranks[AfterGet(t)] < Rank(t)
        BY <1>1, <1>2, <1>6, <2>2 DEF InitContextFails, AfterGet, At, Ranks, Labels, surfaces
      <3> QED  BY <3>1, LabelGoesOn
    <2> QED  BY <2>1, <2>2
  <1> QED  BY <1>3, <1>4, <1>5, <1>6

\* The steps that take `pools`, and those of an import and of its way back.
LEMMA ImportGoesOn ==
    ASSUME Inv, Inv', NEW t \in Threads,
           \/ LockPools(t) \/ Import(t)
           \/ DestroyMip(t) \/ DestroyExternalMemory(t) \/ CloseFd(t)
    PROVE  StepsLeft(t)' < StepsLeft(t)
  <1>1. Flow(pc[t], call[t].entry, call[t].keys, call[t].cur, cuda[t])  BY Own
  <1>2. Rank(t) = IF pc[t] = "pools" THEN (IF call[t].entry = "context" THEN 12 ELSE 2)
                                     ELSE Ranks[pc[t]]
    BY DEF Rank, At
  <1>3. ASSUME NEW l \in Labels, Goto(t, l), UNCHANGED <<call, kind>>,
               l # "pools", Ranks[l] < Rank(t)
        PROVE  StepsLeft(t)' < StepsLeft(t)
    BY <1>3, LabelGoesOn
  <1>4. CASE LockPools(t)
    <2>1. CASE call[t].entry = "context"
      <3>1. Goto(t, "get") /\ UNCHANGED <<call, kind>> /\ Ranks["get"] < Rank(t)
        BY <1>2, <1>4, <2>1 DEF LockPools, At, Ranks, surfaces
      <3> QED  BY <1>3, <3>1 DEF Labels
    <2>2. CASE call[t].entry # "context"
      <3>1. Goto(t, "inside") /\ UNCHANGED <<call, kind>> /\ Ranks["inside"] < Rank(t)
        BY <1>2, <1>4, <2>2 DEF LockPools, At, Ranks, surfaces
      <3> QED  BY <1>3, <3>1 DEF Labels
    <2> QED  BY <2>1, <2>2
  <1>5. CASE DupFails(t) \/ InsertImported(t)
    BY <1>5, ReturnsGoesOn DEF DupFails, InsertImported, Return, At
  <1>6. ASSUME NEW n \in Fds, DupFd(t, n) PROVE StepsLeft(t)' < StepsLeft(t)
    <2>1. /\ pc[t] = "bind" /\ pc'[t] = "import" /\ call'[t].keys = {}
          /\ call'[t].entry = call[t].entry /\ call[t].entry = "import"
      BY <1>1, <1>6 DEF DupFd, At, Goto, Flow, Inv, FlowInv, CallType
    <2>2. Todo(t)' = {} /\ Rank(t)' = 7 /\ Rank(t) = 8
      BY <2>1 DEF Todo, Rank, Ranks, At
    <2> QED  BY <2>2, GoesOn
  <1>7. CASE ImportExternalMemory(t)
    <2>1. Goto(t, "map") /\ UNCHANGED <<call, kind>> /\ Ranks["map"] < Rank(t)
      BY <1>2, <1>7 DEF ImportExternalMemory, At, Ranks, surfaces
    <2> QED  BY <1>3, <2>1 DEF Labels
  <1>8. CASE GetMappedMipmappedArray(t)
    <2>1. Goto(t, "level") /\ UNCHANGED <<call, kind>> /\ Ranks["level"] < Rank(t)
      BY <1>2, <1>8 DEF GetMappedMipmappedArray, At, Ranks, surfaces
    <2> QED  BY <1>3, <2>1 DEF Labels
  <1>9. CASE GetLevel(t)
    <2>1. /\ Goto(t, "pools") /\ UNCHANGED <<call, kind>> /\ 2 < Rank(t)
          /\ call[t].entry # "context"
      BY <1>1, <1>2, <1>9 DEF GetLevel, At, Ranks, surfaces, Flow
    <2> QED  BY <2>1, LabelGoesOn DEF Labels
  <1>10. CASE ImportFails(t)
    <2>1. /\ UndoFrom(pc[t]) \in Labels /\ UndoFrom(pc[t]) # "pools" /\ Goto(t, UndoFrom(pc[t]))
          /\ UNCHANGED <<call, kind>> /\ Ranks[UndoFrom(pc[t])] < Rank(t)
      BY <1>2, <1>10 DEF ImportFails, UndoFrom, Ranks, Labels, surfaces
    <2> QED  BY <1>3, <2>1
  <1>11. CASE DestroyMip(t)
    <2>1. Goto(t, "drop_ext") /\ UNCHANGED <<call, kind>> /\ Ranks["drop_ext"] < Rank(t)
      BY <1>2, <1>11 DEF DestroyMip, At, Ranks, surfaces
    <2> QED  BY <1>3, <2>1 DEF Labels
  <1>12. CASE DestroyExternalMemory(t)
    <2>1. Goto(t, "close") /\ UNCHANGED <<call, kind>> /\ Ranks["close"] < Rank(t)
      BY <1>2, <1>12 DEF DestroyExternalMemory, At, Ranks, surfaces
    <2> QED  BY <1>3, <2>1 DEF Labels
  <1>13. CASE CloseFd(t)
    <2>1. CASE call[t].entry = "import"
      BY <1>13, <2>1, ReturnsGoesOn DEF CloseFd, Return, At
    <2>2. CASE call[t].entry # "import"
      <3>1. /\ pc[t] = "close" /\ pc'[t] = "inside" /\ kind' = kind
            /\ call'[t].keys = call[t].keys /\ call'[t].entry = call[t].entry
        BY <1>13, <2>2 DEF CloseFd, At, Goto, Inv, FlowInv, CallType, surfaces
      <3>2. Todo(t)' = Todo(t) /\ Rank(t)' = 1 /\ Rank(t) = 2
        BY <3>1 DEF Todo, Pool, Rank, Ranks, At
      <3> QED  BY <3>2, GoesOn
    <2> QED  BY <2>1, <2>2
  <1> QED  BY <1>4, <1>5, <1>6, <1>7, <1>8, <1>9, <1>10, <1>11, <1>12, <1>13 DEF Import

\* The steps that create and drop surfaces.
LEMMA SurfaceGoesOn ==
    ASSUME Inv, Inv', NEW t \in Threads, NEW k \in Surfaces,
           \/ InsertSurface(t, k) \/ PitchTooWide(t, k) \/ SkipSurface(t, k)
           \/ DestroySurface(t, k) \/ DropPools(t, k)
    PROVE  StepsLeft(t)' < StepsLeft(t)
  <1>1. call \in [Threads -> CallType] /\ pc \in [Threads -> Labels]
        /\ kind \in [Surfaces -> {"none", "stub", "internal", "dmabuf"}]
    BY DEF Inv, FlowInv, ContextInv
  <1>2. CASE InsertSurface(t, k) \/ SkipSurface(t, k)
    <2>1. /\ pc[t] = "inside" /\ pc'[t] = "inside" /\ call[t].entry # "terminate"
          /\ call'[t].entry = call[t].entry /\ k \in call[t].keys
          /\ call'[t].keys = call[t].keys \ {k}
      BY <1>1, <1>2 DEF InsertSurface, SkipSurface, At, CallType
    <2>2. k \in Todo(t) /\ Todo(t)' = Todo(t) \ {k} /\ Rank(t)' = 1 /\ Rank(t) = 1
      BY <2>1 DEF Todo, Rank, Ranks, At
    <2> QED  BY <2>2, WorksOff
  <1>3. CASE DestroySurface(t, k) \/ DropPools(t, k)
    <2>1. /\ pc[t] = "inside" /\ pc'[t] \in {"inside", "drop_mip"}
          /\ call'[t].entry = call[t].entry /\ call'[t].keys = call[t].keys \ {k}
          /\ IF call[t].entry = "terminate" THEN k \in Pool ELSE k \in call[t].keys
          /\ kind' = [kind EXCEPT ![k] = "none"]
      BY <1>1, <1>3 DEF DestroySurface, DropPools, DropSurface, Insert, Goto, At, CallType
    <2>2. Pool' = Pool \ {k}  BY <1>1, <2>1 DEF Pool
    <2>3. k \in Todo(t) /\ Todo(t)' = Todo(t) \ {k} /\ Rank(t)' \in {1, 4} /\ Rank(t) = 1
      BY <2>1, <2>2 DEF Todo, Rank, Ranks, At
    <2> QED  BY <2>3, WorksOff
  <1>4. CASE PitchTooWide(t, k)
    BY <1>4, ReturnsGoesOn DEF PitchTooWide, Return, At
  <1> QED  BY <1>2, <1>3, <1>4

\* A step of one thread leaves the call of another as it is; at vaTerminate
\* nobody else works on the pool.
LEMMA OthersWait ==
    ASSUME Inv, NEW t \in Threads, NEW u \in Threads \ {t},
           pc'[u] = pc[u], call'[u] = call[u], kind' = kind \/ call[t].entry # "none"
    PROVE  UNCHANGED <<pc[u], call[u], StepsLeft(u)>>
  <1>1. CASE call[u].entry = "terminate"
    <2>1. kind' = kind  BY <1>1 DEF Inv, PhaseInv
    <2> QED  BY <2>1 DEF StepsLeft, Todo, Pool, Rank, At
  <1>2. CASE call[u].entry # "terminate"
    <2>1. Todo(u)' = Todo(u) /\ Rank(u)' = Rank(u)  BY <1>2 DEF Todo, Rank, At
    <2> QED  BY <2>1 DEF StepsLeft
  <1> QED  BY <1>1, <1>2

\* Whom a step moves, and whose call the pool changes in.
LEMMA OneMoves ==
    ASSUME Inv, NEW t \in Threads,
           \/ CreateContext(t) \/ Terminate(t)
           \/ \E keys \in SUBSET Surfaces : CreateSurfaces(t, keys) \/ DestroySurfaces(t, keys)
           \/ \E k \in Surfaces : CreateSurfacesDmaBuf(t, k)
           \/ LockPools(t) \/ LockInit(t) \/ Inside(t)
    PROVE  /\ kind' = kind \/ call[t].entry # "none"
           /\ \A u \in Threads \ {t} : pc'[u] = pc[u] /\ call'[u] = call[u]
  <1> USE DEF Goto, Inv, FlowInv
  <1>1. CASE \/ CreateContext(t) \/ Terminate(t)
             \/ \E keys \in SUBSET Surfaces : CreateSurfaces(t, keys) \/ DestroySurfaces(t, keys)
             \/ \E k \in Surfaces : CreateSurfacesDmaBuf(t, k)
    BY <1>1 DEF CreateContext, CreateSurfaces, DestroySurfaces, CreateSurfacesDmaBuf, Enter,
                Terminate, surfaces
  <1>2. CASE LockPools(t) \/ LockInit(t)
    BY <1>2 DEF LockPools, LockInit, surfaces
  <1>3. CASE GetOrInit(t)
    BY <1>3 DEF GetOrInit, GetFast, GetSlow, InitContext, InitContextFails, Got, surfaces
  <1>4. CASE Import(t)
    BY <1>4 DEF Import, DupFails, ImportExternalMemory, GetMappedMipmappedArray, GetLevel,
                ImportFails, InsertImported, DupFd, Return, surfaces
  <1>5. CASE \/ AllocateFails(t) \/ Done(t) \/ Terminated(t)
             \/ DestroyMip(t) \/ DestroyExternalMemory(t) \/ CloseFd(t)
    BY <1>5 DEF AllocateFails, Done, Terminated, DestroyMip, DestroyExternalMemory, CloseFd,
                Return, surfaces
  <1>6. ASSUME NEW k \in Surfaces, InsertSurface(t, k) \/ PitchTooWide(t, k) \/ SkipSurface(t, k)
        PROVE  /\ kind' = kind \/ call[t].entry # "none"
               /\ \A u \in Threads \ {t} : pc'[u] = pc[u] /\ call'[u] = call[u]
    BY <1>6 DEF InsertSurface, PitchTooWide, SkipSurface, Return, surfaces
  <1>7. ASSUME NEW k \in Surfaces, DestroySurface(t, k) \/ DropPools(t, k)
        PROVE  /\ kind' = kind \/ call[t].entry # "none"
               /\ \A u \in Threads \ {t} : pc'[u] = pc[u] /\ call'[u] = call[u]
    BY <1>7 DEF DestroySurface, DropPools, DropSurface
  <1> QED  BY <1>1, <1>2, <1>3, <1>4, <1>5, <1>6, <1>7 DEF Inside

\* What a step leaves of every call.
LEMMA StepsLeftNext ==
    ASSUME Inv, Inv', [Next]_vars
    PROVE  \A u \in Threads : ~At(u, "outside") =>
              StepsLeft(u)' < StepsLeft(u) \/ UNCHANGED <<pc[u], call[u], StepsLeft(u)>>
  <1> SUFFICES ASSUME NEW u \in Threads, pc[u] # "outside"
               PROVE  StepsLeft(u)' < StepsLeft(u) \/ UNCHANGED <<pc[u], call[u], StepsLeft(u)>>
    BY DEF At
  <1>1. CASE UNCHANGED vars
    <2>1. pc' = pc /\ call' = call /\ kind' = kind  BY <1>1 DEF vars
    <2> QED  BY <2>1 DEF StepsLeft, Todo, Pool, Rank, At
  <1>2. CASE Next
    <2>1. PICK t \in Threads :
             \/ CreateContext(t) \/ Terminate(t)
             \/ \E keys \in SUBSET Surfaces : CreateSurfaces(t, keys) \/ DestroySurfaces(t, keys)
             \/ \E k \in Surfaces : CreateSurfacesDmaBuf(t, k)
             \/ LockPools(t) \/ LockInit(t) \/ Inside(t)
      BY <1>2 DEF Next
    <2>2. CASE u # t
      BY <2>1, <2>2, OneMoves, OthersWait
    <2>3. CASE u = t
      <3>1. LockPools(t) \/ LockInit(t) \/ Inside(t)
        BY <2>1, <2>3 DEF CreateContext, CreateSurfaces, DestroySurfaces, CreateSurfacesDmaBuf,
                          Enter, Terminate, At
      <3>2. CASE AllocateFails(t) \/ Done(t) \/ Terminated(t)
        BY <2>3, <3>2, ReturnsGoesOn DEF AllocateFails, Done, Terminated, Return
      <3> QED
        BY <2>3, <3>1, <3>2, GetGoesOn, ImportGoesOn, SurfaceGoesOn DEF Inside, GetOrInit
    <2> QED  BY <2>2, <2>3
  <1> QED  BY <1>1, <1>2

\* Each step of a call leaves less of it, however many surfaces it is about and
\* whichever of its steps fails; NobodyDeadlocks says that some call has a step.
THEOREM CallsAreBounded == Spec => CallBounded
  <1>1. Inv /\ Inv' /\ [Next]_vars =>
          [\A t \in Threads : ~At(t, "outside") =>
              StepsLeft(t)' < StepsLeft(t) \/ UNCHANGED <<pc[t], call[t], StepsLeft(t)>>]_vars
    BY StepsLeftNext
  <1> QED  BY <1>1, MemoryCorrect, PTL DEF Spec, CallBounded
---------------------------------------------------------------------------
(* ClosesOwnFd does not hold: a drop closes the number of its duplicate a    *)
(* second time, and by then the number may be another import's.  That takes  *)
(* two overlapping calls; without them the second close hits nothing.        *)

\* Calls do not overlap.
Serial == \A t, u \in Threads : pc[t] # "outside" /\ pc[u] # "outside" => t = u

\* An imported surface keeps its descriptor until it is dropped, and what
\* close(dup_fd) closes is the duplicate, or nothing.
FdsKept ==
    /\ \A k \in Surfaces : kind[k] = "dmabuf" => fds[dup_fd[k]] = k
    /\ \A t \in Threads : At(t, "close") => fds[dup_fd[Cur(t)]] \in {Cur(t), NoSurface}

\* The number of a duplicate is still its own unless it was closed once.
OwnFd ==
    /\ \A k \in Surfaces : dup_fd[k] # NoFd =>
          \/ fds[dup_fd[k]] = k
          \/ fds[dup_fd[k]] = NoSurface /\ \E t \in Threads : At(t, "close") /\ Cur(t) = k
    /\ \A k \in Surfaces : kind[k] = "dmabuf" => dup_fd[k] # NoFd
    /\ \A t \in Threads : Cur(t) \in Surfaces => dup_fd[Cur(t)] # NoFd

\* A step that opens and closes nothing and takes up no new import.
LEMMA OwnFdSame ==
    ASSUME Inv, OwnFd, NEW t \in Threads, UNCHANGED <<fds, dup_fd>>,
           \A u \in Threads \ {t} : pc'[u] = pc[u] /\ call'[u] = call[u],
           pc[t] # "close",
           \A k \in Surfaces : kind'[k] = "dmabuf" => kind[k] = "dmabuf" \/ k = call[t].cur,
           call'[t].cur \in Surfaces =>
              call'[t].cur = call[t].cur \/ kind[call'[t].cur] = "dmabuf"
    PROVE  OwnFd'
  <1>1. ASSUME NEW k \in Surfaces, NEW u \in Threads, At(u, "close"), Cur(u) = k
        PROVE  \E v \in Threads : (At(v, "close") /\ Cur(v) = k)'
    <2>1. u # t  BY <1>1 DEF At
    <2> QED  BY <1>1, <2>1 DEF At, Cur
  <1>2. ASSUME NEW u \in Threads, call'[u].cur \in Surfaces PROVE dup_fd[call'[u].cur] # NoFd
    BY <1>2 DEF OwnFd, Cur
  <1>3. ASSUME NEW k \in Surfaces, kind'[k] = "dmabuf" PROVE dup_fd[k] # NoFd
    BY <1>3 DEF OwnFd, Cur
  <1> QED  BY <1>1, <1>2, <1>3 DEF OwnFd, Cur

\* Duplicating: the number was free, and no import remembers it.
LEMMA OwnFdDup ==
    ASSUME Inv, OwnFd, Serial, NEW t \in Threads, NEW n \in Fds, DupFd(t, n)
    PROVE  OwnFd'
  <1>1. PICK k \in call[t].keys :
           /\ fds' = [fds EXCEPT ![n] = k] /\ dup_fd' = [dup_fd EXCEPT ![k] = n]
           /\ call' = [call EXCEPT ![t].keys = {}, ![t].cur = k]
    BY DEF DupFd
  <1>2. /\ pc[t] = "bind" /\ fds[n] = NoSurface /\ kind' = kind
        /\ pc' = [pc EXCEPT ![t] = "import"] /\ n # NoFd
    BY DEF DupFd, At, Goto, surfaces, Fds, NoFd
  <1>3. /\ k \in Surfaces /\ k # NoSurface
        /\ pc \in [Threads -> Labels] /\ call \in [Threads -> CallType]
        /\ fds \in [Fds -> Surfaces \cup {NoSurface, Drm}]
        /\ dup_fd \in [Surfaces -> Fds \cup {NoFd}]
    BY NullAssumption DEF Inv, FlowInv, FdInv, CallType
  <1>4. /\ call'[t].cur = k /\ pc'[t] = "import"
        /\ \A u \in Threads \ {t} : pc'[u] = pc[u] /\ call'[u] = call[u]
    BY <1>1, <1>2, <1>3 DEF CallType
  <1>5. \A u \in Threads : pc[u] # "close"  BY <1>2 DEF Serial
  <1>6. \A j \in Surfaces : dup_fd[j] # NoFd => fds[dup_fd[j]] = j /\ dup_fd[j] # n
    BY <1>2, <1>5, NullAssumption DEF OwnFd, At
  <1>7. \A j \in Surfaces : dup_fd'[j] # NoFd => fds'[dup_fd'[j]] = j
    BY <1>1, <1>3, <1>6
  <1>8. \A j \in Surfaces : kind'[j] = "dmabuf" => dup_fd'[j] # NoFd
    BY <1>1, <1>2, <1>3 DEF OwnFd
  <1>9. \A u \in Threads : call'[u].cur \in Surfaces => dup_fd'[call'[u].cur] # NoFd
    BY <1>1, <1>2, <1>3, <1>4 DEF OwnFd, Cur
  <1> QED  BY <1>7, <1>8, <1>9 DEF OwnFd, Cur

\* CUDA closes the duplicate, then close(dup_fd) its number.
LEMMA OwnFdClosed ==
    ASSUME Inv, OwnFd, Serial, NEW t \in Threads, DestroyExternalMemory(t) \/ CloseFd(t)
    PROVE  OwnFd'
  <1> DEFINE k == call[t].cur
             n == dup_fd[k]
  <1>1. /\ pc[t] \in {"drop_ext", "close"} /\ fds' = [fds EXCEPT ![n] = NoSurface] /\ kind' = kind
    BY DEF DestroyExternalMemory, CloseFd, At, Cur, surfaces
  <1>2. /\ pc \in [Threads -> Labels] /\ call \in [Threads -> CallType]
        /\ fds \in [Fds -> Surfaces \cup {NoSurface, Drm}]
        /\ dup_fd \in [Surfaces -> Fds \cup {NoFd}]
    BY DEF Inv, FlowInv, FdInv
  <1>3. k \in Surfaces /\ n # NoFd /\ n \in Fds /\ kind[k] = "none"
    BY <1>1, <1>2, Own DEF Flow, OwnFd, Cur, Held
  <1>4. \A u \in Threads : pc[u] # "outside" => u = t  BY <1>1 DEF Serial
  <1>5. \A u \in Threads : u # t => call[u].cur = NoSurface
    BY <1>4 DEF Inv, FlowInv, Flow
  <1>6. ASSUME NEW j \in Surfaces, dup_fd[j] # NoFd, j # k
        PROVE  fds[dup_fd[j]] = j /\ dup_fd[j] # n
    <2>1. ~ \E u \in Threads : At(u, "close") /\ Cur(u) = j
      BY <1>4, <1>6 DEF At, Cur
    <2>2. fds[dup_fd[j]] = j  BY <1>6, <2>1 DEF OwnFd
    <2>3. fds[n] \in {k, NoSurface}  BY <1>3 DEF OwnFd
    <2> QED  BY <1>6, <2>2, <2>3, NullAssumption
  <1> HIDE DEF k, n
  <1>7. CASE DestroyExternalMemory(t)
    <2>1. /\ pc'[t] = "close" /\ call' = call /\ dup_fd' = dup_fd
      BY <1>2, <1>7 DEF DestroyExternalMemory, Goto
    <2>2. fds'[n] = NoSurface /\ \A m \in Fds : m # n => fds'[m] = fds[m]
      BY <1>1, <1>2, <1>3
    <2>3. ASSUME NEW j \in Surfaces, dup_fd[j] # NoFd
          PROVE  \/ fds'[dup_fd[j]] = j
                 \/ fds'[dup_fd[j]] = NoSurface
                      /\ \E u \in Threads : pc'[u] = "close" /\ call'[u].cur = j
      <3>1. CASE j = k  BY <2>1, <2>2, <3>1 DEF k, n
      <3>2. CASE j # k  BY <1>2, <1>6, <2>2, <2>3, <3>2
      <3> QED  BY <3>1, <3>2
    <2> QED  BY <1>1, <2>1, <2>3 DEF OwnFd, At, Cur
  <1>8. CASE CloseFd(t)
    <2>1. dup_fd' = [dup_fd EXCEPT ![k] = NoFd] /\ call'[t].cur = NoSurface
          /\ \A u \in Threads \ {t} : call'[u] = call[u]
      BY <1>2, <1>8 DEF CloseFd, Return, NoCall, Cur, CallType, k
    <2>2. \A j \in Surfaces : dup_fd'[j] # NoFd => j # k /\ dup_fd'[j] = dup_fd[j]
      BY <1>2, <1>3, <2>1
    <2>3. \A j \in Surfaces : dup_fd'[j] # NoFd => fds'[dup_fd'[j]] = j
      BY <1>1, <1>2, <1>3, <1>6, <2>2
    <2>4. \A j \in Surfaces : kind'[j] = "dmabuf" => dup_fd'[j] # NoFd
      BY <1>1, <1>2, <1>3, <2>1 DEF OwnFd
    <2>5. \A u \in Threads : call'[u].cur = NoSurface
      BY <1>5, <2>1
    <2> QED  BY <2>3, <2>4, <2>5, NullAssumption DEF OwnFd, Cur
  <1> QED  BY <1>7, <1>8

\* Every step of calls that do not overlap keeps OwnFd.
LEMMA OwnFdNext == Inv /\ OwnFd /\ Serial /\ [Next]_vars => OwnFd'
  <1> SUFFICES ASSUME Inv, OwnFd, Serial, [Next]_vars PROVE OwnFd'  OBVIOUS
  <1>0. /\ pc \in [Threads -> Labels] /\ call \in [Threads -> CallType]
        /\ kind \in [Surfaces -> {"none", "stub", "internal", "dmabuf"}]
    BY DEF Inv, FlowInv, ContextInv
  <1>1. CASE UNCHANGED vars
    BY <1>1 DEF vars, OwnFd, At, Cur
  <1>2. CASE Next
    <2>1. PICK t \in Threads :
             \/ CreateContext(t) \/ Terminate(t)
             \/ \E keys \in SUBSET Surfaces : CreateSurfaces(t, keys) \/ DestroySurfaces(t, keys)
             \/ \E k \in Surfaces : CreateSurfacesDmaBuf(t, k)
             \/ LockPools(t) \/ LockInit(t) \/ Inside(t)
      BY <1>2 DEF Next
    <2>2. \A u \in Threads \ {t} : pc'[u] = pc[u] /\ call'[u] = call[u]
      BY <2>1, OneMoves
    <2>3. ASSUME UNCHANGED <<fds, dup_fd, kind>>, pc[t] # "close",
                 call'[t].cur \in {call[t].cur, NoSurface}
          PROVE  OwnFd'
      BY <2>2, <2>3, OwnFdSame, NullAssumption
    <2>4. CASE \/ CreateContext(t)
               \/ \E keys \in SUBSET Surfaces : CreateSurfaces(t, keys) \/ DestroySurfaces(t, keys)
               \/ \E k \in Surfaces : CreateSurfacesDmaBuf(t, k)
      <3>1. UNCHANGED <<fds, dup_fd, kind>> /\ pc[t] = "outside" /\ call'[t].cur = NoSurface
        BY <1>0, <2>4 DEF CreateContext, CreateSurfaces, DestroySurfaces, CreateSurfacesDmaBuf,
                          Enter, At, imports, surfaces
      <3> QED  BY <2>3, <3>1
    <2>5. CASE Terminate(t)
      <3>1. /\ kind' = kind /\ dup_fd' = dup_fd
            /\ fds' = [n \in Fds |-> IF fds[n] = Drm THEN NoSurface ELSE fds[n]]
            /\ call'[t].cur = call[t].cur /\ \A u \in Threads : pc[u] # "close"
        BY <1>0, <2>5 DEF Terminate, At, surfaces, CallType
      <3>2. \A k \in Surfaces : dup_fd[k] # NoFd => fds[dup_fd[k]] = k /\ dup_fd[k] \in Fds
        BY <3>1 DEF OwnFd, At, Inv, FdInv
      <3>3. \A k \in Surfaces : dup_fd[k] # NoFd => fds'[dup_fd[k]] = k
        BY <3>1, <3>2, NullAssumption
      <3>4. \A u \in Threads : call'[u].cur = call[u].cur
        BY <2>2, <3>1
      <3> QED  BY <3>1, <3>3, <3>4 DEF OwnFd, Cur
    <2>6. CASE LockPools(t) \/ LockInit(t)
      BY <2>3, <2>6 DEF LockPools, LockInit, At, imports, surfaces
    <2>7. CASE GetOrInit(t)
      <3>1. UNCHANGED <<fds, dup_fd, kind>> /\ pc[t] # "close"
        BY <2>7 DEF GetOrInit, GetFast, GetSlow, InitContext, InitContextFails, At, imports, surfaces
      <3>2. call'[t].cur \in {call[t].cur, NoSurface}
        BY <1>0, <2>7 DEF GetOrInit, GetFast, GetSlow, InitContext, InitContextFails, NoCall
      <3> QED  BY <2>3, <3>1, <3>2
    <2>8. CASE \/ DupFails(t) \/ ImportExternalMemory(t) \/ GetMappedMipmappedArray(t)
               \/ GetLevel(t) \/ ImportFails(t) \/ AllocateFails(t) \/ Done(t) \/ Terminated(t)
               \/ DestroyMip(t)
      <3>1. UNCHANGED <<fds, dup_fd, kind>> /\ pc[t] # "close"
        BY <2>8 DEF DupFails, ImportExternalMemory, GetMappedMipmappedArray, GetLevel, ImportFails,
                    AllocateFails, Done, Terminated, DestroyMip, At, imports, surfaces
      <3>2. call'[t].cur \in {call[t].cur, NoSurface}
        BY <1>0, <2>8 DEF DupFails, ImportExternalMemory, GetMappedMipmappedArray, GetLevel,
                          ImportFails, AllocateFails, Done, Terminated, DestroyMip, Return, NoCall
      <3> QED  BY <2>3, <3>1, <3>2
    <2>9. CASE InsertImported(t)
      <3>1. /\ UNCHANGED <<fds, dup_fd>> /\ pc[t] = "inside" /\ call'[t].cur = NoSurface
            /\ kind' = [kind EXCEPT ![call[t].cur] = "dmabuf"]
        BY <1>0, <2>9 DEF InsertImported, Insert, Return, NoCall, Cur, At, imports
      <3> QED  BY <1>0, <2>2, <3>1, OwnFdSame, NullAssumption
    <2>10. ASSUME NEW n \in Fds, DupFd(t, n) PROVE OwnFd'
      BY <2>10, OwnFdDup
    <2>11. CASE DestroyExternalMemory(t) \/ CloseFd(t)
      BY <2>11, OwnFdClosed
    <2>12. ASSUME NEW k \in Surfaces, InsertSurface(t, k) \/ SkipSurface(t, k) PROVE OwnFd'
      <3>1. /\ UNCHANGED <<fds, dup_fd>> /\ pc[t] = "inside" /\ call'[t].cur = call[t].cur
            /\ \A j \in Surfaces : kind'[j] = "dmabuf" => kind[j] = "dmabuf"
        BY <1>0, <2>12 DEF InsertSurface, SkipSurface, AllocateNv12, Insert, At, CallType, imports, surfaces
      <3> QED  BY <2>2, <3>1, OwnFdSame
    <2>13. ASSUME NEW k \in Surfaces, DestroySurface(t, k) \/ DropPools(t, k) PROVE OwnFd'
      <3>1. /\ UNCHANGED <<fds, dup_fd>> /\ pc[t] = "inside"
            /\ call'[t].cur = IF kind[k] = "dmabuf" THEN k ELSE NoSurface
            /\ \A j \in Surfaces : kind'[j] = "dmabuf" => kind[j] = "dmabuf"
        BY <1>0, <2>13 DEF DestroySurface, DropPools, DropSurface, Insert, At, CallType, imports
      <3> QED  BY <2>2, <3>1, OwnFdSame, NullAssumption
    <2>14. ASSUME NEW k \in Surfaces, PitchTooWide(t, k) PROVE OwnFd'
      <3>1. UNCHANGED <<fds, dup_fd, kind>> /\ pc[t] # "close" /\ call'[t].cur = NoSurface
        BY <1>0, <2>14 DEF PitchTooWide, At, Return, NoCall, imports
      <3> QED  BY <2>3, <3>1
    <2> QED
      BY <2>1, <2>4, <2>5, <2>6, <2>7, <2>8, <2>9, <2>10, <2>11, <2>12, <2>13, <2>14
         DEF Inside, Import
  <1> QED  BY <1>1, <1>2

\* What the violated ClosesOwnFd takes: a client whose calls do not overlap never
\* loses the descriptor of one import to the drop of another.
THEOREM SerialFdsKept == Spec /\ []Serial => []FdsKept
  <1>1. Init => OwnFd
    BY NullAssumption DEF Init, OwnFd, Cur, NoCall
  <1>2. Inv /\ OwnFd => FdsKept
    <2> SUFFICES ASSUME Inv, OwnFd PROVE FdsKept  OBVIOUS
    <2>1. ASSUME NEW k \in Surfaces, kind[k] = "dmabuf" PROVE fds[dup_fd[k]] = k
      <3>1. \A t \in Threads : call[t].cur = k => kind[k] = "none"
        BY DEF Inv, ImportInv, Held
      <3> QED  BY <2>1, <3>1 DEF OwnFd, Cur
    <2>2. ASSUME NEW t \in Threads, At(t, "close") PROVE fds[dup_fd[Cur(t)]] \in {Cur(t), NoSurface}
      <3>1. call[t].cur \in Surfaces  BY <2>2, Own DEF Flow, At
      <3> QED  BY <3>1 DEF OwnFd, Cur
    <2> QED  BY <2>1, <2>2 DEF FdsKept
  <1> QED  BY <1>1, <1>2, OwnFdNext, MemoryCorrect, PTL DEF Spec
=============================================================================
