---------------------------- MODULE JournalCache ----------------------------
(***************************************************************************)
(* Where the objects of state.Journal live (src/state/journal.go): accounts  *)
(* and slots come from arenas that are recycled with the journal, and an     *)
(* account cache and a slot cache hold pointers past the maps.  Pointers are *)
(* numbers, 0 is nil; a number that nothing points to is free again, as the   *)
(* collector has it.  What the objects contain is the subject of Journal.    *)
(***************************************************************************)
EXTENDS SequencesExt, Integers

CONSTANTS Addr, Key,
          SlabSize,                       \* accounts of the first slab: 8 in the code
          ObjectIds, MapIds,              \* identities of Account objects and storage maps
          MaxSlab, MaxSlots, MaxListed    \* bounds: accounts, slots, deletions of a journal

VARIABLES
  state,        \* Journal.State: an account object
  storage,      \* Account.Storage of every object: a map
  maps,         \* the maps: a slot for a key
  slab, idx,    \* accountArena: objects, those in use
  slots,        \* slotArena.idx
  cachedAcc,    \* cachedAddr, cachedAcc
  slotCache,    \* slotCacheAddr, and the pairs of slotCacheKeys and slotCacheVals
  listed,       \* SelfdestructedAddresses
  doomed        \* addresses with SelfDestructedLocal

cacheVars == <<state, storage, maps, slab, idx, slots, cachedAcc, slotCache, listed, doomed>>

\* The largest slab, and what the constants have to be: no identity is nil, and there are
\* enough of them for what a journal may reach and a method may need besides.
Largest == IF 2 * (MaxSlab - 1) > SlabSize THEN 2 * (MaxSlab - 1) ELSE SlabSize
CacheOK ==
  /\ Addr # {} /\ IsFiniteSet(Addr)
  /\ IsFiniteSet(ObjectIds) /\ 0 \notin ObjectIds
  /\ IsFiniteSet(MapIds) /\ 0 \notin MapIds
  /\ SlabSize \in Nat \ {0} /\ MaxSlab \in Nat \ {0}
  /\ Cardinality(ObjectIds) >= MaxSlab - 1 + Cardinality(Addr) + Largest
  /\ Cardinality(MapIds) >= Largest + 2 * Cardinality(Addr)
ASSUME CacheAssumption == CacheOK

NoMap == [k \in Key |-> 0]

Reached(j) == ToSet(j.slab) \cup {j.state[a] : a \in Addr} \cup {j.cachedAcc.obj}
MapsReached(j) == {j.storage[o] : o \in Reached(j) \ {0}}
\* A different free identity for each element of D.
FreeObjects(j, D) == CHOOSE f \in [D -> ObjectIds \ Reached(j)] : IsInjective(f)
FreeMaps(j, D) == CHOOSE f \in [D -> MapIds \ MapsReached(j)] : IsInjective(f)

\* The parts of the journal a method works on, so that methods can call one another.
Now == [state |-> state, storage |-> storage, maps |-> maps, slab |-> slab, idx |-> idx,
        slots |-> slots, cachedAcc |-> cachedAcc, slotCache |-> slotCache]
\* Of what nothing points to, nothing is kept.
Becomes(j) ==
  /\ state' = j.state /\ slab' = j.slab
  /\ LET reached == Reached(j)
     IN  storage' = [o \in ObjectIds |-> IF o \in reached THEN j.storage[o] ELSE 0]
  /\ LET reached == MapsReached(j)
     IN  maps' = [m \in MapIds |-> IF m \in reached THEN j.maps[m] ELSE NoMap]
  /\ idx' = j.idx /\ slots' = j.slots /\ cachedAcc' = j.cachedAcc /\ slotCache' = j.slotCache
  /\ slots' <= MaxSlots

-----------------------------------------------------------------------------
CacheAccount(j, a, obj) == [j EXCEPT !.cachedAcc = [addr |-> a, obj |-> obj]]
\* The caches dropped; which address an empty cache is of, nobody looks at.
NoAccount == [addr |-> CHOOSE a \in Addr : TRUE, obj |-> 0]
NoSlots == [addr |-> CHOOSE a \in Addr : TRUE, entries |-> <<>>]
DropCaches(j) == [j EXCEPT !.cachedAcc = NoAccount, !.slotCache = NoSlots]

\* stateAccount
Found(j, a) == IF j.cachedAcc.obj # 0 /\ j.cachedAcc.addr = a THEN j.cachedAcc.obj ELSE j.state[a]
StateAccount(j, a) == IF Found(j, a) = 0 THEN j ELSE CacheAccount(j, a, Found(j, a))

\* accountArena.alloc: a slab that is full is copied to one of twice the size; the maps
\* of the copies are those of the accounts still in use.
Grown(j) ==
  LET old == Len(j.slab)
      new == FreeObjects(j, 1 .. IF 2 * old > SlabSize THEN 2 * old ELSE SlabSize)
  IN  [j EXCEPT !.slab = new,
                !.storage = [o \in ObjectIds |->
                  IF \E i \in 1 .. old : new[i] = o
                    THEN @[j.slab[CHOOSE i \in 1 .. old : new[i] = o]] ELSE @[o]]]
Alloc(j) == LET g == IF j.idx >= Len(j.slab) THEN Grown(j) ELSE j IN [g EXCEPT !.idx = @ + 1]
CanLoad(a) == Found(Now, a) # 0 \/ idx < MaxSlab

\* loadAccountMutInternal; ok says that the database delivered.  An account that is cold and
\* still doomed does not exist (Journal, ColdIsClean).
Loaded(j, a, ok) ==
  LET new == Alloc(j)
      obj == new.slab[new.idx]
  IN  IF Found(j, a) # 0 THEN StateAccount(j, a)
        ELSE IF ~ok THEN new
        ELSE CacheAccount([new EXCEPT !.state[a] = obj], a, obj)

\* cachedSlot
Hit(j, a, k) ==
  /\ j.slotCache.addr = a
  /\ \E i \in DOMAIN j.slotCache.entries : j.slotCache.entries[i].key = k

\* cacheSlot: a third key takes the place of the second.
CacheSlot(j, a, k, s) ==
  LET c    == j.slotCache.entries
      e    == [key |-> k, slot |-> s]
      same == {i \in DOMAIN c : c[i].key = k}
  IN  IF j.slotCache.addr # a \/ c = <<>>
        THEN [j EXCEPT !.slotCache = [addr |-> a, entries |-> <<e>>]]
        ELSE [j EXCEPT !.slotCache.entries =
                IF same # {} THEN [i \in DOMAIN c |-> IF i \in same THEN e ELSE c[i]]
                  ELSE <<c[1], e>>]

SlotIn(j, obj, k) == IF j.storage[obj] = 0 THEN 0 ELSE j.maps[j.storage[obj]][k]

\* Each of the objects gets a new map.
WithMaps(j, objs) ==
  LET new == FreeMaps(j, objs)
  IN  [j EXCEPT !.storage = [o \in ObjectIds |-> IF o \in objs THEN new[o] ELSE @[o]]]

\* EnsureStorage
StorageEnsured(j, obj) == IF j.storage[obj] = 0 THEN WithMaps(j, {obj}) ELSE j

\* The accesses that may fail when slot k of a is used; if the account fails, that is LoadAccount.
Bad(a, k) ==
  {"None"} \cup IF Found(Now, a) = 0 \/ SlotIn(Now, Found(Now, a), k) = 0 THEN {"Slot"} ELSE {}

\* SLoadInto and sstoreInner; bad is the access that the database fails.
Slot(a, k, bad) ==
  LET j   == Loaded(Now, a, TRUE)
      obj == j.cachedAcc.obj
      old == SlotIn(j, obj, k)
      e   == StorageEnsured(j, obj)
      new == [e EXCEPT !.slots = @ + 1, !.maps[e.storage[obj]][k] = e.slots + 1]
  IN  /\ CanLoad(a)
      /\ Becomes(IF Hit(j, a, k) THEN j
                   ELSE IF old # 0 THEN CacheSlot(j, a, k, old)
                   ELSE IF bad = "Slot" THEN j
                   ELSE CacheSlot(new, a, k, new.slots))
      /\ UNCHANGED <<listed, doomed>>

LoadAccount(a, ok) == CanLoad(a) /\ Becomes(Loaded(Now, a, ok)) /\ UNCHANGED <<listed, doomed>>

\* Selfdestruct of a, in a fork or at a moment at which it is deleted.
Selfdestruct(a, target, ok) ==
  LET j == Loaded(Now, target, ok)
  IN  /\ state[a] # 0 /\ CanLoad(target) /\ Len(listed) < MaxListed
      /\ Becomes(j)
      /\ IF j.state[target] = 0 \/ a \in doomed THEN UNCHANGED <<listed, doomed>>
           ELSE listed' = Append(listed, a) /\ doomed' = doomed \cup {a}

\* ClearSelfdestruct: the address stays in the list.
ClearSelfdestruct(a) ==
  /\ state[a] # 0 /\ Becomes(StateAccount(Now, a))
  /\ doomed' = doomed \ {a} /\ UNCHANGED listed

\* CheckpointRevert to the moment at which n addresses were listed, and DiscardTx with 0:
\* the flags of those listed since are taken back; the caches stay.
CheckpointRevert(n) ==
  /\ listed' = SubSeq(listed, 1, n)
  /\ doomed' = doomed \ ToSet(SubSeq(listed, n + 1, Len(listed)))
  /\ Becomes(Now)

Deleted == doomed \cap ToSet(listed)

\* Account.Selfdestruct of all in as.
Emptied(j, as) == WithMaps(j, {j.state[a] : a \in as} \ {0})

\* Mutant: the slot cache is not dropped.
FinalizeTxKeepsSlots(j) ==
  IF listed = <<>> THEN j ELSE [Emptied(j, Deleted) EXCEPT !.cachedAcc.obj = 0]

\* finalizeTxSelfdestructs
FinalizeTx(j) == IF listed = <<>> THEN j ELSE DropCaches(Emptied(j, Deleted))

CommitTx ==
  /\ Becomes(FinalizeTx(Now))
  /\ doomed' = doomed \ Deleted /\ listed' = <<>>

\* ReleaseJournal and AcquireJournal: the arenas begin again, with the maps that the
\* accounts of the slab have, emptied.
ReleaseJournal ==
  LET used  == {slab[i] : i \in 1 .. idx}
      clear == {storage[o] : o \in used}
  IN  /\ Becomes(DropCaches([Now EXCEPT !.state = [a \in Addr |-> 0], !.idx = 0, !.slots = 0,
           !.maps = [m \in MapIds |-> IF m \in clear THEN NoMap ELSE @[m]]]))
      /\ listed' = <<>> /\ doomed' = {}

CacheInit ==
  /\ state = [a \in Addr |-> 0] /\ slab = <<>> /\ idx = 0
  /\ storage = [o \in ObjectIds |-> 0] /\ maps = [m \in MapIds |-> NoMap]
  /\ slots = 0
  /\ cachedAcc = NoAccount /\ slotCache = NoSlots
  /\ listed = <<>> /\ doomed = {}

\* Key k is used.
Access(k) == \E a \in Addr : \E bad \in Bad(a, k) : Slot(a, k, bad)

\* What is done with accounts and with the journal.
Manage ==
  \/ \E a \in Addr : \E ok \in {TRUE, Found(Now, a) # 0} : LoadAccount(a, ok)
  \/ \E a, target \in Addr : \E ok \in {TRUE, Found(Now, target) # 0} : Selfdestruct(a, target, ok)
  \/ \E a \in Addr : ClearSelfdestruct(a)
  \/ \E n \in 0 .. Len(listed) : CheckpointRevert(n)
  \/ CommitTx \/ ReleaseJournal

CacheNext == Manage \/ \E k \in Key : Access(k)

CacheSpec == CacheInit /\ [][CacheNext]_cacheVars

-----------------------------------------------------------------------------
SlotOf(a, k) ==
  IF state[a] = 0 \/ storage[state[a]] = 0 THEN 0 ELSE maps[storage[state[a]]][k]

\* A pointer of the caches leads where the maps lead, and no two accounts share an object, a
\* map or a slot, whatever was deleted, reverted or left behind by the journal's last user:
\* an access through a cache never meets the account or the slot of another life
\* (journal.go:118-138, 149-206, 238-262, 319-333, 424-486).
PointersValid ==
  /\ cachedAcc.obj # 0 => state[cachedAcc.addr] = cachedAcc.obj
  /\ \A i \in DOMAIN slotCache.entries :
       LET e == slotCache.entries[i] IN SlotOf(slotCache.addr, e.key) = e.slot
  /\ \A a, b \in Addr : a # b /\ state[a] # 0 =>
       /\ state[a] # state[b]
       /\ state[b] # 0 /\ storage[state[a]] # 0 => storage[state[a]] # storage[state[b]]
  /\ LET used == {p \in Addr \X Key : SlotOf(p[1], p[2]) # 0}
     IN  \A p, q \in used : p # q => SlotOf(p[1], p[2]) # SlotOf(q[1], q[2])
=============================================================================
