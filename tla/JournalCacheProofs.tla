------------------------- MODULE JournalCacheProofs -------------------------
(***************************************************************************)
(* The pointers of the caches are those of the maps, and no two accounts   *)
(* share an object, a map or a slot, for all constants that CacheOK admits:*)
(* CachesAreValid.                                                         *)
(***************************************************************************)
EXTENDS JournalCache, FiniteSetTheorems, FunctionTheorems, TLAPS

-----------------------------------------------------------------------------
(***************************************************************************)
(* What a journal must be.                                                 *)
(***************************************************************************)
Objects == ObjectIds \cup {0}
Journals ==
  [state : [Addr -> Objects], storage : [ObjectIds -> MapIds \cup {0}],
   maps : [MapIds -> [Key -> Nat]], slab : Seq(ObjectIds), idx : Nat, slots : Nat,
   cachedAcc : [addr : Addr, obj : Objects],
   slotCache : [addr : Addr, entries : Seq([key : Key, slot : Nat])]]

\* The slot that the maps have for key k of a.
At(j, a, k) == IF j.state[a] = 0 THEN 0 ELSE SlotIn(j, j.state[a], k)

\* The object o has no map, or another one than p.
Apart(j, o, p) == j.storage[o] = 0 \/ j.storage[o] # j.storage[p]

\* No object has two owners, and what the arena has not handed out has none.
Owned(j) ==
  /\ j.idx <= Len(j.slab) /\ Len(j.slab) <= Largest
  /\ \A i, n \in DOMAIN j.slab : j.slab[i] = j.slab[n] => i = n
  /\ \A a \in Addr : \A i \in DOMAIN j.slab : i > j.idx => j.slab[i] # j.state[a]
  /\ \A a, b \in Addr : j.state[a] # 0 /\ j.state[a] = j.state[b] => a = b

\* Nor has a map: neither among the accounts, nor in the slab, nor between an account and
\* what the arena may hand out next, whose maps are empty.
MapsOwned(j) ==
  /\ \A a, b \in Addr : a # b /\ j.state[a] # 0 /\ j.state[b] # 0 =>
       Apart(j, j.state[a], j.state[b])
  /\ \A i, n \in DOMAIN j.slab : i # n => Apart(j, j.slab[i], j.slab[n])
  /\ \A a \in Addr : \A i \in DOMAIN j.slab : i > j.idx /\ j.state[a] # 0 =>
       Apart(j, j.slab[i], j.state[a])
  /\ \A i \in DOMAIN j.slab : i > j.idx /\ j.storage[j.slab[i]] # 0 =>
       j.maps[j.storage[j.slab[i]]] = NoMap

\* Slots are numbered as the arena hands them out.
SlotsOwned(j) ==
  /\ \A a \in Addr : \A k \in Key : At(j, a, k) <= j.slots
  /\ \A a, b \in Addr : \A k, l \in Key :
       At(j, a, k) # 0 /\ At(j, a, k) = At(j, b, l) => a = b /\ k = l

\* The account cache and the slot cache lead where the maps lead.
AccountCached(j) == j.cachedAcc.obj # 0 => j.state[j.cachedAcc.addr] = j.cachedAcc.obj
SlotsCached(j) ==
  \A i \in DOMAIN j.slotCache.entries :
    LET e == j.slotCache.entries[i] IN e.slot # 0 /\ At(j, j.slotCache.addr, e.key) = e.slot

\* All of it, but for the slot cache.
Sound(j) == j \in Journals /\ Owned(j) /\ MapsOwned(j) /\ SlotsOwned(j) /\ AccountCached(j)

\* What nothing points to is empty.
CleanObjects(j) == \A o \in ObjectIds \ Reached(j) : j.storage[o] = 0
CleanMaps(j) == \A m \in MapIds \ MapsReached(j) : j.maps[m] = NoMap

\* Slots are numbers.
LEMMA AtType ==
  ASSUME CacheOK, NEW j \in Journals, NEW a \in Addr, NEW k \in Key
  PROVE  At(j, a, k) \in Nat
BY DEF CacheOK, At, SlotIn, Journals, Objects

\* The objects that are reached: those of the slab and those of the accounts.
LEMMA ReachedIs ==
  ASSUME CacheOK, NEW j \in Journals, AccountCached(j)
  PROVE  \A o : o \in Reached(j) \ {0} <=>
           o \in ObjectIds /\ ((\E i \in DOMAIN j.slab : o = j.slab[i])
                                \/ (\E a \in Addr : o = j.state[a]))
<1>1. \A o : o \in ToSet(j.slab) <=> \E i \in DOMAIN j.slab : o = j.slab[i]
  BY DEF ToSet
<1>2. \A i \in DOMAIN j.slab : j.slab[i] \in ObjectIds
  BY DEF Journals
<1>3. \A a \in Addr : j.state[a] \in ObjectIds \cup {0}
  BY DEF Journals, Objects
<1>4. j.cachedAcc.obj # 0 => \E a \in Addr : j.cachedAcc.obj = j.state[a]
  BY DEF Journals, AccountCached
<1>5. 0 \notin ObjectIds
  BY DEF CacheOK
<1> QED
  BY <1>1, <1>2, <1>3, <1>4, <1>5 DEF Reached

-----------------------------------------------------------------------------
(***************************************************************************)
(* There is always something free.                                         *)
(***************************************************************************)
\* A finite set has a different element for each element of a set that is not larger.
LEMMA EnoughToChoose ==
  ASSUME NEW D, NEW S, IsFiniteSet(D), IsFiniteSet(S), Cardinality(D) <= Cardinality(S)
  PROVE  \E f \in [D -> S] : IsInjective(f)
<1> DEFINE d == Cardinality(D)
           s == Cardinality(S)
<1>1. d \in Nat /\ ExistsBijection(1 .. d, D) /\ s \in Nat /\ ExistsBijection(1 .. s, S)
  BY FS_CardinalityType
<1>2. ExistsBijection(D, 1 .. d)
  BY <1>1, Fun_ExistsBijSymmetric
<1> HIDE DEF d, s
<1>3. PICK g : g \in Bijection(D, 1 .. d)
  BY <1>2 DEF ExistsBijection
<1>4. PICK h : h \in Bijection(1 .. s, S)
  BY <1>1 DEF ExistsBijection
<1>5. g \in [D -> 1 .. d] /\ \A x, y \in D : g[x] = g[y] => x = y
  BY <1>3, Fun_BijectionProperties, Zenon
<1>6. h \in [1 .. s -> S] /\ \A x, y \in 1 .. s : h[x] = h[y] => x = y
  BY <1>4, Fun_BijectionProperties, Zenon
<1>7. d <= s
  BY DEF d, s
<1>8. \A x \in D : g[x] \in 1 .. s
  BY <1>1, <1>5, <1>7
<1> DEFINE f == [x \in D |-> h[g[x]]]
<1>9. f \in [D -> S]
  BY <1>6, <1>8
<1>10. IsInjective(f)
  BY <1>5, <1>6, <1>8 DEF IsInjective
<1> QED
  BY <1>9, <1>10

\* What is left of a set.
LEMMA Rest ==
  ASSUME NEW S, NEW T, IsFiniteSet(S), IsFiniteSet(T)
  PROVE  IsFiniteSet(S \ T) /\ Cardinality(S \ T) >= Cardinality(S) - Cardinality(T)
<1>1. /\ IsFiniteSet(S \ T)
      /\ Cardinality(S \ T) = Cardinality(S) - Cardinality(S \cap T)
  BY FS_Difference, Zenon
<1>2. Cardinality(S \cap T) <= Cardinality(T)
  BY FS_Intersection
<1>3. Cardinality(S) \in Nat /\ Cardinality(T) \in Nat /\ Cardinality(S \cap T) \in Nat
  BY FS_CardinalityType, FS_Intersection, Zenon
<1> QED
  BY <1>1, <1>2, <1>3

\* A function of a finite set has no more values than arguments.
LEMMA Values ==
  ASSUME NEW S, NEW f, IsFiniteSet(S)
  PROVE  /\ IsFiniteSet({f[x] : x \in S})
         /\ Cardinality({f[x] : x \in S}) <= Cardinality(S)
<1> DEFINE T == {f[x] : x \in S}
           g == [x \in S |-> f[x]]
<1>1. g \in Surjection(S, T)
  BY DEF Surjection
<1> HIDE DEF T, g
<1>2. IsFiniteSet(T) /\ Cardinality(T) <= Cardinality(S)
  BY <1>1, FS_Surjection
<1> QED
  BY <1>2 DEF T

\* No more is reached than the slab and the accounts have.
LEMMA ReachedBound ==
  ASSUME CacheOK, NEW j \in Journals, AccountCached(j)
  PROVE  /\ IsFiniteSet(Reached(j) \ {0})
         /\ Cardinality(Reached(j) \ {0}) <= Len(j.slab) + Cardinality(Addr)
<1> DEFINE A == {j.slab[i] : i \in 1 .. Len(j.slab)}
           B == {j.state[a] : a \in Addr}
           R == Reached(j) \ {0}
<1>1. Len(j.slab) \in Nat /\ DOMAIN j.slab = 1 .. Len(j.slab)
  BY DEF Journals
<1>2. IsFiniteSet(1 .. Len(j.slab)) /\ Cardinality(1 .. Len(j.slab)) = Len(j.slab)
  BY <1>1, FS_Interval
<1>3. IsFiniteSet(A) /\ Cardinality(A) <= Len(j.slab)
  BY <1>2, Values, Zenon
<1>4. IsFiniteSet(Addr)
  BY DEF CacheOK
<1>5. IsFiniteSet(B) /\ Cardinality(B) <= Cardinality(Addr)
  BY <1>4, Values, Zenon
<1>6. R \subseteq A \cup B
  BY <1>1, ReachedIs
<1> HIDE DEF A, B, R
<1>7. /\ IsFiniteSet(A \cup B)
      /\ Cardinality(A \cup B) = Cardinality(A) + Cardinality(B) - Cardinality(A \cap B)
  BY <1>3, <1>5, FS_Union, Zenon
<1>8. IsFiniteSet(R) /\ Cardinality(R) <= Cardinality(A \cup B)
  BY <1>6, <1>7, FS_Subset
<1>9. IsFiniteSet(A \cap B)
  BY <1>3, FS_Intersection, Zenon
<1>10. /\ Cardinality(A) \in Nat /\ Cardinality(B) \in Nat /\ Cardinality(A \cap B) \in Nat
       /\ Cardinality(R) \in Nat /\ Cardinality(Addr) \in Nat
  BY <1>3, <1>4, <1>5, <1>8, <1>9, FS_CardinalityType
<1>11. Cardinality(R) <= Len(j.slab) + Cardinality(Addr)
  BY <1>1, <1>3, <1>5, <1>7, <1>8, <1>10
<1> QED
  BY <1>8, <1>11 DEF R

\* The slab can grow.
LEMMA ObjectsAreFree ==
  ASSUME CacheOK, NEW j \in Journals, AccountCached(j), Len(j.slab) < MaxSlab,
         NEW n \in Nat, n <= Largest
  PROVE  /\ FreeObjects(j, 1 .. n) \in [1 .. n -> ObjectIds \ Reached(j)]
         /\ IsInjective(FreeObjects(j, 1 .. n))
<1> DEFINE R == Reached(j) \ {0}
           F == ObjectIds \ Reached(j)
<1>1. IsFiniteSet(R) /\ Cardinality(R) <= Len(j.slab) + Cardinality(Addr)
  BY ReachedBound
<1>2. /\ IsFiniteSet(ObjectIds) /\ MaxSlab \in Nat /\ Largest \in Nat /\ IsFiniteSet(Addr)
      /\ Cardinality(ObjectIds) >= MaxSlab - 1 + Cardinality(Addr) + Largest
  BY DEF CacheOK, Largest
<1>3. F = ObjectIds \ R
  BY DEF CacheOK
<1>4. Len(j.slab) \in Nat
  BY DEF Journals
<1> HIDE DEF F, R
<1>5. IsFiniteSet(F) /\ Cardinality(F) >= Cardinality(ObjectIds) - Cardinality(R)
  BY <1>1, <1>2, <1>3, Rest
<1>6. /\ Cardinality(ObjectIds) \in Nat /\ Cardinality(R) \in Nat /\ Cardinality(F) \in Nat
      /\ Cardinality(Addr) \in Nat
  BY <1>1, <1>2, <1>5, FS_CardinalityType
<1>7. n <= Cardinality(F)
  BY <1>1, <1>2, <1>4, <1>5, <1>6, SMTT(30)
<1>8. IsFiniteSet(1 .. n) /\ Cardinality(1 .. n) = n
  BY FS_Interval
<1>9. \E f \in [1 .. n -> F] : IsInjective(f)
  BY <1>5, <1>7, <1>8, EnoughToChoose, ZenonT(60)
<1> QED
  BY <1>9 DEF FreeObjects, F

\* Accounts can get new maps.
LEMMA MapsAreFree ==
  ASSUME CacheOK, NEW j \in Journals, AccountCached(j), Len(j.slab) <= Largest,
         NEW D, IsFiniteSet(D), Cardinality(D) <= Cardinality(Addr)
  PROVE  /\ FreeMaps(j, D) \in [D -> MapIds \ MapsReached(j)]
         /\ IsInjective(FreeMaps(j, D))
<1> DEFINE R == Reached(j) \ {0}
           M == {j.storage[o] : o \in R}
           F == MapIds \ MapsReached(j)
<1>1. IsFiniteSet(R) /\ Cardinality(R) <= Len(j.slab) + Cardinality(Addr)
  BY ReachedBound
<1>2. /\ IsFiniteSet(MapIds) /\ Largest \in Nat /\ IsFiniteSet(Addr)
      /\ Cardinality(MapIds) >= Largest + 2 * Cardinality(Addr)
  BY DEF CacheOK, Largest
<1>3. F = MapIds \ M
  BY DEF MapsReached
<1>4. Len(j.slab) \in Nat
  BY DEF Journals
<1> HIDE DEF R
<1>5. IsFiniteSet(M) /\ Cardinality(M) <= Cardinality(R)
  BY <1>1, Values
<1> HIDE DEF F, M
<1>6. IsFiniteSet(F) /\ Cardinality(F) >= Cardinality(MapIds) - Cardinality(M)
  BY <1>2, <1>3, <1>5, Rest
<1>7. /\ Cardinality(MapIds) \in Nat /\ Cardinality(R) \in Nat /\ Cardinality(F) \in Nat
      /\ Cardinality(Addr) \in Nat /\ Cardinality(D) \in Nat /\ Cardinality(M) \in Nat
  BY <1>1, <1>2, <1>5, <1>6, FS_CardinalityType
<1>8. Cardinality(D) <= Cardinality(F)
  BY <1>1, <1>2, <1>4, <1>5, <1>6, <1>7, SMTT(30)
<1>9. \E f \in [D -> F] : IsInjective(f)
  BY <1>6, <1>8, EnoughToChoose
<1> QED
  BY <1>9 DEF FreeMaps, F

-----------------------------------------------------------------------------
(***************************************************************************)
(* Accounts.                                                               *)
(***************************************************************************)
\* The slab of g is that of j, doubled: its new objects are copies with no map.
Doubled(j, g) ==
  /\ g = [j EXCEPT !.slab = g.slab, !.storage = g.storage]
  /\ g \in Journals /\ Len(j.slab) < Len(g.slab) /\ Len(g.slab) <= Largest
  /\ \A i, n \in DOMAIN g.slab : g.slab[i] = g.slab[n] => i = n
  /\ \A i \in DOMAIN g.slab : g.slab[i] \notin Reached(j)
  /\ \A i \in DOMAIN j.slab : i \in DOMAIN g.slab
                                /\ g.storage[g.slab[i]] = j.storage[j.slab[i]]
  /\ \A i \in DOMAIN g.slab : i \notin DOMAIN j.slab => g.storage[g.slab[i]] = 0
  /\ \A o \in ObjectIds \cap Reached(j) : g.storage[o] = j.storage[o]

\* The slab that has become too small, doubled.
LEMMA GrownIs ==
  ASSUME CacheOK, NEW j \in Journals, AccountCached(j), CleanObjects(j),
         Len(j.slab) < MaxSlab
  PROVE  Doubled(j, Grown(j))
<1> DEFINE old == Len(j.slab)
           n == IF 2 * old > SlabSize THEN 2 * old ELSE SlabSize
           new == FreeObjects(j, 1 .. n)
           copied == [o \in ObjectIds |->
                        IF \E i \in 1 .. old : new[i] = o
                          THEN j.storage[j.slab[CHOOSE i \in 1 .. old : new[i] = o]]
                          ELSE j.storage[o]]
           g == Grown(j)
<1>1. old \in Nat /\ DOMAIN j.slab = 1 .. old /\ j.storage \in [ObjectIds -> MapIds \cup {0}]
  BY DEF Journals
<1>2. \A i \in 1 .. old : j.slab[i] \in ObjectIds
  BY <1>1 DEF Journals
<1>3. n \in Nat /\ n > old /\ n <= Largest
  BY <1>1 DEF CacheOK, Largest
<1>4. g = [j EXCEPT !.slab = new, !.storage = copied]
  BY DEF Grown, Journals
<1> HIDE DEF n
<1>5. new \in [1 .. n -> ObjectIds \ Reached(j)] /\ IsInjective(new)
  BY <1>3, ObjectsAreFree
<1> HIDE DEF new
<1>6. \A i, k \in 1 .. n : new[i] = new[k] => i = k
  BY <1>5 DEF IsInjective
<1>7. new \in Seq(ObjectIds) /\ Len(new) = n /\ DOMAIN new = 1 .. n
  BY <1>3, <1>5
<1>8. ASSUME NEW i \in 1 .. old PROVE copied[new[i]] = j.storage[j.slab[i]]
  <2>1. i \in 1 .. n /\ new[i] \in ObjectIds
    BY <1>1, <1>3, <1>5
  <2>2. (CHOOSE k \in 1 .. old : new[k] = new[i]) = i
    BY <1>1, <1>3, <1>6, <2>1
  <2> QED
    BY <2>1, <2>2, Zenon
<1>9. ASSUME NEW o \in ObjectIds, \A i \in 1 .. old : new[i] # o PROVE copied[o] = j.storage[o]
  BY <1>9
<1>10. copied \in [ObjectIds -> MapIds \cup {0}]
  <2>1. ASSUME NEW o \in ObjectIds PROVE copied[o] \in MapIds \cup {0}
    <3>1. CASE \E i \in 1 .. old : new[i] = o
      BY <1>1, <1>2, <1>8, <3>1
    <3>2. CASE \A i \in 1 .. old : new[i] # o
      BY <1>1, <1>9, <3>2
    <3> QED
      BY <3>1, <3>2
  <2> QED
    BY <2>1, Zenon
<1> HIDE DEF copied, g
<1>11. g.slab = new /\ g.storage = copied /\ g \in Journals
  BY <1>4, <1>7, <1>10, Zenon DEF Journals
<1>12. g = [j EXCEPT !.slab = g.slab, !.storage = g.storage]
  BY <1>4, <1>11
<1>13. ASSUME NEW i \in DOMAIN g.slab, i \notin DOMAIN j.slab PROVE g.storage[g.slab[i]] = 0
  <2>1. i \in 1 .. n /\ i \notin 1 .. old /\ new[i] \in ObjectIds \ Reached(j)
    BY <1>1, <1>5, <1>7, <1>11, <1>13
  <2>2. \A k \in 1 .. old : new[k] # new[i]
    BY <1>1, <1>3, <1>6, <2>1
  <2>3. copied[new[i]] = j.storage[new[i]]
    BY <1>9, <2>1, <2>2
  <2> QED
    BY <1>11, <2>1, <2>3 DEF CleanObjects
<1>14. ASSUME NEW o \in ObjectIds \cap Reached(j) PROVE g.storage[o] = j.storage[o]
  <2>1. \A k \in 1 .. old : new[k] # o
    BY <1>1, <1>3, <1>5
  <2> QED
    BY <1>9, <1>11, <2>1
<1>15. old < Len(g.slab) /\ Len(g.slab) <= Largest
  BY <1>1, <1>3, <1>7, <1>11
<1>16. /\ \A i, k \in DOMAIN g.slab : g.slab[i] = g.slab[k] => i = k
       /\ \A i \in DOMAIN g.slab : g.slab[i] \notin Reached(j)
  BY <1>5, <1>6, <1>7, <1>11
<1>17. \A i \in DOMAIN j.slab : i \in DOMAIN g.slab
                                  /\ g.storage[g.slab[i]] = j.storage[j.slab[i]]
  BY <1>1, <1>3, <1>7, <1>8, <1>11
<1>18. Doubled(j, g)
  <2>1. Len(j.slab) < Len(g.slab)
    BY <1>15
  <2> QED
    BY <1>11, <1>12, <1>13, <1>14, <1>15, <1>16, <1>17, <2>1, Zenon DEF Doubled
<1> QED
  BY <1>18, Zenon DEF g

\* Accounts keep their objects, maps and slots when only unused storage changes.
LEMMA AtSame ==
  ASSUME CacheOK, NEW j \in Journals, NEW g \in Journals, g.state = j.state, g.maps = j.maps,
         \A a \in Addr : j.state[a] # 0 => g.storage[j.state[a]] = j.storage[j.state[a]]
  PROVE  \A a \in Addr, k \in Key : At(g, a, k) = At(j, a, k)
BY DEF At, SlotIn

\* A slab of twice the size, or the first one: the copies are owned by nobody yet.
LEMMA GrownSound ==
  ASSUME CacheOK, NEW j, Sound(j), CleanObjects(j), CleanMaps(j),
         j.idx = Len(j.slab), j.idx < MaxSlab
  PROVE  LET g == Grown(j)
         IN  /\ Sound(g) /\ CleanMaps(g) /\ g.idx < Len(g.slab)
             /\ g.state = j.state /\ g.idx = j.idx /\ g.slotCache = j.slotCache
             /\ \A a \in Addr, k \in Key : At(g, a, k) = At(j, a, k)
<1> DEFINE g == Grown(j)
           old == Len(j.slab)
<1>1. j \in Journals /\ AccountCached(j) /\ Owned(j) /\ MapsOwned(j) /\ SlotsOwned(j)
  BY DEF Sound
<1>2. /\ g = [j EXCEPT !.slab = g.slab, !.storage = g.storage]
      /\ g \in Journals /\ old < Len(g.slab) /\ Len(g.slab) <= Largest
      /\ \A i, n \in DOMAIN g.slab : g.slab[i] = g.slab[n] => i = n
      /\ \A i \in DOMAIN g.slab : g.slab[i] \notin Reached(j)
      /\ \A i \in DOMAIN j.slab : i \in DOMAIN g.slab
                                    /\ g.storage[g.slab[i]] = j.storage[j.slab[i]]
      /\ \A i \in DOMAIN g.slab : i \notin DOMAIN j.slab => g.storage[g.slab[i]] = 0
      /\ \A o \in ObjectIds \cap Reached(j) : g.storage[o] = j.storage[o]
  <2>1. Doubled(j, g)
    BY <1>1, GrownIs, Zenon
  <2> HIDE DEF g
  <2> QED
    BY <2>1, Zenon DEF Doubled
<1> HIDE DEF g
<1>3. /\ g.state = j.state /\ g.idx = j.idx /\ g.slotCache = j.slotCache /\ g.maps = j.maps
      /\ g.slots = j.slots /\ g.cachedAcc = j.cachedAcc
  BY <1>1, <1>2, Zenon DEF Journals
<1>4. /\ old \in Nat /\ DOMAIN j.slab = 1 .. old /\ DOMAIN g.slab = 1 .. Len(g.slab)
      /\ Len(g.slab) \in Nat /\ j.idx = old
  BY <1>1, <1>2 DEF Journals
<1>5. \A a \in Addr : j.state[a] # 0 => j.state[a] \in ObjectIds \cap Reached(j)
  BY <1>1 DEF Reached, Journals, Objects
<1>6. \A a \in Addr : j.state[a] # 0 => g.storage[j.state[a]] = j.storage[j.state[a]]
  BY <1>2, <1>5
<1>7. \A a \in Addr, k \in Key : At(g, a, k) = At(j, a, k)
  BY <1>1, <1>2, <1>3, <1>6, AtSame
<1>8. Owned(g)
  <2>1. ASSUME NEW a \in Addr, NEW i \in DOMAIN g.slab PROVE g.slab[i] # g.state[a]
    <3>1. g.slab[i] \notin Reached(j) /\ g.slab[i] \in ObjectIds
      BY <1>2 DEF Journals
    <3>2. j.state[a] \in Reached(j)
      BY DEF Reached
    <3> QED
      BY <1>3, <3>1, <3>2
  <2>2. g.idx <= Len(g.slab)
    BY <1>2, <1>3, <1>4
  <2>3. \A a, b \in Addr : g.state[a] # 0 /\ g.state[a] = g.state[b] => a = b
    BY <1>1, <1>3 DEF Owned
  <2> QED
    BY <1>2, <2>1, <2>2, <2>3 DEF Owned
<1>9. MapsOwned(g)
  <2>1. ASSUME NEW a \in Addr, NEW b \in Addr, a # b, g.state[a] # 0, g.state[b] # 0
        PROVE  Apart(g, g.state[a], g.state[b])
    <3>1. Apart(j, j.state[a], j.state[b])
      BY <1>1, <1>3, <2>1 DEF MapsOwned
    <3> QED
      BY <1>3, <1>6, <2>1, <3>1 DEF Apart
  <2>2. ASSUME NEW i \in DOMAIN g.slab, NEW n \in DOMAIN g.slab, i # n
        PROVE  Apart(g, g.slab[i], g.slab[n])
    <3>1. CASE i \in DOMAIN j.slab /\ n \in DOMAIN j.slab
      <4>1. Apart(j, j.slab[i], j.slab[n])
        BY <1>1, <2>2, <3>1 DEF MapsOwned
      <4> QED
        BY <1>2, <3>1, <4>1, Zenon DEF Apart
    <3>2. CASE i \notin DOMAIN j.slab \/ n \notin DOMAIN j.slab
      BY <1>2, <3>2 DEF Apart
    <3> QED
      BY <3>1, <3>2
  <2>3. ASSUME NEW i \in DOMAIN g.slab, i > g.idx PROVE g.storage[g.slab[i]] = 0
    BY <1>2, <1>3, <1>4, <2>3
  <2> QED
    BY <2>1, <2>2, <2>3 DEF MapsOwned, Apart
<1>10. SlotsOwned(g)
  BY <1>1, <1>3, <1>7 DEF SlotsOwned
<1>11. AccountCached(g)
  BY <1>1, <1>3 DEF AccountCached
<1>12. CleanMaps(g)
  <2>1. ASSUME NEW m \in MapsReached(j) PROVE m \in MapsReached(g)
    <3>1. PICK o \in Reached(j) \ {0} : m = j.storage[o]
      BY DEF MapsReached
    <3>2. o \in ObjectIds /\ ((\E i \in DOMAIN j.slab : o = j.slab[i])
                                \/ (\E a \in Addr : o = j.state[a]))
      BY <1>1, <3>1, ReachedIs
    <3>3. CASE \E i \in DOMAIN j.slab : o = j.slab[i]
      <4>1. PICK i \in DOMAIN j.slab : o = j.slab[i]
        BY <3>3
      <4>2. i \in DOMAIN g.slab /\ g.storage[g.slab[i]] = m
        BY <1>2, <3>1, <4>1
      <4>3. g.slab[i] \in Reached(g) \ {0}
        <5>1. g.slab[i] \in ObjectIds
          BY <1>2, <4>2 DEF Journals
        <5> QED
          BY <1>2, <1>11, <4>2, <5>1, ReachedIs
      <4> QED
        BY <4>2, <4>3 DEF MapsReached
    <3>4. CASE \E a \in Addr : o = j.state[a]
      <4>1. o \in Reached(g) \ {0}
        BY <1>2, <1>3, <1>11, <3>2, <3>4, ReachedIs
      <4>2. g.storage[o] = m
        BY <1>2, <3>1, <3>2
      <4> QED
        BY <4>1, <4>2 DEF MapsReached
    <3> QED
      BY <3>2, <3>3, <3>4
  <2> QED
    BY <1>3, <2>1 DEF CleanMaps
<1>13. Sound(g)
  BY <1>2, <1>8, <1>9, <1>10, <1>11 DEF Sound
<1>14. g.idx < Len(g.slab)
  BY <1>2, <1>3, <1>4
<1> QED
  BY <1>3, <1>7, <1>12, <1>13, <1>14 DEF g

\* The next object of the arena, which belongs to nobody.
LEMMA AllocSound ==
  ASSUME CacheOK, NEW j, Sound(j), CleanObjects(j), CleanMaps(j), j.idx < MaxSlab
  PROVE  LET n == Alloc(j)
             o == n.slab[n.idx]
         IN  /\ Sound(n) /\ CleanMaps(n) /\ n.idx \in DOMAIN n.slab
             /\ n.state = j.state /\ n.slotCache = j.slotCache
             /\ \A a \in Addr, k \in Key : At(n, a, k) = At(j, a, k)
             /\ \A a \in Addr : n.state[a] # o
             /\ \A a \in Addr : n.state[a] # 0 => Apart(n, o, n.state[a])
             /\ n.storage[o] # 0 => n.maps[n.storage[o]] = NoMap
<1> DEFINE g == IF j.idx >= Len(j.slab) THEN Grown(j) ELSE j
           n == Alloc(j)
<1>1. j \in Journals /\ j.idx \in Nat /\ Len(j.slab) \in Nat /\ j.idx <= Len(j.slab)
  BY DEF Sound, Journals, Owned
<1>2. /\ Sound(g) /\ CleanMaps(g) /\ g.idx < Len(g.slab)
      /\ g.state = j.state /\ g.slotCache = j.slotCache
      /\ \A a \in Addr, k \in Key : At(g, a, k) = At(j, a, k)
  <2>1. CASE j.idx >= Len(j.slab)
    <3>1. j.idx = Len(j.slab)
      BY <1>1, <2>1
    <3>2. g = Grown(j)
      BY <2>1
    <3> QED
      BY <3>1, <3>2, GrownSound
  <2>2. CASE ~(j.idx >= Len(j.slab))
    BY <1>1, <2>2
  <2> QED
    BY <2>1, <2>2
<1>3. n = [g EXCEPT !.idx = @ + 1]
  BY DEF Alloc
<1> HIDE DEF g, n
<1> DEFINE o == g.slab[g.idx + 1]
<1>4. /\ g \in Journals /\ Owned(g) /\ MapsOwned(g) /\ SlotsOwned(g) /\ AccountCached(g)
  BY <1>2 DEF Sound
<1>5. /\ g.idx \in Nat /\ Len(g.slab) \in Nat /\ DOMAIN g.slab = 1 .. Len(g.slab)
  BY <1>4 DEF Journals
<1>6. g.idx + 1 \in DOMAIN g.slab /\ g.idx + 1 > g.idx /\ g.idx + 1 \in Nat
  BY <1>2, <1>5
<1>7. /\ n.idx = g.idx + 1 /\ n.slab = g.slab /\ n.state = g.state /\ n.storage = g.storage
      /\ n.maps = g.maps /\ n.slots = g.slots /\ n.slotCache = g.slotCache
      /\ n.cachedAcc = g.cachedAcc
  BY <1>3, <1>4 DEF Journals
<1>8. n \in Journals
  BY <1>3, <1>4, <1>6, Zenon DEF Journals
<1>9. \A a \in Addr, k \in Key : At(n, a, k) = At(g, a, k)
  BY <1>7 DEF At, SlotIn
<1>10. \A i \in DOMAIN n.slab : i > n.idx => i > g.idx
  BY <1>5, <1>7
<1>11. Owned(n)
  <2>1. n.idx <= Len(n.slab)
    BY <1>2, <1>5, <1>7
  <2> QED
    BY <1>4, <1>7, <1>10, <2>1 DEF Owned
<1>12. MapsOwned(n)
  BY <1>4, <1>7, <1>10 DEF MapsOwned, Apart
<1>13. SlotsOwned(n)
  BY <1>4, <1>7, <1>9 DEF SlotsOwned
<1>14. AccountCached(n)
  BY <1>4, <1>7 DEF AccountCached
<1>15. CleanMaps(n)
  BY <1>2, <1>7 DEF CleanMaps, MapsReached, Reached
<1>16. Sound(n)
  BY <1>8, <1>11, <1>12, <1>13, <1>14 DEF Sound
<1>17. n.slab[n.idx] = o
  BY <1>7
<1>18. \A a \in Addr : n.state[a] # o
  BY <1>4, <1>6, <1>7 DEF Owned
<1>19. \A a \in Addr : n.state[a] # 0 => Apart(n, o, n.state[a])
  BY <1>4, <1>6, <1>7 DEF MapsOwned, Apart
<1>20. n.storage[o] # 0 => n.maps[n.storage[o]] = NoMap
  BY <1>4, <1>6, <1>7 DEF MapsOwned
<1>21. n.idx \in DOMAIN n.slab /\ n.state = j.state /\ n.slotCache = j.slotCache
  BY <1>2, <1>6, <1>7
<1>22. \A a \in Addr, k \in Key : At(n, a, k) = At(j, a, k)
  BY <1>2, <1>9
<1> HIDE DEF o
<1> QED
  BY <1>15, <1>16, <1>17, <1>18, <1>19, <1>20, <1>21, <1>22 DEF n

\* The account cache is asked first and says what the map says.
LEMMA FoundIs ==
  ASSUME NEW j \in Journals, AccountCached(j), NEW a \in Addr
  PROVE  Found(j, a) = j.state[a]
BY DEF Found, AccountCached

\* What the slot cache holds.
LEMMA EntriesType ==
  ASSUME NEW j \in Journals
  PROVE  /\ j.slotCache.addr \in Addr /\ j.slotCache.entries \in Seq([key : Key, slot : Nat])
         /\ \A i \in DOMAIN j.slotCache.entries :
              j.slotCache.entries[i].key \in Key /\ j.slotCache.entries[i].slot \in Nat
<1> DEFINE entry == [key : Key, slot : Nat]
           c == j.slotCache.entries
<1>1. j.slotCache.addr \in Addr /\ c \in Seq(entry)
  BY DEF Journals
<1>2. \A e \in entry : e.key \in Key /\ e.slot \in Nat
  OBVIOUS
<1> HIDE DEF entry, c
<1>3. \A i \in DOMAIN c : c[i] \in entry
  BY <1>1
<1> QED
  BY <1>1, <1>2, <1>3 DEF c, entry

\* The slot cache is right as long as the maps say the same.
LEMMA SlotsStay ==
  ASSUME NEW j \in Journals, NEW l \in Journals, SlotsCached(j), l.slotCache = j.slotCache,
         \A a \in Addr, k \in Key : At(l, a, k) = At(j, a, k)
  PROVE  SlotsCached(l)
BY EntriesType DEF SlotsCached

\* What changes the accounts' objects only by adding some reaches all maps as before.
LEMMA MapsStay ==
  ASSUME CacheOK, NEW j \in Journals, NEW l \in Journals, AccountCached(j), AccountCached(l),
         CleanMaps(j), l.slab = j.slab, l.storage = j.storage, l.maps = j.maps,
         \A b \in Addr : j.state[b] # 0 => l.state[b] = j.state[b]
  PROVE  CleanMaps(l)
<1>1. ASSUME NEW o \in Reached(j) \ {0} PROVE o \in Reached(l) \ {0}
  <2>1. o \in ObjectIds /\ ((\E i \in DOMAIN j.slab : o = j.slab[i])
                              \/ (\E a \in Addr : o = j.state[a]))
    BY ReachedIs
  <2>2. o # 0
    OBVIOUS
  <2>3. (\E i \in DOMAIN l.slab : o = l.slab[i]) \/ (\E a \in Addr : o = l.state[a])
    BY <2>1, <2>2
  <2> QED
    BY <2>1, <2>3, ReachedIs
<1>2. MapsReached(j) \subseteq MapsReached(l)
  BY <1>1 DEF MapsReached
<1> QED
  BY <1>2 DEF CleanMaps

\* An account that the caller may use.
IsLoaded(j, a) == j.state[a] # 0 /\ j.cachedAcc = [addr |-> a, obj |-> j.state[a]]

\* Caching the account that the state has.
LEMMA CacheAccountSound ==
  ASSUME CacheOK, NEW j, Sound(j), CleanMaps(j), SlotsCached(j), NEW a \in Addr, j.state[a] # 0
  PROVE  LET l == CacheAccount(j, a, j.state[a])
         IN  Sound(l) /\ CleanMaps(l) /\ SlotsCached(l) /\ IsLoaded(l, a)
<1> DEFINE l == CacheAccount(j, a, j.state[a])
<1>1. /\ j \in Journals /\ Owned(j) /\ MapsOwned(j) /\ SlotsOwned(j) /\ AccountCached(j)
  BY DEF Sound
<1>2. j.state[a] \in Objects
  BY <1>1 DEF Journals
<1>3. /\ l.idx = j.idx /\ l.slab = j.slab /\ l.state = j.state /\ l.storage = j.storage
      /\ l.maps = j.maps /\ l.slots = j.slots /\ l.slotCache = j.slotCache
      /\ l.cachedAcc = [addr |-> a, obj |-> j.state[a]]
  BY <1>1 DEF Journals, CacheAccount
<1>4. l \in Journals
  BY <1>1, <1>2, Zenon DEF Journals, CacheAccount
<1> HIDE DEF l
<1>5. \A b \in Addr, k \in Key : At(l, b, k) = At(j, b, k)
  BY <1>3 DEF At, SlotIn
<1>6. Owned(l)
  BY <1>1, <1>3 DEF Owned
<1>7. MapsOwned(l)
  BY <1>1, <1>3 DEF MapsOwned, Apart
<1>8. SlotsOwned(l)
  BY <1>1, <1>3, <1>5 DEF SlotsOwned
<1>9. AccountCached(l) /\ IsLoaded(l, a)
  BY <1>3 DEF AccountCached, IsLoaded
<1>10. CleanMaps(l)
  BY <1>1, <1>3, <1>4, <1>9, MapsStay
<1>11. SlotsCached(l)
  BY <1>3, Zenon DEF SlotsCached, At, SlotIn
<1>12. Sound(l)
  BY <1>4, <1>6, <1>7, <1>8, <1>9 DEF Sound
<1> QED
  BY <1>9, <1>10, <1>11, <1>12 DEF l

\* An account gets the object that the arena handed out.
LEMMA OwnerSound ==
  ASSUME CacheOK, NEW n, Sound(n), CleanMaps(n), SlotsCached(n), n.idx \in DOMAIN n.slab,
         NEW a \in Addr, n.state[a] = 0, NEW o, o = n.slab[n.idx],
         \A b \in Addr : n.state[b] # o,
         \A b \in Addr : n.state[b] # 0 => Apart(n, o, n.state[b]),
         n.storage[o] # 0 => n.maps[n.storage[o]] = NoMap
  PROVE  LET l == [n EXCEPT !.state[a] = o]
         IN  Sound(l) /\ CleanMaps(l) /\ SlotsCached(l) /\ l.state[a] = o /\ o # 0
<1> DEFINE l == [n EXCEPT !.state[a] = o]
<1>1. /\ n \in Journals /\ Owned(n) /\ MapsOwned(n) /\ SlotsOwned(n) /\ AccountCached(n)
  BY DEF Sound
<1>2. o \in ObjectIds /\ o # 0
  BY <1>1 DEF Journals, CacheOK
<1>3. /\ l.idx = n.idx /\ l.slab = n.slab /\ l.storage = n.storage
      /\ l.maps = n.maps /\ l.slots = n.slots /\ l.slotCache = n.slotCache
      /\ l.cachedAcc = n.cachedAcc /\ l.state = [n.state EXCEPT ![a] = o]
  BY <1>1 DEF Journals
<1>4. l \in Journals
  BY <1>1, <1>2, Zenon DEF Journals, Objects
<1> HIDE DEF l
<1>5. /\ l.state[a] = o
      /\ \A b \in Addr : b # a => l.state[b] = n.state[b]
      /\ \A b \in Addr : n.state[b] # 0 => b # a /\ l.state[b] = n.state[b]
  BY <1>1, <1>3 DEF Journals
<1>6. ASSUME NEW b \in Addr, NEW k \in Key PROVE At(l, b, k) = At(n, b, k)
  <2>1. CASE b = a
    <3>1. At(n, a, k) = 0
      BY DEF At
    <3>2. n.storage[o] \in MapIds \cup {0}
      BY <1>1, <1>2, Zenon DEF Journals
    <3>3. At(l, a, k) = IF n.storage[o] = 0 THEN 0 ELSE n.maps[n.storage[o]][k]
      BY <1>2, <1>3, <1>5, ZenonT(60) DEF At, SlotIn
    <3>4. At(l, a, k) = 0
      BY <3>3, ZenonT(30) DEF NoMap
    <3> QED
      BY <2>1, <3>1, <3>4
  <2>2. CASE b # a
    BY <1>3, <1>5, <2>2, ZenonT(30) DEF At, SlotIn
  <2> QED
    BY <2>1, <2>2
<1>7. Owned(l)
  <2>1. ASSUME NEW b \in Addr, NEW i \in DOMAIN l.slab, i > l.idx PROVE l.slab[i] # l.state[b]
    <3>1. n.slab[i] # n.state[b]
      BY <1>1, <1>3, <2>1 DEF Owned
    <3>2. i # n.idx
      BY <1>1, <1>3, <2>1 DEF Journals
    <3>3. n.slab[i] # o
      BY <1>1, <1>3, <2>1, <3>2 DEF Owned
    <3> QED
      BY <1>3, <1>5, <3>1, <3>3
  <2>2. ASSUME NEW b \in Addr, NEW c \in Addr, l.state[b] # 0, l.state[b] = l.state[c] PROVE b = c
    BY <1>1, <1>5, <2>2 DEF Owned
  <2> QED
    BY <1>1, <1>3, <2>1, <2>2 DEF Owned
<1>8. MapsOwned(l)
  <2>1. ASSUME NEW b \in Addr, NEW c \in Addr, b # c, l.state[b] # 0, l.state[c] # 0
        PROVE  Apart(l, l.state[b], l.state[c])
    <3>1. CASE b = a
      <4>1. Apart(n, o, n.state[c])
        BY <1>5, <2>1, <3>1
      <4> QED
        BY <1>3, <1>5, <2>1, <3>1, <4>1, ZenonT(30) DEF Apart
    <3>2. CASE c = a
      <4>1. Apart(n, o, n.state[b])
        BY <1>5, <2>1, <3>2
      <4> QED
        BY <1>3, <1>5, <2>1, <3>2, <4>1 DEF Apart
    <3>3. CASE b # a /\ c # a
      <4>1. Apart(n, n.state[b], n.state[c])
        BY <1>1, <1>5, <2>1, <3>3 DEF MapsOwned
      <4> QED
        BY <1>3, <1>5, <3>3, <4>1 DEF Apart
    <3> QED
      BY <3>1, <3>2, <3>3
  <2>2. ASSUME NEW b \in Addr, NEW i \in DOMAIN l.slab, i > l.idx, l.state[b] # 0
        PROVE  Apart(l, l.slab[i], l.state[b])
    <3>1. CASE b = a
      <4>1. i # n.idx
        BY <1>1, <1>3, <2>2 DEF Journals
      <4>2. Apart(n, n.slab[i], n.slab[n.idx])
        BY <1>1, <1>3, <2>2, <4>1 DEF MapsOwned
      <4> QED
        BY <1>3, <1>5, <3>1, <4>2 DEF Apart
    <3>2. CASE b # a
      <4>1. Apart(n, n.slab[i], n.state[b])
        BY <1>1, <1>3, <1>5, <2>2, <3>2 DEF MapsOwned
      <4> QED
        BY <1>3, <1>5, <3>2, <4>1 DEF Apart
    <3> QED
      BY <3>1, <3>2
  <2>3. ASSUME NEW i \in DOMAIN l.slab, NEW k \in DOMAIN l.slab, i # k
        PROVE  Apart(l, l.slab[i], l.slab[k])
    BY <1>1, <1>3, <2>3 DEF MapsOwned, Apart
  <2>4. \A i \in DOMAIN l.slab : i > l.idx /\ l.storage[l.slab[i]] # 0 =>
          l.maps[l.storage[l.slab[i]]] = NoMap
    BY <1>1, <1>3 DEF MapsOwned
  <2> QED
    BY <2>1, <2>2, <2>3, <2>4 DEF MapsOwned
<1>9. SlotsOwned(l)
  BY <1>1, <1>3, <1>6 DEF SlotsOwned
<1>10. AccountCached(l)
  BY <1>1, <1>3, <1>5 DEF AccountCached, Journals
<1>11. CleanMaps(l)
  BY <1>1, <1>3, <1>4, <1>5, <1>10, MapsStay, Zenon
<1>12. SlotsCached(l)
  BY <1>1, <1>3, <1>4, <1>6, SlotsStay
<1>13. Sound(l)
  BY <1>4, <1>7, <1>8, <1>9, <1>10 DEF Sound
<1> QED
  BY <1>2, <1>5, <1>11, <1>12, <1>13 DEF l

\* Loading an account.
LEMMA LoadedSound ==
  ASSUME CacheOK, NEW j, Sound(j), CleanObjects(j), CleanMaps(j), SlotsCached(j),
         NEW a \in Addr, NEW ok \in BOOLEAN, j.state[a] # 0 \/ j.idx < MaxSlab
  PROVE  LET l == Loaded(j, a, ok)
         IN  /\ Sound(l) /\ CleanMaps(l) /\ SlotsCached(l)
             /\ ok => IsLoaded(l, a)
<1> DEFINE n == Alloc(j)
           o == n.slab[n.idx]
           owner == [n EXCEPT !.state[a] = o]
<1>1. j \in Journals /\ AccountCached(j)
  BY DEF Sound
<1>2. Found(j, a) = j.state[a]
  BY <1>1, FoundIs
<1>3. CASE j.state[a] # 0
  <2>1. Loaded(j, a, ok) = CacheAccount(j, a, j.state[a])
    BY <1>2, <1>3 DEF Loaded, StateAccount
  <2> QED
    BY <1>3, <2>1, CacheAccountSound
<1>4. CASE j.state[a] = 0
  <2>1. /\ Sound(n) /\ CleanMaps(n) /\ n.idx \in DOMAIN n.slab
        /\ n.state = j.state /\ n.slotCache = j.slotCache
        /\ \A b \in Addr, k \in Key : At(n, b, k) = At(j, b, k)
        /\ \A b \in Addr : n.state[b] # o
        /\ \A b \in Addr : n.state[b] # 0 => Apart(n, o, n.state[b])
        /\ n.storage[o] # 0 => n.maps[n.storage[o]] = NoMap
    BY <1>4, AllocSound, ZenonT(30)
  <2>2. SlotsCached(n)
    <3> HIDE DEF n, o
    <3>1. n \in Journals
      BY <2>1 DEF Sound
    <3> QED
      BY <1>1, <2>1, <3>1, SlotsStay
  <2>3. Loaded(j, a, ok) = IF ok THEN CacheAccount(owner, a, o) ELSE n
    BY <1>2, <1>4 DEF Loaded
  <2> HIDE DEF n
  <2>4. CASE ok
    <3>1. Sound(owner) /\ CleanMaps(owner) /\ SlotsCached(owner) /\ owner.state[a] = o /\ o # 0
      BY <1>4, <2>1, <2>2, OwnerSound
    <3> HIDE DEF owner, o
    <3>2. LET l == CacheAccount(owner, a, owner.state[a])
          IN  Sound(l) /\ CleanMaps(l) /\ SlotsCached(l) /\ IsLoaded(l, a)
      BY <3>1, CacheAccountSound
    <3> QED
      BY <2>3, <2>4, <3>1, <3>2
  <2>5. CASE ~ok
    BY <2>1, <2>2, <2>3, <2>5
  <2> QED
    BY <2>4, <2>5
<1> QED
  BY <1>3, <1>4

-----------------------------------------------------------------------------
(***************************************************************************)
(* Storage.                                                                *)
(***************************************************************************)
\* A slot is that of one account and key.
LEMMA SlotsUnique ==
  ASSUME NEW j, SlotsOwned(j), NEW a \in Addr, NEW b \in Addr, NEW k \in Key, NEW l \in Key,
         At(j, a, k) # 0 /\ At(j, a, k) = At(j, b, l)
  PROVE  a = b /\ k = l
BY DEF SlotsOwned

\* Some accounts get new, empty maps.
LEMMA WithMapsSound ==
  ASSUME CacheOK, NEW j, Sound(j), CleanMaps(j), NEW objs, IsFiniteSet(objs),
         objs \subseteq ObjectIds, \A o \in objs : \E a \in Addr : o = j.state[a],
         Cardinality(objs) <= Cardinality(Addr)
  PROVE  LET w == WithMaps(j, objs)
         IN  /\ Sound(w) /\ w = [j EXCEPT !.storage = w.storage]
             /\ \A o \in objs : w.storage[o] \in MapIds
             /\ \A a \in Addr, k \in Key :
                  At(w, a, k) = IF j.state[a] \in objs THEN 0 ELSE At(j, a, k)
<1> DEFINE new == FreeMaps(j, objs)
           given == [o \in ObjectIds |-> IF o \in objs THEN new[o] ELSE j.storage[o]]
           w == WithMaps(j, objs)
<1>1. /\ j \in Journals /\ Owned(j) /\ MapsOwned(j) /\ SlotsOwned(j) /\ AccountCached(j)
  BY DEF Sound
<1>2. Len(j.slab) <= Largest
  BY <1>1 DEF Owned
<1>3. new \in [objs -> MapIds \ MapsReached(j)] /\ IsInjective(new)
  BY <1>1, <1>2, MapsAreFree
<1>4. w = [j EXCEPT !.storage = given]
  BY DEF WithMaps
<1> HIDE DEF new
<1>5. \A o, p \in objs : new[o] = new[p] => o = p
  BY <1>3 DEF IsInjective
<1>6. given \in [ObjectIds -> MapIds \cup {0}]
  BY <1>1, <1>3 DEF Journals
<1>7. \A o \in objs : given[o] = new[o] /\ given[o] \in MapIds \ MapsReached(j)
  BY <1>3
<1>8. \A o \in ObjectIds \ objs : given[o] = j.storage[o]
  OBVIOUS
<1> HIDE DEF given, w
<1>9. /\ w.idx = j.idx /\ w.slab = j.slab /\ w.state = j.state /\ w.storage = given
      /\ w.maps = j.maps /\ w.slots = j.slots /\ w.slotCache = j.slotCache
      /\ w.cachedAcc = j.cachedAcc /\ w \in Journals
  BY <1>1, <1>4, <1>6, Zenon DEF Journals
<1>10. \A a \in Addr : j.state[a] # 0 => j.state[a] \in ObjectIds /\ j.state[a] \in Reached(j) \ {0}
  BY <1>1 DEF Journals, Objects, Reached
<1>11. \A i \in DOMAIN j.slab : j.slab[i] \in ObjectIds /\ j.slab[i] \in Reached(j) \ {0}
  <2>1. \A i \in DOMAIN j.slab : j.slab[i] \in ObjectIds /\ j.slab[i] # 0
    BY <1>1 DEF Journals, CacheOK
  <2> QED
    BY <1>1, <2>1, ReachedIs
<1>12. \A o \in Reached(j) \ {0} : j.storage[o] \in MapsReached(j)
  BY DEF MapsReached
\* Two objects that are reached stay apart.
<1>13. ASSUME NEW o \in ObjectIds \cap (Reached(j) \ {0}), NEW p \in ObjectIds \cap (Reached(j) \ {0}),
              o # p, Apart(j, o, p)
       PROVE  Apart(w, o, p)
  <2>1. j.storage[o] \in MapsReached(j) /\ j.storage[p] \in MapsReached(j)
    BY <1>12
  <2>2. CASE o \in objs /\ p \in objs
    BY <1>5, <1>7, <1>9, <1>13, <2>2 DEF Apart
  <2>3. CASE o \in objs /\ p \notin objs
    BY <1>7, <1>8, <1>9, <2>1, <2>3 DEF Apart
  <2>4. CASE o \notin objs /\ p \in objs
    BY <1>7, <1>8, <1>9, <2>1, <2>4 DEF Apart
  <2>5. CASE o \notin objs /\ p \notin objs
    BY <1>8, <1>9, <1>13, <2>5 DEF Apart
  <2> QED
    BY <2>2, <2>3, <2>4, <2>5
<1>14. ASSUME NEW a \in Addr, NEW k \in Key
       PROVE  At(w, a, k) = IF j.state[a] \in objs THEN 0 ELSE At(j, a, k)
  <2>1. CASE j.state[a] \in objs
    <3>1. given[j.state[a]] \in MapIds \ MapsReached(j)
      BY <1>7, <2>1
    <3>2. j.maps[given[j.state[a]]] = NoMap
      BY <3>1 DEF CleanMaps
    <3>3. At(w, a, k) = 0
      BY <1>9, <3>1, <3>2 DEF At, SlotIn, NoMap
    <3> QED
      BY <2>1, <3>3
  <2>2. CASE j.state[a] \notin objs
    BY <1>8, <1>9, <1>10, <2>2 DEF At, SlotIn
  <2> QED
    BY <2>1, <2>2
<1>15. Owned(w)
  BY <1>1, <1>9 DEF Owned
<1>16. MapsOwned(w)
  <2>1. ASSUME NEW a \in Addr, NEW b \in Addr, a # b, w.state[a] # 0, w.state[b] # 0
        PROVE  Apart(w, w.state[a], w.state[b])
    <3>1. Apart(j, j.state[a], j.state[b]) /\ j.state[a] # j.state[b]
      BY <1>1, <1>9, <2>1 DEF MapsOwned, Owned
    <3> QED
      BY <1>9, <1>10, <1>13, <2>1, <3>1
  <2>2. ASSUME NEW i \in DOMAIN w.slab, NEW n \in DOMAIN w.slab, i # n
        PROVE  Apart(w, w.slab[i], w.slab[n])
    <3>1. Apart(j, j.slab[i], j.slab[n]) /\ j.slab[i] # j.slab[n]
      BY <1>1, <1>9, <2>2 DEF MapsOwned, Owned
    <3> QED
      BY <1>9, <1>11, <1>13, <2>2, <3>1
  <2>3. ASSUME NEW a \in Addr, NEW i \in DOMAIN w.slab, i > w.idx, w.state[a] # 0
        PROVE  Apart(w, w.slab[i], w.state[a])
    <3>1. Apart(j, j.slab[i], j.state[a]) /\ j.slab[i] # j.state[a]
      BY <1>1, <1>9, <2>3 DEF MapsOwned, Owned
    <3> QED
      BY <1>9, <1>10, <1>11, <1>13, <2>3, <3>1
  <2>4. ASSUME NEW i \in DOMAIN w.slab, i > w.idx, w.storage[w.slab[i]] # 0
        PROVE  w.maps[w.storage[w.slab[i]]] = NoMap
    <3>1. \A a \in Addr : j.slab[i] # j.state[a]
      BY <1>1, <1>9, <2>4 DEF Owned
    <3>2. j.slab[i] \notin objs
      BY <3>1
    <3>3. given[j.slab[i]] = j.storage[j.slab[i]]
      BY <1>8, <1>9, <1>11, <2>4, <3>2
    <3> QED
      BY <1>1, <1>9, <2>4, <3>3 DEF MapsOwned
  <2> QED
    BY <2>1, <2>2, <2>3, <2>4 DEF MapsOwned
<1>17. SlotsOwned(w)
  <2>1. \A a \in Addr, k \in Key : At(j, a, k) \in Nat /\ j.slots \in Nat
    BY <1>1, AtType, Zenon DEF Journals
  <2>2. \A a \in Addr : \A k \in Key : At(w, a, k) <= w.slots
    BY <1>1, <1>9, <1>14, <2>1 DEF SlotsOwned
  <2>3. ASSUME NEW a \in Addr, NEW b \in Addr, NEW k \in Key, NEW l \in Key,
               At(w, a, k) # 0, At(w, a, k) = At(w, b, l)
        PROVE  a = b /\ k = l
    <3>1. At(w, a, k) = At(j, a, k) /\ At(w, b, l) = At(j, b, l)
      BY <1>14, <2>3
    <3>2. At(j, a, k) # 0 /\ At(j, a, k) = At(j, b, l)
      BY <2>3, <3>1, Zenon
    <3> QED
      BY <1>1, <3>2, SlotsUnique
  <2> QED
    BY <2>2, <2>3 DEF SlotsOwned
<1>18. AccountCached(w)
  BY <1>1, <1>9 DEF AccountCached
<1>19. Sound(w)
  BY <1>9, <1>15, <1>16, <1>17, <1>18 DEF Sound
<1>20. w = [j EXCEPT !.storage = w.storage]
  BY <1>4, <1>9
<1>21. \A o \in objs : w.storage[o] \in MapIds
  BY <1>7, <1>9
<1> QED
  BY <1>14, <1>19, <1>20, <1>21 DEF w

\* EnsureStorage: the account has a map, and its slots are what they were.
LEMMA EnsuredSound ==
  ASSUME CacheOK, NEW j, Sound(j), CleanMaps(j), SlotsCached(j), NEW a \in Addr, IsLoaded(j, a)
  PROVE  LET e == StorageEnsured(j, j.state[a])
         IN  /\ Sound(e) /\ SlotsCached(e) /\ e.state = j.state
             /\ e.storage[e.state[a]] \in MapIds
             /\ \A b \in Addr, k \in Key : At(e, b, k) = At(j, b, k)
<1> DEFINE o == j.state[a]
           w == WithMaps(j, {o})
<1>1. /\ j \in Journals /\ Owned(j)
  BY DEF Sound
<1>2. o \in ObjectIds /\ o # 0
  BY <1>1 DEF Journals, Objects, IsLoaded
<1>3. CASE j.storage[o] # 0
  <2>1. StorageEnsured(j, o) = j
    BY <1>3 DEF StorageEnsured
  <2>2. j.storage[o] \in MapIds
    BY <1>1, <1>2, <1>3 DEF Journals
  <2> QED
    BY <2>1, <2>2
<1>4. CASE j.storage[o] = 0
  <2>1. StorageEnsured(j, o) = w
    BY <1>4 DEF StorageEnsured
  <2>2. IsFiniteSet({o}) /\ Cardinality({o}) = 1
    BY FS_Singleton, Zenon
  <2>3. IsFiniteSet(Addr) /\ Cardinality(Addr) \in Nat /\ Cardinality(Addr) # 0
    BY FS_CardinalityType, FS_EmptySet DEF CacheOK
  <2> DEFINE objs == {o}
  <2>4. /\ objs \subseteq ObjectIds /\ \A p \in objs : \E b \in Addr : p = j.state[b]
        /\ IsFiniteSet(objs) /\ Cardinality(objs) <= Cardinality(Addr) /\ w = WithMaps(j, objs)
    BY <1>2, <2>2, <2>3
  <2> HIDE DEF objs, w
  <2>5. /\ Sound(w) /\ w = [j EXCEPT !.storage = w.storage]
        /\ \A p \in objs : w.storage[p] \in MapIds
        /\ \A b \in Addr, k \in Key :
             At(w, b, k) = IF j.state[b] \in objs THEN 0 ELSE At(j, b, k)
    BY <2>4, WithMapsSound
  <2>6. /\ Sound(w) /\ w = [j EXCEPT !.storage = w.storage]
        /\ w.storage[o] \in MapIds
        /\ \A b \in Addr, k \in Key :
             At(w, b, k) = IF j.state[b] = o THEN 0 ELSE At(j, b, k)
    BY <2>5 DEF objs
  <2>7. w.state = j.state /\ w.slotCache = j.slotCache /\ w \in Journals
    BY <1>1, <2>6 DEF Journals, Sound
  <2>8. ASSUME NEW b \in Addr, NEW k \in Key PROVE At(w, b, k) = At(j, b, k)
    <3>1. CASE j.state[b] = o
      BY <1>4, <2>6, <3>1, ZenonT(30) DEF At, SlotIn
    <3>2. CASE j.state[b] # o
      BY <2>6, <3>2
    <3> QED
      BY <3>1, <3>2
  <2>9. SlotsCached(w)
    BY <1>1, <2>7, <2>8, SlotsStay
  <2> QED
    BY <2>1, <2>6, <2>7, <2>8, <2>9
<1> QED
  BY <1>3, <1>4

\* A slot from the arena, entered in the map of the object o.
NewSlot(e, o, k) == [e EXCEPT !.slots = @ + 1, !.maps[e.storage[o]][k] = e.slots + 1]

\* The next slot of the arena becomes that of key k.
LEMMA NewSlotSound ==
  ASSUME CacheOK, NEW e, Sound(e), SlotsCached(e), NEW a \in Addr, NEW k \in Key,
         e.state[a] # 0, e.storage[e.state[a]] \in MapIds, At(e, a, k) = 0
  PROVE  LET n == NewSlot(e, e.state[a], k)
         IN  /\ Sound(n) /\ SlotsCached(n) /\ n.slots = e.slots + 1 /\ At(n, a, k) = n.slots
<1> DEFINE o == e.state[a]
           m == e.storage[o]
           n == NewSlot(e, o, k)
<1>1. /\ e \in Journals /\ Owned(e) /\ MapsOwned(e) /\ SlotsOwned(e) /\ AccountCached(e)
  BY DEF Sound
<1>2. o \in ObjectIds /\ e.slots \in Nat /\ m \in MapIds /\ m # 0
  BY <1>1 DEF Journals, Objects, CacheOK
<1>3. /\ n.idx = e.idx /\ n.slab = e.slab /\ n.state = e.state /\ n.storage = e.storage
      /\ n.slots = e.slots + 1 /\ n.slotCache = e.slotCache /\ n.cachedAcc = e.cachedAcc
  BY <1>1 DEF NewSlot, Journals
<1>4. /\ n.maps \in [MapIds -> [Key -> Nat]]
      /\ n.maps[m][k] = e.slots + 1
      /\ \A l \in Key : l # k => n.maps[m][l] = e.maps[m][l]
      /\ \A x \in MapIds : x # m => n.maps[x] = e.maps[x]
  <2>1. n.maps = [e.maps EXCEPT ![m] = [e.maps[m] EXCEPT ![k] = e.slots + 1]]
    BY <1>1 DEF NewSlot, Journals
  <2>2. e.maps \in [MapIds -> [Key -> Nat]] /\ e.slots + 1 \in Nat
    BY <1>1, <1>2 DEF Journals
  <2> HIDE DEF n, m
  <2> QED
    BY <1>2, <2>1, <2>2
<1>5. n \in Journals
  <2>1. n = [e EXCEPT !.slots = n.slots, !.maps = n.maps]
    BY <1>1 DEF NewSlot, Journals
  <2>2. n.slots \in Nat
    BY <1>2, <1>3
  <2> HIDE DEF n
  <2> QED
    BY <1>1, <1>4, <2>1, <2>2, Zenon DEF Journals
<1> HIDE DEF n
<1>6. /\ n.maps[m][k] = e.slots + 1
      /\ \A l \in Key : l # k => n.maps[m][l] = e.maps[m][l]
      /\ \A x \in MapIds : x # m => n.maps[x] = e.maps[x]
  BY <1>4, Zenon
<1>7. At(n, a, k) = e.slots + 1
  BY <1>2, <1>3, <1>6, Zenon DEF At, SlotIn
<1>8. ASSUME NEW b \in Addr, NEW l \in Key, b # a \/ l # k PROVE At(n, b, l) = At(e, b, l)
  <2>1. CASE b = a
    <3>1. l # k /\ m # 0 /\ n.state[b] = o /\ e.state[b] = o /\ o # 0
      BY <1>2, <1>3, <1>8, <2>1
    <3>2. n.storage[o] = m /\ e.storage[o] = m /\ n.maps[m][l] = e.maps[m][l]
      BY <1>3, <1>6, <3>1, Zenon
    <3> HIDE DEF m, o
    <3>3. SlotIn(n, o, l) = n.maps[m][l] /\ SlotIn(e, o, l) = e.maps[m][l]
      BY <3>1, <3>2 DEF SlotIn
    <3> QED
      BY <3>1, <3>2, <3>3 DEF At
  <2>2. CASE b # a /\ e.state[b] # 0
    <3>1. Apart(e, e.state[b], o)
      BY <1>1, <2>2 DEF MapsOwned
    <3>2. e.storage[e.state[b]] \in MapIds \cup {0}
      BY <1>1, <2>2 DEF Journals, Objects
    <3> QED
      BY <1>3, <1>6, <2>2, <3>1, <3>2, ZenonT(60) DEF At, SlotIn, Apart
  <2>3. CASE e.state[b] = 0
    BY <1>3, <2>3 DEF At
  <2> QED
    BY <2>1, <2>2, <2>3
<1>9. \A b \in Addr, l \in Key : At(e, b, l) \in Nat /\ At(e, b, l) <= e.slots
  BY <1>1, AtType DEF SlotsOwned
<1>10. Owned(n)
  BY <1>1, <1>3 DEF Owned
<1>11. MapsOwned(n)
  <2>1. ASSUME NEW i \in DOMAIN n.slab, i > n.idx, n.storage[n.slab[i]] # 0
        PROVE  n.maps[n.storage[n.slab[i]]] = NoMap
    <3>1. Apart(e, e.slab[i], o)
      BY <1>1, <1>3, <2>1 DEF MapsOwned
    <3>2. e.storage[e.slab[i]] \in MapIds /\ e.storage[e.slab[i]] # m
      <4>1. e.slab[i] \in ObjectIds
        BY <1>1, <1>3, <2>1 DEF Journals
      <4>2. e.storage[e.slab[i]] \in MapIds \cup {0}
        BY <1>1, <4>1 DEF Journals
      <4> QED
        BY <1>3, <2>1, <3>1, <4>2 DEF Apart
    <3>3. e.maps[e.storage[e.slab[i]]] = NoMap
      BY <1>1, <1>3, <2>1 DEF MapsOwned
    <3> QED
      BY <1>3, <1>6, <3>2, <3>3, ZenonT(60)
  <2>2. /\ \A b, c \in Addr : b # c /\ n.state[b] # 0 /\ n.state[c] # 0 =>
             Apart(n, n.state[b], n.state[c])
        /\ \A i, l \in DOMAIN n.slab : i # l => Apart(n, n.slab[i], n.slab[l])
        /\ \A b \in Addr : \A i \in DOMAIN n.slab : i > n.idx /\ n.state[b] # 0 =>
             Apart(n, n.slab[i], n.state[b])
    BY <1>1, <1>3 DEF MapsOwned, Apart
  <2> QED
    BY <2>1, <2>2 DEF MapsOwned
<1>12. SlotsOwned(n)
  <2>1. ASSUME NEW b \in Addr, NEW l \in Key PROVE At(n, b, l) <= n.slots
    <3>1. CASE b = a /\ l = k
      BY <1>2, <1>3, <1>7, <3>1
    <3>2. CASE b # a \/ l # k
      <4>1. At(n, b, l) = At(e, b, l) /\ At(e, b, l) \in Nat /\ At(e, b, l) <= e.slots
        BY <1>8, <1>9, <3>2
      <4> QED
        BY <1>2, <1>3, <4>1
    <3> QED
      BY <3>1, <3>2
  <2>2. ASSUME NEW b \in Addr, NEW c \in Addr, NEW l \in Key, NEW q \in Key,
               At(n, b, l) # 0, At(n, b, l) = At(n, c, q)
        PROVE  b = c /\ l = q
    <3>1. CASE (b = a /\ l = k) /\ (c # a \/ q # k)
      <4>1. At(n, c, q) = At(e, c, q) /\ At(e, c, q) \in Nat /\ At(e, c, q) <= e.slots
        BY <1>8, <1>9, <3>1
      <4> QED
        BY <1>2, <1>7, <2>2, <3>1, <4>1
    <3>2. CASE (c = a /\ q = k) /\ (b # a \/ l # k)
      <4>1. At(n, b, l) = At(e, b, l) /\ At(e, b, l) \in Nat /\ At(e, b, l) <= e.slots
        BY <1>8, <1>9, <3>2
      <4> QED
        BY <1>2, <1>7, <2>2, <3>2, <4>1
    <3>3. CASE (c # a \/ q # k) /\ (b # a \/ l # k)
      <4>1. At(n, b, l) = At(e, b, l) /\ At(n, c, q) = At(e, c, q)
        BY <1>8, <3>3
      <4>2. At(e, b, l) # 0 /\ At(e, b, l) = At(e, c, q)
        BY <2>2, <4>1, Zenon
      <4> QED
        BY <1>1, <4>2, SlotsUnique
    <3> QED
      BY <3>1, <3>2, <3>3
  <2> QED
    BY <2>1, <2>2 DEF SlotsOwned
<1>13. AccountCached(n)
  BY <1>1, <1>3 DEF AccountCached
<1>14. SlotsCached(n)
  <2>1. ASSUME NEW i \in DOMAIN n.slotCache.entries
        PROVE  LET x == n.slotCache.entries[i]
               IN  x.slot # 0 /\ At(n, n.slotCache.addr, x.key) = x.slot
    <3> DEFINE x == n.slotCache.entries[i]
               b == n.slotCache.addr
    <3>1. x.key \in Key /\ b \in Addr
      BY <1>5, EntriesType
    <3>2. x.slot # 0 /\ At(e, b, x.key) = x.slot
      BY <1>3 DEF SlotsCached
    <3> HIDE DEF x, b
    <3>3. b # a \/ x.key # k
      BY <3>2
    <3>4. At(n, b, x.key) = At(e, b, x.key)
      BY <1>8, <3>1, <3>3
    <3> QED
      BY <3>2, <3>4 DEF x, b
  <2> QED
    BY <2>1 DEF SlotsCached
<1>15. Sound(n)
  BY <1>5, <1>10, <1>11, <1>12, <1>13 DEF Sound
<1> QED
  BY <1>3, <1>7, <1>14, <1>15 DEF n

\* The slot cache remembers a slot that the maps have.
LEMMA CacheSlotSound ==
  ASSUME CacheOK, NEW j, Sound(j), SlotsCached(j), NEW a \in Addr, NEW k \in Key,
         NEW s \in Nat \ {0}, At(j, a, k) = s
  PROVE  Sound(CacheSlot(j, a, k, s)) /\ SlotsCached(CacheSlot(j, a, k, s))
<1> DEFINE c == j.slotCache.entries
           e == [key |-> k, slot |-> s]
           same == {i \in DOMAIN c : c[i].key = k}
           cached == IF j.slotCache.addr # a \/ c = <<>> THEN <<e>>
                       ELSE IF same # {} THEN [i \in DOMAIN c |-> IF i \in same THEN e ELSE c[i]]
                       ELSE <<c[1], e>>
           entry == [key : Key, slot : Nat]
           l == CacheSlot(j, a, k, s)
<1>1. /\ j \in Journals /\ Owned(j) /\ MapsOwned(j) /\ SlotsOwned(j) /\ AccountCached(j)
  BY DEF Sound
<1>2. c \in Seq(entry) /\ j.slotCache.addr \in Addr /\ e \in entry
  BY <1>1, EntriesType, Zenon
\* An entry is the new one, or one that was there for the same address.
<1>3. /\ cached \in Seq(entry)
      /\ \A i \in DOMAIN cached :
           \/ cached[i] = e
           \/ j.slotCache.addr = a /\ \E n \in DOMAIN c : cached[i] = c[n]
  <2> HIDE DEF c, e, entry
  <2>1. CASE j.slotCache.addr # a \/ c = <<>>
    BY <1>2, <2>1
  <2>2. CASE ~(j.slotCache.addr # a \/ c = <<>>) /\ same # {}
    <3> DEFINE d == [i \in DOMAIN c |-> IF i \in same THEN e ELSE c[i]]
    <3>1. cached = d
      BY <2>2
    <3>2. DOMAIN c = 1 .. Len(c) /\ Len(c) \in Nat /\ \A i \in DOMAIN c : c[i] \in entry
      BY <1>2
    <3> HIDE DEF same
    <3>3. d \in Seq(entry)
      BY <1>2, <3>2
    <3>4. \A i \in DOMAIN d : d[i] = e \/ (i \in DOMAIN c /\ d[i] = c[i])
      OBVIOUS
    <3> HIDE DEF d, cached
    <3> QED
      BY <2>2, <3>1, <3>3, <3>4
  <2>3. CASE ~(j.slotCache.addr # a \/ c = <<>>) /\ same = {}
    <3>1. 1 \in DOMAIN c /\ c[1] \in entry
      BY <1>2, <2>3
    <3>2. cached = <<c[1], e>>
      BY <2>3
    <3> HIDE DEF cached
    <3>3. cached \in Seq(entry)
      BY <1>2, <3>1, <3>2
    <3>4. DOMAIN cached = {1, 2} /\ cached[1] = c[1] /\ cached[2] = e
      BY <3>2
    <3> QED
      BY <2>3, <3>1, <3>3, <3>4
  <2> QED
    BY <2>1, <2>2, <2>3, Zenon
<1>4. l = [j EXCEPT !.slotCache = [addr |-> a, entries |-> cached]]
  <2>1. CASE j.slotCache.addr # a \/ c = <<>>
    BY <2>1 DEF CacheSlot
  <2>2. CASE ~(j.slotCache.addr # a \/ c = <<>>)
    <3>1. l = [j EXCEPT !.slotCache.entries = cached]
      BY <2>2 DEF CacheSlot
    <3>2. j.slotCache = [addr |-> a, entries |-> c]
      BY <1>1, <2>2 DEF Journals
    <3> HIDE DEF cached, c, l
    <3> QED
      BY <1>1, <3>1, <3>2, SMTT(30) DEF Journals
  <2> QED
    BY <2>1, <2>2
<1> HIDE DEF cached, l
<1>5. /\ l.idx = j.idx /\ l.slab = j.slab /\ l.state = j.state /\ l.storage = j.storage
      /\ l.maps = j.maps /\ l.slots = j.slots /\ l.cachedAcc = j.cachedAcc
      /\ l.slotCache = [addr |-> a, entries |-> cached] /\ l \in Journals
  BY <1>1, <1>3, <1>4, Zenon DEF Journals
<1>6. \A b \in Addr, q \in Key : At(l, b, q) = At(j, b, q)
  BY <1>5 DEF At, SlotIn
<1>7. Owned(l)
  BY <1>1, <1>5 DEF Owned
<1>8. MapsOwned(l)
  BY <1>1, <1>5 DEF MapsOwned, Apart
<1>9. SlotsOwned(l)
  BY <1>1, <1>5, <1>6 DEF SlotsOwned
<1>10. AccountCached(l)
  BY <1>1, <1>5 DEF AccountCached
<1>11. SlotsCached(l)
  <2>1. ASSUME NEW i \in DOMAIN cached
        PROVE  cached[i].slot # 0 /\ At(l, a, cached[i].key) = cached[i].slot
    <3>1. CASE cached[i] = e
      BY <1>6, <3>1
    <3>2. CASE j.slotCache.addr = a /\ \E n \in DOMAIN c : cached[i] = c[n]
      <4>1. PICK n \in DOMAIN c : cached[i] = c[n]
        BY <3>2
      <4>2. c[n].slot # 0 /\ At(j, a, c[n].key) = c[n].slot
        BY <3>2 DEF SlotsCached
      <4>3. c[n].key \in Key
        BY <1>1, EntriesType
      <4> QED
        BY <1>6, <4>1, <4>2, <4>3
    <3> QED
      BY <1>3, <3>1, <3>2
  <2>2. l.slotCache.addr = a /\ l.slotCache.entries = cached
    BY <1>5
  <2> QED
    BY <2>1, <2>2 DEF SlotsCached
<1>12. Sound(l)
  BY <1>5, <1>7, <1>8, <1>9, <1>10 DEF Sound
<1> QED
  BY <1>11, <1>12 DEF l

\* What a method leaves behind, without what nothing points to any more.
Swept(j) ==
  [j EXCEPT !.storage = [o \in ObjectIds |-> IF o \in Reached(j) THEN j.storage[o] ELSE 0],
            !.maps = [m \in MapIds |-> IF m \in MapsReached(j) THEN j.maps[m] ELSE NoMap]]

\* Dropping what nothing points to changes nothing that can be seen.
LEMMA SweptSound ==
  ASSUME CacheOK, NEW j, Sound(j), SlotsCached(j)
  PROVE  LET s == Swept(j)
         IN  Sound(s) /\ SlotsCached(s) /\ CleanObjects(s) /\ CleanMaps(s)
<1> DEFINE s == Swept(j)
           kept == [o \in ObjectIds |-> IF o \in Reached(j) THEN j.storage[o] ELSE 0]
           left == [m \in MapIds |-> IF m \in MapsReached(j) THEN j.maps[m] ELSE NoMap]
<1>1. /\ j \in Journals /\ Owned(j) /\ MapsOwned(j) /\ SlotsOwned(j) /\ AccountCached(j)
  BY DEF Sound
<1>2. kept \in [ObjectIds -> MapIds \cup {0}]
  BY <1>1 DEF Journals
<1>3. left \in [MapIds -> [Key -> Nat]]
  BY <1>1 DEF Journals, NoMap
<1>4. s = [j EXCEPT !.storage = kept, !.maps = left]
  BY DEF Swept
<1>5. /\ \A o \in ObjectIds : kept[o] = IF o \in Reached(j) THEN j.storage[o] ELSE 0
      /\ \A m \in MapIds : left[m] = IF m \in MapsReached(j) THEN j.maps[m] ELSE NoMap
  OBVIOUS
<1> HIDE DEF kept, left, s
<1>6. /\ s.idx = j.idx /\ s.slab = j.slab /\ s.state = j.state /\ s.storage = kept
      /\ s.maps = left /\ s.slots = j.slots /\ s.cachedAcc = j.cachedAcc
      /\ s.slotCache = j.slotCache /\ s \in Journals
  BY <1>1, <1>2, <1>3, <1>4, Zenon DEF Journals
<1>7. Reached(s) = Reached(j)
  BY <1>6 DEF Reached
<1>8. \A o \in Reached(j) \ {0} :
        o \in ObjectIds /\ kept[o] = j.storage[o] /\ j.storage[o] \in MapsReached(j)
  BY <1>1, <1>5, ReachedIs DEF MapsReached
<1>9. MapsReached(s) = MapsReached(j)
  BY <1>6, <1>7, <1>8 DEF MapsReached
<1>10. \A o \in Reached(j) \ {0} : kept[o] # 0 => left[kept[o]] = j.maps[j.storage[o]]
  <2>1. \A o \in Reached(j) \ {0} : j.storage[o] \in MapIds \cup {0}
    BY <1>1, <1>8 DEF Journals
  <2> QED
    BY <1>5, <1>8, <2>1
<1>11. \A a \in Addr : j.state[a] # 0 => j.state[a] \in Reached(j) \ {0}
  BY DEF Reached
<1>12. \A i \in DOMAIN j.slab : j.slab[i] \in Reached(j) \ {0}
  <2>1. \A i \in DOMAIN j.slab : j.slab[i] \in ObjectIds /\ j.slab[i] # 0
    BY <1>1 DEF Journals, CacheOK
  <2> QED
    BY <1>1, <2>1, ReachedIs
<1>13. ASSUME NEW a \in Addr, NEW k \in Key PROVE At(s, a, k) = At(j, a, k)
  <2>1. CASE j.state[a] = 0
    BY <1>6, <2>1 DEF At
  <2>2. CASE j.state[a] # 0
    <3>1. kept[j.state[a]] = j.storage[j.state[a]]
      BY <1>8, <1>11, <2>2
    <3>2. kept[j.state[a]] # 0 => left[kept[j.state[a]]] = j.maps[j.storage[j.state[a]]]
      BY <1>10, <1>11, <2>2
    <3> QED
      BY <1>6, <2>2, <3>1, <3>2 DEF At, SlotIn
  <2> QED
    BY <2>1, <2>2
<1>14. ASSUME NEW o \in Reached(j) \ {0}, NEW p \in Reached(j) \ {0}, Apart(j, o, p)
       PROVE  Apart(s, o, p)
  BY <1>6, <1>8, <1>14 DEF Apart
<1>15. Owned(s)
  BY <1>1, <1>6 DEF Owned
<1>16. MapsOwned(s)
  <2>1. ASSUME NEW a \in Addr, NEW b \in Addr, a # b, s.state[a] # 0, s.state[b] # 0
        PROVE  Apart(s, s.state[a], s.state[b])
    <3>1. Apart(j, j.state[a], j.state[b])
      BY <1>1, <1>6, <2>1 DEF MapsOwned
    <3> QED
      BY <1>6, <1>11, <1>14, <2>1, <3>1
  <2>2. ASSUME NEW i \in DOMAIN s.slab, NEW n \in DOMAIN s.slab, i # n
        PROVE  Apart(s, s.slab[i], s.slab[n])
    <3>1. Apart(j, j.slab[i], j.slab[n])
      BY <1>1, <1>6, <2>2 DEF MapsOwned
    <3> QED
      BY <1>6, <1>12, <1>14, <2>2, <3>1
  <2>3. ASSUME NEW a \in Addr, NEW i \in DOMAIN s.slab, i > s.idx, s.state[a] # 0
        PROVE  Apart(s, s.slab[i], s.state[a])
    <3>1. Apart(j, j.slab[i], j.state[a])
      BY <1>1, <1>6, <2>3 DEF MapsOwned
    <3> QED
      BY <1>6, <1>11, <1>12, <1>14, <2>3, <3>1
  <2>4. ASSUME NEW i \in DOMAIN s.slab, i > s.idx, s.storage[s.slab[i]] # 0
        PROVE  s.maps[s.storage[s.slab[i]]] = NoMap
    <3>1. j.slab[i] \in Reached(j) \ {0} /\ kept[j.slab[i]] # 0
      BY <1>6, <1>12, <2>4
    <3>2. kept[j.slab[i]] = j.storage[j.slab[i]]
      BY <1>8, <3>1
    <3>3. left[kept[j.slab[i]]] = j.maps[j.storage[j.slab[i]]]
      BY <1>10, <3>1
    <3>4. j.maps[j.storage[j.slab[i]]] = NoMap
      BY <1>1, <1>6, <2>4, <3>1, <3>2 DEF MapsOwned
    <3> QED
      BY <1>6, <3>3, <3>4
  <2> QED
    BY <2>1, <2>2, <2>3, <2>4 DEF MapsOwned
<1>17. SlotsOwned(s)
  BY <1>1, <1>6, <1>13 DEF SlotsOwned
<1>18. AccountCached(s)
  BY <1>1, <1>6 DEF AccountCached
<1>19. SlotsCached(s)
  BY <1>1, <1>6, <1>13, SlotsStay
<1>20. CleanObjects(s)
  BY <1>5, <1>6, <1>7 DEF CleanObjects
<1>21. CleanMaps(s)
  BY <1>5, <1>6, <1>9 DEF CleanMaps
<1>22. Sound(s)
  BY <1>6, <1>15, <1>16, <1>17, <1>18 DEF Sound
<1> QED
  BY <1>19, <1>20, <1>21, <1>22 DEF s

\* Journals without cached pointers.
LEMMA DroppedSound ==
  ASSUME CacheOK, NEW j, j \in Journals, Owned(j), MapsOwned(j), SlotsOwned(j)
  PROVE  Sound(DropCaches(j)) /\ SlotsCached(DropCaches(j))
<1> DEFINE d == DropCaches(j)
<1>1. /\ NoAccount \in [addr : Addr, obj : Objects]
      /\ NoSlots \in [addr : Addr, entries : Seq([key : Key, slot : Nat])]
  BY DEF NoAccount, NoSlots, CacheOK, Objects
<1>2. NoAccount.obj = 0 /\ DOMAIN NoSlots.entries = {}
  BY DEF NoAccount, NoSlots
<1>3. d = [j EXCEPT !.cachedAcc = NoAccount, !.slotCache = NoSlots]
  BY DEF DropCaches
<1> HIDE DEF d
<1>4. /\ d.idx = j.idx /\ d.slab = j.slab /\ d.state = j.state /\ d.storage = j.storage
      /\ d.maps = j.maps /\ d.slots = j.slots /\ d.cachedAcc = NoAccount
      /\ d.slotCache = NoSlots /\ d \in Journals
  BY <1>1, <1>3, Zenon DEF Journals
<1>5. \A b \in Addr, k \in Key : At(d, b, k) = At(j, b, k)
  BY <1>4 DEF At, SlotIn
<1>6. Owned(d)
  BY <1>4 DEF Owned
<1>7. MapsOwned(d)
  BY <1>4 DEF MapsOwned, Apart
<1>8. SlotsOwned(d)
  BY <1>4, <1>5 DEF SlotsOwned
<1>9. AccountCached(d) /\ SlotsCached(d)
  BY <1>2, <1>4 DEF AccountCached, SlotsCached
<1>10. Sound(d)
  BY <1>4, <1>6, <1>7, <1>8, <1>9 DEF Sound
<1> QED
  BY <1>9, <1>10 DEF d

-----------------------------------------------------------------------------
(***************************************************************************)
(* The inductive invariant.                                                *)
(***************************************************************************)
\* A journal between two calls.
Ready(j) == Sound(j) /\ SlotsCached(j) /\ CleanObjects(j) /\ CleanMaps(j)
CacheInv == Ready(Now) /\ doomed \subseteq Addr

\* The invariant says what the property says.
LEMMA InvPointers ==
  ASSUME CacheOK, CacheInv
  PROVE  PointersValid
<1> DEFINE j == Now
<1>1. /\ j \in Journals /\ Owned(j) /\ MapsOwned(j) /\ SlotsOwned(j) /\ AccountCached(j)
      /\ SlotsCached(j)
  BY DEF CacheInv, Ready, Sound
<1>2. /\ j.state = state /\ j.storage = storage /\ j.maps = maps /\ j.cachedAcc = cachedAcc
      /\ j.slotCache = slotCache
  BY DEF Now
<1> HIDE DEF j
<1>3. ASSUME NEW a \in Addr, NEW k \in Key PROVE SlotOf(a, k) = At(j, a, k)
  BY <1>2 DEF SlotOf, At, SlotIn
<1>4. cachedAcc.obj # 0 => state[cachedAcc.addr] = cachedAcc.obj
  BY <1>1, <1>2 DEF AccountCached
<1>5. ASSUME NEW i \in DOMAIN slotCache.entries
      PROVE  LET e == slotCache.entries[i] IN SlotOf(slotCache.addr, e.key) = e.slot
  <2> DEFINE e == slotCache.entries[i]
  <2>1. slotCache.addr \in Addr /\ e.key \in Key
    BY <1>1, <1>2, EntriesType
  <2>2. At(j, slotCache.addr, e.key) = e.slot
    BY <1>1, <1>2 DEF SlotsCached
  <2> HIDE DEF e
  <2>3. SlotOf(slotCache.addr, e.key) = e.slot
    BY <1>3, <2>1, <2>2
  <2> QED
    BY <2>3 DEF e
<1>6. ASSUME NEW a \in Addr, NEW b \in Addr, a # b, state[a] # 0
      PROVE  /\ state[a] # state[b]
             /\ state[b] # 0 /\ storage[state[a]] # 0 => storage[state[a]] # storage[state[b]]
  <2>1. state[a] # state[b]
    BY <1>1, <1>2, <1>6 DEF Owned
  <2>2. state[b] # 0 => Apart(j, state[a], state[b])
    BY <1>1, <1>2, <1>6 DEF MapsOwned
  <2> QED
    BY <1>2, <2>1, <2>2 DEF Apart
<1>7. ASSUME NEW p \in Addr \X Key, NEW q \in Addr \X Key, SlotOf(p[1], p[2]) # 0, p # q
      PROVE  SlotOf(p[1], p[2]) # SlotOf(q[1], q[2])
  <2>1. p[1] \in Addr /\ p[2] \in Key /\ q[1] \in Addr /\ q[2] \in Key
    BY <1>7
  <2>2. p = <<p[1], p[2]>> /\ q = <<q[1], q[2]>>
    BY <1>7
  <2>3. p[1] # q[1] \/ p[2] # q[2]
    BY <1>7, <2>2
  <2>4. SlotOf(p[1], p[2]) = At(j, p[1], p[2]) /\ SlotOf(q[1], q[2]) = At(j, q[1], q[2])
    BY <1>3, <2>1
  <2>5. At(j, p[1], p[2]) # 0
    BY <1>7, <2>4
  <2>6. At(j, p[1], p[2]) # At(j, q[1], q[2])
    BY <1>1, <2>1, <2>3, <2>5, SlotsUnique
  <2> QED
    BY <2>4, <2>6
<1> HIDE DEF SlotOf
<1> QED
  BY <1>4, <1>5, <1>6, <1>7 DEF PointersValid

\* The journal as it is made.
LEMMA InitReady ==
  ASSUME CacheOK, CacheInit
  PROVE  CacheInv
<1> DEFINE j == Now
<1>1. /\ NoAccount \in [addr : Addr, obj : Objects] /\ NoAccount.obj = 0
      /\ NoSlots \in [addr : Addr, entries : Seq([key : Key, slot : Nat])]
      /\ DOMAIN NoSlots.entries = {}
  BY DEF NoAccount, NoSlots, CacheOK, Objects
<1>2. /\ j.state = [a \in Addr |-> 0] /\ j.storage = [o \in ObjectIds |-> 0]
      /\ j.maps = [m \in MapIds |-> NoMap] /\ j.slab = <<>> /\ j.idx = 0 /\ j.slots = 0
      /\ j.cachedAcc = NoAccount /\ j.slotCache = NoSlots
  BY DEF CacheInit, Now
<1>3. j \in Journals
  <2>1. [m \in MapIds |-> NoMap] \in [MapIds -> [Key -> Nat]]
    BY DEF NoMap
  <2> QED
    BY <1>1, <2>1 DEF CacheInit, Now, Journals, Objects
<1> HIDE DEF j
<1>4. Len(j.slab) = 0 /\ DOMAIN j.slab = {} /\ 0 <= Largest
  BY <1>2 DEF Largest, CacheOK
<1>5. \A a \in Addr : j.state[a] = 0 /\ \A k \in Key : At(j, a, k) = 0
  BY <1>2 DEF At
<1>6. Owned(j)
  BY <1>2, <1>4, <1>5 DEF Owned
<1>7. MapsOwned(j)
  BY <1>4, <1>5 DEF MapsOwned
<1>8. SlotsOwned(j)
  BY <1>2, <1>5 DEF SlotsOwned
<1>9. AccountCached(j) /\ SlotsCached(j)
  BY <1>1, <1>2 DEF AccountCached, SlotsCached
<1>10. CleanObjects(j) /\ CleanMaps(j)
  BY <1>2 DEF CleanObjects, CleanMaps
<1>11. Ready(j)
  BY <1>3, <1>6, <1>7, <1>8, <1>9, <1>10 DEF Ready, Sound
<1>12. doomed \subseteq Addr
  BY DEF CacheInit
<1> QED
  BY <1>11, <1>12 DEF CacheInv, j

\* Every method ends in Becomes.
LEMMA BecomesReady ==
  ASSUME CacheOK, NEW j, Sound(j), SlotsCached(j), Becomes(j), doomed' \subseteq Addr
  PROVE  CacheInv'
<1>1. j \in Journals
  BY DEF Sound
<1> DEFINE kept == [o \in ObjectIds |-> IF o \in Reached(j) THEN j.storage[o] ELSE 0]
           left == [m \in MapIds |-> IF m \in MapsReached(j) THEN j.maps[m] ELSE NoMap]
<1>2. Now' = Swept(j)
  <2>1. /\ state' = j.state /\ slab' = j.slab /\ idx' = j.idx /\ slots' = j.slots
        /\ cachedAcc' = j.cachedAcc /\ slotCache' = j.slotCache
    BY DEF Becomes
  <2>2. storage' = kept /\ maps' = left
    BY DEF Becomes
  <2>3. Swept(j) = [j EXCEPT !.storage = kept, !.maps = left]
    BY DEF Swept
  <2>4. Now' = [state |-> state', storage |-> storage', maps |-> maps', slab |-> slab',
                idx |-> idx', slots |-> slots', cachedAcc |-> cachedAcc',
                slotCache |-> slotCache']
    BY DEF Now
  <2> HIDE DEF kept, left
  <2> QED
    BY <1>1, <2>1, <2>2, <2>3, <2>4, Zenon DEF Journals
<1>3. Ready(Swept(j))
  BY SweptSound DEF Ready
<1>4. Ready(Now)' <=> Ready(Now')
  OBVIOUS
<1> QED
  BY <1>2, <1>3, <1>4 DEF CacheInv

\* The state and the account cache as the variables have them.
LEMMA NowIs ==
  ASSUME CacheInv
  PROVE  /\ Now \in Journals /\ Sound(Now) /\ SlotsCached(Now) /\ CleanObjects(Now)
         /\ CleanMaps(Now) /\ Now.state = state /\ Now.idx = idx
         /\ \A a \in Addr : Found(Now, a) = state[a]
<1>1. /\ Now \in Journals /\ Sound(Now) /\ SlotsCached(Now) /\ CleanObjects(Now)
      /\ CleanMaps(Now) /\ AccountCached(Now)
  BY DEF CacheInv, Ready, Sound
<1>2. Now.state = state /\ Now.idx = idx
  BY DEF Now
<1> QED
  BY <1>1, <1>2, FoundIs

\* A method that loads an account first.
LEMMA LoadReady ==
  ASSUME CacheOK, CacheInv, NEW a \in Addr, NEW ok \in BOOLEAN, CanLoad(a)
  PROVE  LET l == Loaded(Now, a, ok)
         IN  Sound(l) /\ CleanMaps(l) /\ SlotsCached(l) /\ (ok => IsLoaded(l, a))
<1>1. Now.state[a] # 0 \/ Now.idx < MaxSlab
  BY NowIs DEF CanLoad
<1> QED
  BY <1>1, NowIs, LoadedSound

\* SLOAD and SSTORE.
LEMMA SlotReady ==
  ASSUME CacheOK, CacheInv, NEW a \in Addr, NEW k \in Key, NEW bad, Slot(a, k, bad)
  PROVE  CacheInv'
<1> DEFINE j == Loaded(Now, a, TRUE)
           o == j.cachedAcc.obj
           old == SlotIn(j, o, k)
           e == StorageEnsured(j, o)
           n == NewSlot(e, o, k)
           r == IF Hit(j, a, k) THEN j
                  ELSE IF old # 0 THEN CacheSlot(j, a, k, old)
                  ELSE IF bad = "Slot" THEN j
                  ELSE CacheSlot(n, a, k, n.slots)
<1>1. CanLoad(a) /\ Becomes(r) /\ doomed' = doomed
  BY Zenon DEF Slot, NewSlot
<1>2. Sound(j) /\ CleanMaps(j) /\ SlotsCached(j) /\ IsLoaded(j, a)
  BY <1>1, LoadReady, Zenon
<1> HIDE DEF j
<1>3. j \in Journals /\ o = j.state[a] /\ o # 0
  BY <1>2 DEF Sound, IsLoaded
<1>4. old = At(j, a, k) /\ old \in Nat
  BY <1>3, AtType DEF At
<1>5. Sound(r) /\ SlotsCached(r)
  <2>1. CASE Hit(j, a, k) \/ (old = 0 /\ bad = "Slot")
    BY <1>2, <2>1
  <2>2. CASE ~Hit(j, a, k) /\ old # 0
    <3>1. r = CacheSlot(j, a, k, old)
      BY <2>2
    <3> HIDE DEF r, old
    <3>2. old \in Nat \ {0}
      BY <1>4, <2>2
    <3> QED
      BY <1>2, <1>4, <3>1, <3>2, CacheSlotSound
  <2>3. CASE ~Hit(j, a, k) /\ old = 0 /\ bad # "Slot"
    <3>1. r = CacheSlot(n, a, k, n.slots)
      BY <2>3
    <3>2. e = StorageEnsured(j, j.state[a])
      BY <1>3
    <3>3. /\ Sound(e) /\ SlotsCached(e) /\ e.state = j.state /\ e.storage[e.state[a]] \in MapIds
          /\ At(e, a, k) = At(j, a, k)
      BY <1>2, <3>2, EnsuredSound
    <3> HIDE DEF r, old, e
    <3>4. e.state[a] # 0 /\ At(e, a, k) = 0 /\ n = NewSlot(e, e.state[a], k)
      BY <1>3, <1>4, <2>3, <3>3, Zenon
    <3>5. e.slots \in Nat
      BY <3>3 DEF Sound, Journals
    <3> HIDE DEF n
    <3>6. Sound(n) /\ SlotsCached(n) /\ n.slots = e.slots + 1 /\ At(n, a, k) = n.slots
      BY <3>3, <3>4, NewSlotSound
    <3> DEFINE s == n.slots
    <3>7. s \in Nat \ {0} /\ At(n, a, k) = s
      BY <3>5, <3>6
    <3> HIDE DEF s
    <3>8. Sound(CacheSlot(n, a, k, s)) /\ SlotsCached(CacheSlot(n, a, k, s))
      BY <3>6, <3>7, CacheSlotSound
    <3> QED
      BY <3>1, <3>8 DEF s
  <2> QED
    BY <2>1, <2>2, <2>3
<1> HIDE DEF r
<1>6. doomed' \subseteq Addr
  BY <1>1 DEF CacheInv
<1> QED
  BY <1>1, <1>5, <1>6, BecomesReady

\* The end of a transaction: the deleted accounts get new maps, the caches are dropped.
LEMMA CommitReady ==
  ASSUME CacheOK, CacheInv, CommitTx
  PROVE  CacheInv'
<1> DEFINE objs == {state[a] : a \in Deleted} \ {0}
           w == WithMaps(Now, objs)
<1>1. Becomes(FinalizeTx(Now)) /\ doomed' = doomed \ Deleted
  BY DEF CommitTx
<1>2. doomed' \subseteq Addr /\ Deleted \subseteq Addr
  BY <1>1 DEF CacheInv, Deleted
<1>3. CASE listed = <<>>
  <2>1. FinalizeTx(Now) = Now
    BY <1>3 DEF FinalizeTx
  <2> QED
    BY <1>1, <1>2, <2>1, NowIs, BecomesReady
<1>4. CASE listed # <<>>
  <2>1. FinalizeTx(Now) = DropCaches(w)
    BY <1>4, NowIs DEF FinalizeTx, Emptied
  <2>2. state \in [Addr -> Objects]
    BY NowIs DEF Journals
  <2>3. objs \subseteq ObjectIds /\ \A o \in objs : \E a \in Addr : o = Now.state[a]
    BY <1>2, <2>2, NowIs DEF Objects
  <2>4. IsFiniteSet(objs) /\ Cardinality(objs) <= Cardinality(Addr)
    <3> DEFINE all == {state[a] : a \in Addr}
    <3>1. IsFiniteSet(Addr)
      BY DEF CacheOK
    <3>2. IsFiniteSet(all) /\ Cardinality(all) <= Cardinality(Addr)
      BY <3>1, Values, Zenon
    <3>3. objs \subseteq all
      BY <1>2
    <3> HIDE DEF objs, all
    <3>4. IsFiniteSet(objs) /\ Cardinality(objs) <= Cardinality(all)
      BY <3>2, <3>3, FS_Subset
    <3>5. Cardinality(objs) \in Nat /\ Cardinality(all) \in Nat /\ Cardinality(Addr) \in Nat
      BY <3>1, <3>2, <3>4, FS_CardinalityType
    <3> QED
      BY <3>2, <3>4, <3>5
  <2> HIDE DEF objs
  <2>5. Sound(w)
    BY <2>3, <2>4, NowIs, WithMapsSound
  <2> HIDE DEF w
  <2>6. w \in Journals /\ Owned(w) /\ MapsOwned(w) /\ SlotsOwned(w)
    BY <2>5 DEF Sound
  <2>7. Sound(DropCaches(w)) /\ SlotsCached(DropCaches(w))
    BY <2>6, DroppedSound
  <2> QED
    BY <1>1, <1>2, <2>1, <2>7, BecomesReady
<1> QED
  BY <1>3, <1>4

\* The journal goes to the pool and comes back: the arenas begin again.
LEMMA ReleaseReady ==
  ASSUME CacheOK, CacheInv, ReleaseJournal
  PROVE  CacheInv'
<1> DEFINE used == {slab[i] : i \in 1 .. idx}
           clear == {storage[o] : o \in used}
           none == [a \in Addr |-> 0]
           left == [m \in MapIds |-> IF m \in clear THEN NoMap ELSE maps[m]]
           r == [Now EXCEPT !.state = none, !.idx = 0, !.slots = 0, !.maps = left]
           j == Now
<1>1. Becomes(DropCaches(r)) /\ doomed' = {}
  BY DEF ReleaseJournal, Now
<1>2. /\ j \in Journals /\ Owned(j) /\ MapsOwned(j)
  BY NowIs DEF Sound
<1>3. j.slab = slab /\ j.storage = storage /\ j.maps = maps /\ j.idx = idx
  BY DEF Now
<1>4. left \in [MapIds -> [Key -> Nat]]
  BY <1>2, <1>3 DEF Journals, NoMap
<1>5. \A m \in MapIds : left[m] = IF m \in clear THEN NoMap ELSE maps[m]
  OBVIOUS
<1>6. none \in [Addr -> Objects] /\ \A a \in Addr : none[a] = 0
  BY DEF Objects
<1> HIDE DEF left, j, none
<1>7. /\ r.idx = 0 /\ r.slab = slab /\ r.state = none /\ r.storage = storage
      /\ r.maps = left /\ r.slots = 0 /\ r \in Journals
  <2>1. r = [j EXCEPT !.state = none, !.idx = 0, !.slots = 0, !.maps = left]
    BY DEF j
  <2> HIDE DEF r
  <2> QED
    BY <1>2, <1>3, <1>4, <1>6, <2>1, Zenon DEF Journals
<1> HIDE DEF r
<1>8. \A a \in Addr : r.state[a] = 0 /\ \A k \in Key : At(r, a, k) = 0
  BY <1>6, <1>7 DEF At
<1>9. \A i \in DOMAIN slab : slab[i] \in ObjectIds /\ slab[i] # 0 /\ storage[slab[i]] \in MapIds \cup {0}
  <2>1. \A i \in DOMAIN slab : slab[i] \in ObjectIds
    BY <1>2, <1>3 DEF Journals
  <2> QED
    BY <1>2, <1>3, <2>1 DEF Journals, CacheOK
<1>10. Owned(r)
  <2>1. Len(slab) \in Nat
    BY <1>2, <1>3 DEF Journals
  <2> QED
    BY <1>2, <1>3, <1>7, <1>8, <1>9, <2>1 DEF Owned
<1>11. MapsOwned(r)
  <2>1. ASSUME NEW i \in DOMAIN slab, storage[slab[i]] # 0 PROVE left[storage[slab[i]]] = NoMap
    <3>1. i \in Nat /\ idx \in Nat /\ i >= 1
      BY <1>2, <1>3, <2>1 DEF Journals
    <3>2. CASE i <= idx
      <4>1. storage[slab[i]] \in clear
        BY <3>1, <3>2
      <4> QED
        BY <1>5, <1>9, <2>1, <4>1
    <3>3. CASE i > idx
      <4>1. maps[storage[slab[i]]] = NoMap
        BY <1>2, <1>3, <2>1, <3>3 DEF MapsOwned
      <4> QED
        BY <1>5, <1>9, <2>1, <4>1
    <3> QED
      BY <3>1, <3>2, <3>3
  <2>2. \A i, n \in DOMAIN slab : i # n => Apart(r, slab[i], slab[n])
    BY <1>2, <1>3, <1>7 DEF MapsOwned, Apart
  <2> HIDE DEF clear
  <2> QED
    BY <1>7, <1>8, <2>1, <2>2 DEF MapsOwned
<1>12. SlotsOwned(r)
  BY <1>7, <1>8 DEF SlotsOwned
<1>13. Sound(DropCaches(r)) /\ SlotsCached(DropCaches(r))
  BY <1>7, <1>10, <1>11, <1>12, DroppedSound
<1> QED
  BY <1>1, <1>13, BecomesReady

\* What is done with accounts, checkpoints and the journal.
LEMMA ManageReady ==
  ASSUME CacheOK, CacheInv, Manage
  PROVE  CacheInv'
<1>1. doomed \subseteq Addr
  BY DEF CacheInv
<1>2. ASSUME NEW a \in Addr, NEW ok \in {TRUE, Found(Now, a) # 0}, LoadAccount(a, ok) PROVE CacheInv'
  <2>1. ok \in BOOLEAN
    BY <1>2, Zenon
  <2>2. CanLoad(a) /\ Becomes(Loaded(Now, a, ok)) /\ doomed' = doomed
    BY <1>2 DEF LoadAccount
  <2> QED
    BY <1>1, <2>1, <2>2, LoadReady, BecomesReady
<1>3. ASSUME NEW a \in Addr, NEW target \in Addr, NEW ok \in {TRUE, Found(Now, target) # 0},
             Selfdestruct(a, target, ok)
      PROVE  CacheInv'
  <2>1. ok \in BOOLEAN
    BY <1>3, Zenon
  <2>2. CanLoad(target) /\ Becomes(Loaded(Now, target, ok)) /\ doomed' \subseteq Addr
    BY <1>1, <1>3 DEF Selfdestruct
  <2> QED
    BY <2>1, <2>2, LoadReady, BecomesReady
<1>4. ASSUME NEW a \in Addr, ClearSelfdestruct(a) PROVE CacheInv'
  <2>1. state[a] # 0 /\ Becomes(StateAccount(Now, a)) /\ doomed' \subseteq Addr
    BY <1>1, <1>4 DEF ClearSelfdestruct
  <2>2. StateAccount(Now, a) = CacheAccount(Now, a, Now.state[a]) /\ Now.state[a] # 0
    BY <2>1, NowIs DEF StateAccount
  <2>3. Sound(StateAccount(Now, a)) /\ SlotsCached(StateAccount(Now, a))
    BY <2>2, NowIs, CacheAccountSound
  <2> QED
    BY <2>1, <2>3, BecomesReady
<1>5. ASSUME NEW n \in 0 .. Len(listed), CheckpointRevert(n) PROVE CacheInv'
  <2>1. Becomes(Now) /\ doomed' \subseteq Addr
    BY <1>1, <1>5 DEF CheckpointRevert
  <2> QED
    BY <2>1, NowIs, BecomesReady
<1> QED
  BY <1>2, <1>3, <1>4, <1>5, CommitReady, ReleaseReady, Zenon DEF Manage

\* The invariant is inductive.
LEMMA StepReady ==
  ASSUME CacheOK, CacheInv, [CacheNext]_cacheVars
  PROVE  CacheInv'
<1>1. CASE Manage
  BY <1>1, ManageReady
<1>2. CASE \E k \in Key : Access(k)
  BY <1>2, SlotReady DEF Access
<1>3. CASE UNCHANGED cacheVars
  <2>1. Now' = Now /\ doomed' = doomed
    BY <1>3 DEF cacheVars, Now
  <2>2. Ready(Now)' <=> Ready(Now')
    OBVIOUS
  <2> QED
    BY <2>1, <2>2 DEF CacheInv
<1> QED
  BY <1>1, <1>2, <1>3 DEF CacheNext

\* Whatever is loaded, deleted, reverted or left behind by the journal's last user, a cached
\* pointer is the one in the maps, and no two accounts share an object, a map or a slot
\* (journal.go:118-138, 149-206, 238-262, 319-333, 424-486).
THEOREM CachesAreValid == CacheSpec => []PointersValid
<1>1. CacheInit => CacheInv
  BY CacheAssumption, InitReady
<1>2. CacheInv /\ [CacheNext]_cacheVars => CacheInv'
  BY CacheAssumption, StepReady
<1>3. CacheInv => PointersValid
  BY CacheAssumption, InvPointers
<1> QED
  BY <1>1, <1>2, <1>3, PTL DEF CacheSpec
=============================================================================
