--------------------------- MODULE ResourcesProofs ---------------------------
(***************************************************************************)
(* Proofs about what frames borrow and give back, for every number of      *)
(* frames, transactions, arrays and words: no frame sees what another left *)
(* in memory, inputs and results keep their contents, and a jump table is  *)
(* always that of the code that runs.                                      *)
(*                                                                         *)
(* An operator of Memory takes a memory to the next one.  Changed says what*)
(* it may do to others: below a context's checkpoint, and outside of the   *)
(* free buffers, nothing changes; the buffer may move to an array that is  *)
(* new.  Whole is the invariant of frames and memory together.             *)
(***************************************************************************)
EXTENDS Resources, SequenceTheorems, TLAPS

-----------------------------------------------------------------------------
(***************************************************************************)
(* The inductive invariant: memory.                                        *)
(***************************************************************************)
\* The buffer is the beginning of its array, and the contexts follow one another in it;
\* a context with a child knows where the child's begins.
MemorySound(m) ==
  /\ m \in MemoryState
  /\ m.arr \in DOMAIN m.heap /\ m.len <= Len(m.heap[m.arr])
  /\ m.ctxs # <<>> /\ m.ctxs[Len(m.ctxs)].checkpoint <= m.len
  /\ \A i, j \in DOMAIN m.ctxs : i <= j => m.ctxs[i].checkpoint <= m.ctxs[j].checkpoint
  /\ \A i \in 1 .. Len(m.ctxs) - 1 :
       m.ctxs[i].hasChild /\ m.ctxs[i].child = m.ctxs[i + 1].checkpoint

\* Buffers for output and logs are neither memory nor, when they are free, in use.
Disjoint(m, P, A) ==
  /\ P \subseteq DOMAIN m.heap /\ A \subseteq DOMAIN m.heap
  /\ P \cap A = {} /\ m.arr \notin P \cup A /\ 1 \notin P \cup A

\* The contents of a slice are what they ought to be.
Stands(h, m) ==
  /\ h.slice.arr \in DOMAIN m.heap
  /\ h.slice.start + h.slice.len <= Len(m.heap[h.slice.arr])
  /\ Len(h.is) = h.slice.len
  /\ \A j \in 1 .. Len(h.is) : m.heap[h.slice.arr][h.slice.start + j] = h.is[j]

\* They stay so: the array is not a free buffer, nor memory.
Lasting(h, m, P) ==
  /\ h \in Held /\ Stands(h, m)
  /\ h.slice.arr \notin P /\ (h.slice.len = 0 \/ h.slice.arr # m.arr)

\* The cells after lo are those of own.
Mirrors(own, m, lo) == \A j \in 1 .. Len(own) : m.heap[m.arr][lo + j] = own[j]

\* Where the context of frame i begins and ends.
From(m, i) == m.ctxs[i + 1].checkpoint
Upto(fs, m, i) == IF i = Len(fs) THEN m.len ELSE m.ctxs[i + 2].checkpoint

\* The memory of a frame is what its program made of it, paid to the last word; the input
\* lies below it.
OwnSound(fs, m, i) ==
  /\ fs[i].words = Len(fs[i].own)
  /\ Len(fs[i].own) = Upto(fs, m, i) - From(m, i)
  /\ Mirrors(fs[i].own, m, From(m, i))
InputSound(f, m, P, lo) ==
  /\ Stands(f.input, m)
  /\ f.input.slice.arr \notin P /\ f.input.slice.start + f.input.slice.len <= lo
OutSound(fs, i) ==
  i > 1 /\ fs[i].out.len > 0 => fs[i].out.offset + fs[i].out.len <= Len(fs[i - 1].own)

FrameSound(fs, m, P, i) ==
  /\ OwnSound(fs, m, i) /\ InputSound(fs[i], m, P, From(m, i)) /\ OutSound(fs, i)
  /\ Lasting(fs[i].ret, m, P)

Whole(fs, m, P, A) ==
  /\ MemorySound(m) /\ Disjoint(m, P, A)
  /\ fs \in Seq(Frame) /\ Len(m.ctxs) = Len(fs) + 1
  /\ \A i \in DOMAIN fs : FrameSound(fs, m, P, i)

LogsSound(ls, m, P) == ls \in Seq(Held) /\ \A i \in DOMAIN ls : Lasting(ls[i], m, P)

\* What Transact copied belongs to nobody else; what it did not is in the arena.
ResultSound(r, m, P, A) ==
  /\ r \in [held : Seq(Held), borrowed : BOOLEAN]
  /\ \A i \in DOMAIN r.held :
       Lasting(r.held[i], m, P) /\ (~r.borrowed => r.held[i].slice.arr \notin A)

MemoryInv ==
  /\ Whole(frames, mem, pool, arena)
  /\ LogsSound(logs, mem, pool) /\ ResultSound(result, mem, pool, arena)

-----------------------------------------------------------------------------
(***************************************************************************)
(* The inductive invariant: jump tables.                                   *)
(***************************************************************************)
\* An object whose table is ready has the table of its code, and the hash it remembers is
\* the hash of that code.
ObjectSound(b, ts) ==
  /\ b \in BytecodeObject /\ b.table <= Len(ts)
  /\ b.ready => b.table # 0 /\ ts[b.table].of = b.code
  /\ b.hash \in {NoHash, b.code}

CacheSound(cache, ts) ==
  /\ cache \in [Code -> 0 .. Len(ts)]
  /\ \A c \in Code : cache[c] # 0 => ts[cache[c]].of = c

\* A table that the object may overwrite is nobody else's.
OwnTable(os, o) == ~os[o].external /\ os[o].table # 0
Unshared(os, o, c1, c2) ==
  OwnTable(os, o) =>
    /\ \A p \in DOMAIN os : p # o => os[p].table # os[o].table
    /\ \A c \in Code : c1[c] # os[o].table /\ c2[c] # os[o].table

TablesSound(os, ts, c1, c2) ==
  /\ os \in Seq(BytecodeObject) /\ os # <<>> /\ ts \in Seq(Table)
  /\ \A o \in DOMAIN os : ObjectSound(os[o], ts) /\ Unshared(os, o, c1, c2)
  /\ CacheSound(c1, ts) /\ CacheSound(c2, ts)

\* Every frame runs on an object of its own.
ObjectOf(fs, os, fr, i) == fs[i].obj \in DOMAIN os \ fr /\ os[fs[i].obj].code = fs[i].code
Assigned(fs, os, fr) ==
  /\ fr \subseteq DOMAIN os \ {1}
  /\ \A i \in DOMAIN fs : ObjectOf(fs, os, fr, i)
  /\ \A i, j \in DOMAIN fs : i # j => fs[i].obj # fs[j].obj

TableInv ==
  TablesSound(objects, tables, evmCache, globalCache) /\ Assigned(frames, objects, free)

-----------------------------------------------------------------------------
(***************************************************************************)
(* Sequences, cell by cell.                                                *)
(***************************************************************************)
\* Length, domain and elements of a sequence.
LEMMA LenIsNat ==
  ASSUME NEW S, NEW s \in Seq(S)
  PROVE  Len(s) \in Nat /\ DOMAIN s = 1 .. Len(s) /\ \A i \in 1 .. Len(s) : s[i] \in S
  BY LenProperties, ElementOfSeq

\* A function on 1 .. n is a sequence of length n.
LEMMA FunctionIsSeq ==
  ASSUME NEW S, NEW n \in Nat, NEW f \in [1 .. n -> S]
  PROVE  f \in Seq(S) /\ Len(f) = n
<1>1. f \in Seq(S)
  BY SeqDef
<1> QED
  BY <1>1, LenProperties

\* The n elements of a sequence that follow its first a.
Part(s, a, n) == SubSeq(s, a + 1, a + n)

\* A part of a sequence.
LEMMA PartAt ==
  ASSUME NEW S, NEW s \in Seq(S), NEW a \in Nat, NEW n \in Nat, a + n <= Len(s)
  PROVE  /\ Part(s, a, n) \in Seq(S) /\ Len(Part(s, a, n)) = n
         /\ \A j \in 1 .. n : Part(s, a, n)[j] = s[a + j]
<1>1. \A i \in a + 1 .. a + n : s[i] \in S
  <2>1. Len(s) \in Nat /\ \A i \in 1 .. Len(s) : s[i] \in S
    BY LenIsNat
  <2> QED
    BY <2>1
<1>2. /\ SubSeq(s, a + 1, a + n) \in Seq(S)
      /\ Len(SubSeq(s, a + 1, a + n)) = IF a + 1 <= a + n THEN a + n - (a + 1) + 1 ELSE 0
      /\ \A i \in 1 .. a + n - (a + 1) + 1 : SubSeq(s, a + 1, a + n)[i] = s[a + 1 + i - 1]
  <2>1. a + 1 \in Int /\ a + n \in Int
    OBVIOUS
  <2> QED
    BY <1>1, <2>1, SubSeqProperties
<1>3. (IF a + 1 <= a + n THEN a + n - (a + 1) + 1 ELSE 0) = n /\ a + n - (a + 1) + 1 = n
  OBVIOUS
<1>4. \A j \in 1 .. n : a + 1 + j - 1 = a + j
  OBVIOUS
<1>5. /\ SubSeq(s, a + 1, a + n) \in Seq(S) /\ Len(SubSeq(s, a + 1, a + n)) = n
      /\ \A j \in 1 .. n : SubSeq(s, a + 1, a + n)[j] = s[a + j]
  BY <1>2, <1>3, <1>4
<1> QED
  BY <1>5, Zenon DEF Part

\* New memory is zero (the cells that a buffer grows by).
LEMMA ZerosAt ==
  ASSUME NEW n \in Nat
  PROVE  Zeros(n) \in Seq(Cell) /\ Len(Zeros(n)) = n /\ \A j \in 1 .. n : Zeros(n)[j] = 0
<1>1. Zeros(n) \in [1 .. n -> Cell]
  BY MemoryAssumption DEF Zeros
<1>2. Zeros(n) \in Seq(Cell)
  BY <1>1, IsASeq
<1> QED
  BY <1>1, <1>2 DEF Zeros

\* The last element replaced.
Replaced(s, e) == Append(Front(s), e)

\* All but the last element, and the last: the frames below, and the one that runs.
LEMMA FrontAt ==
  ASSUME NEW S, NEW s \in Seq(S), s # <<>>
  PROVE  /\ Len(s) \in Nat \ {0} /\ Front(s) \in Seq(S) /\ Len(Front(s)) = Len(s) - 1
         /\ \A i \in 1 .. Len(s) - 1 : Front(s)[i] = s[i]
         /\ Last(s) \in S /\ Last(s) = s[Len(s)]
<1>1. Len(s) \in Nat \ {0}
  BY EmptySeq
<1>2. PICK n \in Nat : Len(s) = n + 1
  BY <1>1
<1>3. /\ SubSeq(s, 1, n) \in Seq(S) /\ Len(SubSeq(s, 1, n)) = n
      /\ \A j \in 1 .. n : SubSeq(s, 1, n)[j] = s[j]
  <2>1. /\ SubSeq(s, 0 + 1, 0 + n) \in Seq(S) /\ Len(SubSeq(s, 0 + 1, 0 + n)) = n
        /\ \A j \in 1 .. n : SubSeq(s, 0 + 1, 0 + n)[j] = s[0 + j]
    <3>1. 0 \in Nat /\ 0 + n <= Len(s)
      BY <1>2
    <3>2. /\ Part(s, 0, n) \in Seq(S) /\ Len(Part(s, 0, n)) = n
          /\ \A j \in 1 .. n : Part(s, 0, n)[j] = s[0 + j]
      BY <3>1, PartAt
    <3> QED
      BY <3>2, Zenon DEF Part
  <2>2. 0 + 1 = 1 /\ 0 + n = n /\ \A j \in 1 .. n : 0 + j = j
    OBVIOUS
  <2> QED
    BY <2>1, <2>2
<1>4. Len(s) - 1 = n
  BY <1>2
<1>5. Last(s) = s[Len(s)] /\ s[Len(s)] \in S
  BY <1>1, ElementOfSeq DEF Last
<1> QED
  BY <1>1, <1>3, <1>4, <1>5 DEF Front

\* A sequence with one more element: a frame is pushed, an array allocated, a log appended.
LEMMA AppendAt ==
  ASSUME NEW S, NEW s \in Seq(S), NEW e \in S
  PROVE  /\ Append(s, e) \in Seq(S) /\ Append(s, e) # <<>> /\ Len(Append(s, e)) = Len(s) + 1
         /\ \A i \in 1 .. Len(s) : Append(s, e)[i] = s[i]
         /\ Append(s, e)[Len(s) + 1] = e /\ Last(Append(s, e)) = e
<1>1. /\ Append(s, e) \in Seq(S) /\ Append(s, e) # <<>> /\ Len(Append(s, e)) = Len(s) + 1
      /\ \A i \in 1 .. Len(s) : Append(s, e)[i] = s[i]
      /\ Append(s, e)[Len(s) + 1] = e
  BY AppendProperties
<1> QED
  BY <1>1 DEF Last

\* Only the last element changes.
LEMMA ReplacedAt ==
  ASSUME NEW S, NEW s \in Seq(S), s # <<>>, NEW e \in S
  PROVE  /\ Replaced(s, e) \in Seq(S) /\ Replaced(s, e) # <<>> /\ Len(Replaced(s, e)) = Len(s)
         /\ \A i \in 1 .. Len(s) - 1 : Replaced(s, e)[i] = s[i]
         /\ Replaced(s, e)[Len(s)] = e /\ Last(Replaced(s, e)) = e
<1>1. /\ Len(s) \in Nat \ {0} /\ Front(s) \in Seq(S) /\ Len(Front(s)) = Len(s) - 1
      /\ \A i \in 1 .. Len(s) - 1 : Front(s)[i] = s[i]
  BY FrontAt
<1>2. Len(s) - 1 + 1 = Len(s)
  BY <1>1
<1>3. /\ Append(Front(s), e) \in Seq(S) /\ Append(Front(s), e) # <<>>
      /\ Len(Append(Front(s), e)) = Len(s)
      /\ \A i \in 1 .. Len(s) - 1 : Append(Front(s), e)[i] = Front(s)[i]
      /\ Append(Front(s), e)[Len(s)] = e /\ Last(Append(Front(s), e)) = e
  BY <1>1, <1>2, AppendAt
<1> QED
  BY <1>1, <1>3 DEF Replaced

\* The front, when the last element was replaced or added.
LEMMA FrontOfEnded ==
  ASSUME NEW S, NEW s \in Seq(S), NEW e \in S
  PROVE  Front(Append(s, e)) = s
<1>1. Append(s, e) \in Seq(S) /\ Append(s, e) # <<>> /\ Len(Append(s, e)) = Len(s) + 1
      /\ \A i \in 1 .. Len(s) : Append(s, e)[i] = s[i]
  BY AppendAt
<1> DEFINE t == Append(s, e)
<1>2. Len(s) \in Nat
  BY LenIsNat
<1>3. Front(t) \in Seq(S) /\ Len(Front(t)) = Len(t) - 1 /\ \A i \in 1 .. Len(t) - 1 : Front(t)[i] = t[i]
  BY <1>1, FrontAt, Zenon
<1>4. Len(t) - 1 = Len(s)
  BY <1>1, <1>2
<1>5. Front(t) \in Seq(S) /\ Len(Front(t)) = Len(s) /\ \A i \in 1 .. Len(s) : Front(t)[i] = s[i]
  BY <1>1, <1>3, <1>4
<1> QED
  BY <1>5, SeqEqual

-----------------------------------------------------------------------------
(***************************************************************************)
(* What an operator of Memory does to the arrays.                          *)
(***************************************************************************)
\* From m to n, nothing changed in the arrays that exist but free buffers and the cells of
\* the buffer after lo; the buffer stayed where it is or moved to a new array.
Changed(m, n, P, lo) ==
  /\ Len(m.heap) <= Len(n.heap)
  /\ \A a \in 1 .. Len(m.heap) : a \notin P =>
       /\ Len(n.heap[a]) = Len(m.heap[a])
       /\ \A j \in 1 .. Len(m.heap[a]) : a # m.arr \/ j <= lo => n.heap[a][j] = m.heap[a][j]
  /\ n.arr = m.arr \/ n.arr > Len(m.heap)
  /\ \A j \in 1 .. lo : n.heap[n.arr][j] = m.heap[m.arr][j]

\* What MemorySound says of the parts of a memory.
LEMMA MemoryTypes ==
  ASSUME NEW m, MemorySound(m)
  PROVE  /\ m.heap \in Seq(Seq(Cell)) /\ m.arr \in 1 .. Len(m.heap) /\ m.len \in Nat
         /\ Len(m.heap) \in Nat \ {0} /\ DOMAIN m.heap = 1 .. Len(m.heap)
         /\ \A a \in 1 .. Len(m.heap) :
              m.heap[a] \in Seq(Cell) /\ Len(m.heap[a]) \in Nat /\ DOMAIN m.heap[a] = 1 .. Len(m.heap[a])
         /\ m.len <= Len(m.heap[m.arr])
         /\ m.ctxs \in Seq(Context) /\ m.ctxs # <<>> /\ Len(m.ctxs) \in Nat \ {0}
         /\ DOMAIN m.ctxs = 1 .. Len(m.ctxs)
         /\ \A i \in 1 .. Len(m.ctxs) : m.ctxs[i] \in Context /\ m.ctxs[i].checkpoint \in Nat
         /\ Checkpoint(m) = m.ctxs[Len(m.ctxs)].checkpoint
         /\ Checkpoint(m) \in Nat /\ Checkpoint(m) <= m.len
<1>1. m.heap \in Seq(Seq(Cell)) /\ m.arr \in DOMAIN m.heap /\ m.len \in Nat
      /\ m.ctxs \in Seq(Context) /\ m.ctxs # <<>> /\ m.len <= Len(m.heap[m.arr])
      /\ m.ctxs[Len(m.ctxs)].checkpoint <= m.len
  BY DEF MemorySound, MemoryState
<1>2. Len(m.heap) \in Nat /\ DOMAIN m.heap = 1 .. Len(m.heap)
      /\ \A a \in 1 .. Len(m.heap) : m.heap[a] \in Seq(Cell)
  BY <1>1, LenIsNat
<1>3. \A a \in 1 .. Len(m.heap) : Len(m.heap[a]) \in Nat /\ DOMAIN m.heap[a] = 1 .. Len(m.heap[a])
  BY <1>2, LenIsNat
<1>4. Len(m.ctxs) \in Nat \ {0} /\ DOMAIN m.ctxs = 1 .. Len(m.ctxs)
      /\ \A i \in 1 .. Len(m.ctxs) : m.ctxs[i] \in Context
  BY <1>1, LenIsNat, EmptySeq
<1>5. \A i \in 1 .. Len(m.ctxs) : m.ctxs[i].checkpoint \in Nat
  BY <1>4 DEF Context
<1>6. Checkpoint(m) = m.ctxs[Len(m.ctxs)].checkpoint
  BY DEF Checkpoint, Last
<1> QED
  BY <1>1, <1>2, <1>3, <1>4, <1>5, <1>6, SMTT(30)

\* One array of the heap is written, the others stay.
LEMMA HeapWritten ==
  ASSUME NEW h \in Seq(Seq(Cell)), NEW a \in 1 .. Len(h), NEW s \in Seq(Cell)
  PROVE  /\ [h EXCEPT ![a] = s] \in Seq(Seq(Cell)) /\ Len([h EXCEPT ![a] = s]) = Len(h)
         /\ [h EXCEPT ![a] = s][a] = s
         /\ \A b \in 1 .. Len(h) : b # a => [h EXCEPT ![a] = s][b] = h[b]
<1>1. Len(h) \in Nat /\ DOMAIN h = 1 .. Len(h)
  BY LenIsNat
<1>2. [h EXCEPT ![a] = s] \in Seq(Seq(Cell)) /\ Len([h EXCEPT ![a] = s]) = Len(h)
  BY <1>1, ExceptSeq
<1> QED
  BY <1>1, <1>2

\* Nothing changes when nothing is done, and what two steps leave alone their composition does.
LEMMA ChangedReflexive ==
  ASSUME NEW m, NEW P, NEW lo, MemorySound(m)
  PROVE  Changed(m, m, P, lo)
  BY MemoryTypes DEF Changed

\* Two steps on memory are one.
LEMMA ChangedTransitive ==
  ASSUME NEW m, NEW n, NEW o, NEW P, NEW Q, NEW lo \in Nat, MemorySound(m), MemorySound(n),
         MemorySound(o), lo <= m.len, lo <= n.len,
         Changed(m, n, P, lo), Changed(n, o, Q, lo), Q \subseteq P
  PROVE  Changed(m, o, P, lo)
<1>1. /\ Len(m.heap) \in Nat /\ Len(n.heap) \in Nat /\ Len(o.heap) \in Nat
      /\ m.arr \in 1 .. Len(m.heap) /\ n.arr \in 1 .. Len(n.heap) /\ o.arr \in 1 .. Len(o.heap)
      /\ m.len <= Len(m.heap[m.arr]) /\ n.len <= Len(n.heap[n.arr])
      /\ m.len \in Nat /\ n.len \in Nat
      /\ Len(m.heap[m.arr]) \in Nat /\ Len(n.heap[n.arr]) \in Nat
  BY MemoryTypes, Zenon
<1>2. Len(m.heap) <= Len(o.heap) /\ (o.arr = m.arr \/ o.arr > Len(m.heap))
  BY <1>1, SMTT(30) DEF Changed
<1>3. ASSUME NEW a \in 1 .. Len(m.heap), a \notin P
      PROVE  /\ Len(o.heap[a]) = Len(m.heap[a])
             /\ \A j \in 1 .. Len(m.heap[a]) : a # m.arr \/ j <= lo => o.heap[a][j] = m.heap[a][j]
  <2>1. a \in 1 .. Len(n.heap) /\ a \notin Q
    BY <1>1, <1>3 DEF Changed
  <2>2. /\ Len(n.heap[a]) = Len(m.heap[a])
        /\ \A j \in 1 .. Len(m.heap[a]) : a # m.arr \/ j <= lo => n.heap[a][j] = m.heap[a][j]
    BY <1>3 DEF Changed
  <2>3. /\ Len(o.heap[a]) = Len(n.heap[a])
        /\ \A j \in 1 .. Len(n.heap[a]) : a # n.arr \/ j <= lo => o.heap[a][j] = n.heap[a][j]
    BY <2>1 DEF Changed
  <2>4. a # m.arr => a # n.arr
    BY <1>1, <1>3 DEF Changed
  <2> QED
    BY <2>2, <2>3, <2>4
<1>4. \A j \in 1 .. lo : o.heap[o.arr][j] = m.heap[m.arr][j]
  BY DEF Changed
<1> QED
  BY <1>2, <1>3, <1>4 DEF Changed

\* Fewer cells, or more free buffers, change less.
LEMMA ChangedBelow ==
  ASSUME NEW m, NEW n, NEW P, NEW Q, NEW lo \in Nat, NEW hi \in Nat, Changed(m, n, P, hi), lo <= hi,
         P \subseteq Q
  PROVE  Changed(m, n, Q, lo)
<1>1. \A j : j <= lo /\ j \in Int => j <= hi
  OBVIOUS
<1>2. \A a \in 1 .. Len(m.heap) : a \notin Q => a \notin P
  OBVIOUS
<1>3. \A j \in 1 .. lo : j \in 1 .. hi
  OBVIOUS
<1> QED
  BY <1>1, <1>2, <1>3 DEF Changed

\* A buffer that moves goes to a new array, so free buffers and arena stay apart from it.
LEMMA DisjointKept ==
  ASSUME NEW m, NEW n, NEW P, NEW A, NEW Q, NEW lo, MemorySound(m), MemorySound(n),
         Disjoint(m, P, A), Changed(m, n, Q, lo)
  PROVE  Disjoint(n, P, A)
<1>1. Len(m.heap) \in Nat /\ Len(n.heap) \in Nat /\ DOMAIN m.heap = 1 .. Len(m.heap)
      /\ DOMAIN n.heap = 1 .. Len(n.heap) /\ m.arr \in 1 .. Len(m.heap) /\ n.arr \in 1 .. Len(n.heap)
  BY MemoryTypes
<1>2. Len(m.heap) <= Len(n.heap) /\ (n.arr = m.arr \/ n.arr > Len(m.heap))
  BY DEF Changed
<1>3. P \subseteq 1 .. Len(m.heap) /\ A \subseteq 1 .. Len(m.heap) /\ P \cap A = {}
      /\ m.arr \notin P \cup A /\ 1 \notin P \cup A
  BY <1>1 DEF Disjoint
<1>4. P \subseteq 1 .. Len(n.heap) /\ A \subseteq 1 .. Len(n.heap)
  BY <1>1, <1>2, <1>3
<1>5. n.arr \notin P \cup A
  BY <1>1, <1>2, <1>3, SMTT(30)
<1> QED
  BY <1>1, <1>3, <1>4, <1>5 DEF Disjoint

\* A slice whose cells are not among those that change.
LEMMA StandsKept ==
  ASSUME NEW h, NEW m, NEW n, NEW P, NEW lo \in Nat, h \in Held, MemorySound(m), MemorySound(n),
         Stands(h, m), Changed(m, n, P, lo), h.slice.arr \notin P,
         h.slice.len = 0 \/ h.slice.arr # m.arr \/ h.slice.start + h.slice.len <= lo
  PROVE  Stands(h, n)
<1>1. Len(m.heap) \in Nat /\ Len(n.heap) \in Nat /\ DOMAIN m.heap = 1 .. Len(m.heap)
      /\ DOMAIN n.heap = 1 .. Len(n.heap) /\ \A a \in 1 .. Len(m.heap) : Len(m.heap[a]) \in Nat
  BY MemoryTypes, Zenon
<1>2. h.slice.start \in Nat /\ h.slice.len \in Nat /\ h.slice.arr \in Nat
  BY DEF Held, Slice
<1> DEFINE a == h.slice.arr
<1>3. a \in 1 .. Len(m.heap) /\ a \in 1 .. Len(n.heap)
  BY <1>1 DEF Stands, Changed
<1>4. /\ Len(n.heap[a]) = Len(m.heap[a])
      /\ \A j \in 1 .. Len(m.heap[a]) : a # m.arr \/ j <= lo => n.heap[a][j] = m.heap[a][j]
  BY <1>3, Zenon DEF Changed
<1>5. h.slice.start + h.slice.len <= Len(m.heap[a]) /\ Len(h.is) = h.slice.len
      /\ \A j \in 1 .. Len(h.is) : m.heap[a][h.slice.start + j] = h.is[j]
  BY Zenon DEF Stands
<1>6. ASSUME NEW j \in 1 .. Len(h.is)
      PROVE  n.heap[a][h.slice.start + j] = h.is[j]
  <2> HIDE DEF a
  <2>1. Len(m.heap[a]) \in Nat /\ h.slice.start + h.slice.len <= Len(m.heap[a])
        /\ h.slice.start \in Nat /\ h.slice.len \in Nat /\ j \in 1 .. h.slice.len
    BY <1>1, <1>2, <1>3, <1>5
  <2>2. h.slice.start + j \in 1 .. Len(m.heap[a])
    <3> DEFINE start == h.slice.start
               len == h.slice.len
               size == Len(m.heap[a])
    <3>1. size \in Nat /\ start \in Nat /\ len \in Nat /\ start + len <= size /\ j \in 1 .. len
      BY <2>1
    <3> HIDE DEF start, len, size
    <3>2. start + j \in 1 .. size
      BY <3>1
    <3> QED
      BY <3>2 DEF start, size
  <2>3. a # m.arr \/ h.slice.start + j <= lo
    BY <2>1 DEF a
  <2> QED
    BY <1>4, <1>5, <2>2, <2>3, Zenon
<1> QED
  BY <1>1, <1>3, <1>4, <1>5, <1>6, ZenonT(30) DEF Stands

\* A slice of the arena survives every write to memory and every move of the buffer.
LEMMA LastingKept ==
  ASSUME NEW h, NEW m, NEW n, NEW P, NEW Q, NEW lo \in Nat, MemorySound(m), MemorySound(n),
         Lasting(h, m, P), Changed(m, n, P, lo), Q \subseteq P
  PROVE  Lasting(h, n, Q)
<1>1. h \in Held /\ Stands(h, m) /\ h.slice.arr \notin P /\ (h.slice.len = 0 \/ h.slice.arr # m.arr)
  BY DEF Lasting
<1>2. Stands(h, n)
  BY <1>1, StandsKept
<1>3. h.slice.arr \in 1 .. Len(m.heap)
  BY <1>1, MemoryTypes, Zenon DEF Stands
<1>4. h.slice.arr \notin Q
  BY <1>1, <1>3
<1>5. Len(m.heap) \in Nat /\ n.arr \in Nat
  BY MemoryTypes
<1>6. h.slice.len = 0 \/ h.slice.arr # n.arr
  BY <1>1, <1>3, <1>5 DEF Changed
<1> QED
  BY <1>1, <1>2, <1>4, <1>6 DEF Lasting

-----------------------------------------------------------------------------
(***************************************************************************)
(* The operators of Memory.                                                *)
(***************************************************************************)
\* The contexts, for a buffer that got longer.
LEMMA SoundWhenKept ==
  ASSUME NEW m, NEW n, MemorySound(m), n \in MemoryState, n.ctxs = m.ctxs,
         n.arr \in DOMAIN n.heap, m.len <= n.len, n.len <= Len(n.heap[n.arr])
  PROVE  MemorySound(n)
<1>1. n.len \in Nat /\ m.len \in Nat /\ m.ctxs[Len(m.ctxs)].checkpoint \in Nat
  BY MemoryTypes DEF MemoryState
<1>2. m.ctxs[Len(m.ctxs)].checkpoint <= n.len
  BY <1>1 DEF MemorySound
<1> QED
  BY <1>2 DEF MemorySound

\* The buffer gets longer, with zeros.
ResizeTarget(m, size) == Checkpoint(m) + size
Extended(m, n, target) ==
  /\ MemorySound(n) /\ n.ctxs = m.ctxs
  /\ n.len = IF target <= m.len THEN m.len ELSE target
  /\ Changed(m, n, {}, m.len)
  /\ \A j \in m.len + 1 .. n.len : n.heap[n.arr][j] = 0

\* The array is large enough.
LEMMA ResizeInPlace ==
  ASSUME NEW m, NEW target \in Nat, MemorySound(m), target > m.len, target <= Len(m.heap[m.arr])
  PROVE  Extended(m, [m EXCEPT !.len = target,
                                !.heap[m.arr] = [i \in DOMAIN m.heap[m.arr] |->
                                  IF i \in m.len + 1 .. target THEN 0 ELSE m.heap[m.arr][i]]], target)
<1> DEFINE old == m.heap[m.arr]
           s == [i \in DOMAIN old |-> IF i \in m.len + 1 .. target THEN 0 ELSE old[i]]
           h == [m.heap EXCEPT ![m.arr] = s]
           n == [m EXCEPT !.len = target, !.heap[m.arr] = s]
<1>1. m.heap \in Seq(Seq(Cell)) /\ m.arr \in 1 .. Len(m.heap) /\ m.len \in Nat
      /\ Len(m.heap) \in Nat /\ old \in Seq(Cell) /\ Len(old) \in Nat /\ DOMAIN old = 1 .. Len(old)
      /\ \A a \in 1 .. Len(m.heap) : Len(m.heap[a]) \in Nat
  BY MemoryTypes, Zenon
<1>2. s \in Seq(Cell) /\ Len(s) = Len(old)
  <2>1. s \in [1 .. Len(old) -> Cell]
    <3>1. \A i \in 1 .. Len(old) : old[i] \in Cell
      BY <1>1, LenIsNat
    <3> QED
      BY <1>1, <3>1, MemoryAssumption, Zenon
  <2>2. s \in Seq(Cell)
    BY <1>1, <2>1, IsASeq
  <2>3. Len(s) = Len(old)
    BY <1>1, <2>1, <2>2, LenProperties
  <2> QED
    BY <2>2, <2>3
<1>3. h \in Seq(Seq(Cell)) /\ Len(h) = Len(m.heap) /\ h[m.arr] = s
      /\ \A b \in 1 .. Len(m.heap) : b # m.arr => h[b] = m.heap[b]
  <2> HIDE DEF s
  <2> QED
    BY <1>1, <1>2, HeapWritten
<1>4. \A i \in 1 .. Len(old) : s[i] = IF i \in m.len + 1 .. target THEN 0 ELSE old[i]
  BY <1>1
<1>5. m \in MemoryState
  BY DEF MemorySound
<1>6. n \in MemoryState /\ n.heap = h /\ n.len = target /\ n.arr = m.arr /\ n.ctxs = m.ctxs
  <2> HIDE DEF s
  <2>1. n.heap = h /\ n.len = target /\ n.arr = m.arr /\ n.ctxs = m.ctxs
    BY <1>5 DEF MemoryState
  <2>2. n \in MemoryState
    <3> HIDE DEF h
    <3>1. n = [m EXCEPT !.len = target, !.heap = h]
      BY <1>5 DEF MemoryState, h
    <3> HIDE DEF n
    <3> QED
      BY <1>3, <1>5, <3>1, Zenon DEF MemoryState
  <2> QED
    BY <2>1, <2>2
<1> HIDE DEF n, h, s
<1>7. MemorySound(n)
  <2>1. DOMAIN h = 1 .. Len(h)
    BY <1>3, LenIsNat
  <2>2. n.arr \in DOMAIN n.heap /\ n.len <= Len(n.heap[n.arr]) /\ m.len <= n.len
    BY <1>1, <1>2, <1>3, <1>6, <2>1, SMTT(30)
  <2> QED
    BY <1>6, <2>2, SoundWhenKept
<1>8. Changed(m, n, {}, m.len)
  <2>1. ASSUME NEW a \in 1 .. Len(m.heap)
        PROVE  /\ Len(n.heap[a]) = Len(m.heap[a])
               /\ \A j \in 1 .. Len(m.heap[a]) : a # m.arr \/ j <= m.len => n.heap[a][j] = m.heap[a][j]
    <3>1. CASE a # m.arr
      BY <1>3, <1>6, <3>1, Zenon
    <3>2. CASE a = m.arr
      <4>1. n.heap[a] = s /\ m.heap[a] = old
        BY <1>3, <1>6, <3>2
      <4>2. \A j \in 1 .. Len(old) : j <= m.len => s[j] = old[j]
        BY <1>1, <1>4
      <4> HIDE DEF old
      <4> QED
        BY <1>2, <3>2, <4>1, <4>2
    <3> QED
      BY <3>1, <3>2, Zenon
  <2>2. \A j \in 1 .. m.len : n.heap[n.arr][j] = m.heap[m.arr][j]
    <3>1. m.len <= Len(old)
      BY MemoryTypes
    <3>2. \A j \in 1 .. m.len : j \in 1 .. Len(old) /\ j \notin m.len + 1 .. target
      BY <1>1, <3>1
    <3> QED
      BY <1>3, <1>4, <1>6, <3>2
  <2> QED
    BY <1>1, <1>3, <1>6, <2>1, <2>2 DEF Changed
<1>9. \A j \in m.len + 1 .. n.len : n.heap[n.arr][j] = 0
  <2>1. n.heap[n.arr] = s /\ n.len = target
    BY <1>3, <1>6
  <2>2. \A j \in m.len + 1 .. target : j \in 1 .. Len(old)
    BY <1>1, SMTT(30)
  <2> HIDE DEF old
  <2> QED
    BY <1>4, <2>1, <2>2
<1>10. n.len = IF target <= m.len THEN m.len ELSE target
  BY <1>1, <1>6
<1>11. Extended(m, n, target)
  BY <1>6, <1>7, <1>8, <1>9, <1>10 DEF Extended
<1> QED
  BY <1>11 DEF n, s

\* A new array takes the buffer.
LEMMA ResizeMoves ==
  ASSUME NEW m, NEW target \in Nat, MemorySound(m), target > Len(m.heap[m.arr])
  PROVE  Extended(m, [m EXCEPT !.len = target, !.arr = Len(m.heap) + 1,
                                !.heap = Append(@, SubSeq(m.heap[m.arr], 1, m.len)
                                                     \o Zeros(2 * target - m.len))], target)
<1> DEFINE old == m.heap[m.arr]
           s == SubSeq(old, 1, m.len) \o Zeros(2 * target - m.len)
           h == Append(m.heap, s)
           n == [m EXCEPT !.len = target, !.arr = Len(m.heap) + 1, !.heap = Append(@, s)]
<1>1. m.heap \in Seq(Seq(Cell)) /\ m.arr \in 1 .. Len(m.heap) /\ m.len \in Nat
      /\ Len(m.heap) \in Nat /\ old \in Seq(Cell) /\ Len(old) \in Nat /\ m.len <= Len(old)
      /\ \A a \in 1 .. Len(m.heap) : Len(m.heap[a]) \in Nat
  BY MemoryTypes, Zenon
<1>2. /\ SubSeq(old, 1, m.len) \in Seq(Cell) /\ Len(SubSeq(old, 1, m.len)) = m.len
      /\ \A j \in 1 .. m.len : SubSeq(old, 1, m.len)[j] = old[j]
  <2>1. /\ SubSeq(old, 0 + 1, 0 + m.len) \in Seq(Cell) /\ Len(SubSeq(old, 0 + 1, 0 + m.len)) = m.len
        /\ \A j \in 1 .. m.len : SubSeq(old, 0 + 1, 0 + m.len)[j] = old[0 + j]
    <3> DEFINE l == m.len
    <3>1. old \in Seq(Cell) /\ l \in Nat /\ 0 \in Nat /\ 0 + l <= Len(old)
      BY <1>1
    <3> HIDE DEF old, l
    <3>2. /\ Part(old, 0, l) \in Seq(Cell) /\ Len(Part(old, 0, l)) = l
          /\ \A j \in 1 .. l : Part(old, 0, l)[j] = old[0 + j]
      BY <3>1, PartAt
    <3> QED
      BY <3>2, Zenon DEF Part, old, l
  <2>2. 0 + 1 = 1 /\ 0 + m.len = m.len /\ \A j \in 1 .. m.len : 0 + j = j
    BY <1>1
  <2> QED
    BY <2>1, <2>2
<1>3. 2 * target - m.len \in Nat /\ 2 * target - m.len + m.len = 2 * target /\ target > m.len
  BY <1>1, SMTT(30)
<1>4. /\ Zeros(2 * target - m.len) \in Seq(Cell) /\ Len(Zeros(2 * target - m.len)) = 2 * target - m.len
      /\ \A j \in 1 .. 2 * target - m.len : Zeros(2 * target - m.len)[j] = 0
  BY <1>3, ZerosAt, Zenon
<1>5. /\ s \in Seq(Cell) /\ Len(s) = 2 * target
      /\ \A j \in 1 .. m.len : s[j] = old[j]
      /\ \A j \in m.len + 1 .. target : s[j] = 0
  <2> DEFINE p == SubSeq(old, 1, m.len)
             z == Zeros(2 * target - m.len)
  <2>1. /\ p \in Seq(Cell) /\ Len(p) = m.len /\ z \in Seq(Cell) /\ Len(z) = 2 * target - m.len
        /\ \A j \in 1 .. m.len : p[j] = old[j]
        /\ \A j \in 1 .. 2 * target - m.len : z[j] = 0
    BY <1>2, <1>4, Zenon
  <2> HIDE DEF p, z
  <2>2. /\ p \o z \in Seq(Cell) /\ Len(p \o z) = Len(p) + Len(z)
        /\ \A i \in 1 .. Len(p) + Len(z) : (p \o z)[i] = IF i <= Len(p) THEN p[i] ELSE z[i - Len(p)]
    BY <2>1, ConcatProperties, Zenon
  <2>3. ASSUME NEW j \in 1 .. m.len
        PROVE  (p \o z)[j] = old[j]
    <3> DEFINE l == m.len
    <3>1. l \in Nat /\ l < target /\ j \in 1 .. l
      BY <1>1, <1>3
    <3> HIDE DEF l
    <3>2. j <= l /\ j \in 1 .. l + (2 * target - l)
      BY <3>1
    <3>3. j <= Len(p) /\ j \in 1 .. Len(p) + Len(z)
      BY <2>1, <3>2, Zenon DEF l
    <3>4. (p \o z)[j] = p[j]
      BY <2>2, <3>3, Zenon
    <3> QED
      BY <2>1, <3>4, Zenon
  <2>4. ASSUME NEW j \in m.len + 1 .. target
        PROVE  (p \o z)[j] = 0
    <3>1. j \in 1 .. m.len + (2 * target - m.len) /\ ~(j <= m.len)
          /\ j - m.len \in 1 .. 2 * target - m.len
      <4> DEFINE l == m.len
      <4>1. l \in Nat /\ l < target /\ j \in l + 1 .. target
        BY <1>1, <1>3, Zenon
      <4> HIDE DEF l
      <4>2. j \in Nat /\ l < j /\ j <= target
        BY <4>1
      <4>3. j \in 1 .. l + (2 * target - l) /\ ~(j <= l) /\ j - l \in 1 .. 2 * target - l
        BY <4>1, <4>2
      <4> QED
        BY <4>3 DEF l
    <3>2. (p \o z)[j] = z[j - m.len]
      BY <2>1, <2>2, <3>1, Zenon
    <3> QED
      BY <2>1, <3>1, <3>2
  <2> QED
    BY <1>1, <1>3, <2>1, <2>2, <2>3, <2>4, SMTT(30) DEF p, z
<1> HIDE DEF s
<1>6. h \in Seq(Seq(Cell)) /\ Len(h) = Len(m.heap) + 1 /\ h[Len(m.heap) + 1] = s
      /\ \A b \in 1 .. Len(m.heap) : h[b] = m.heap[b]
  BY <1>1, <1>5, AppendAt
<1>7. m \in MemoryState
  BY DEF MemorySound
<1>8. n \in MemoryState /\ n.heap = h /\ n.len = target /\ n.arr = Len(m.heap) + 1 /\ n.ctxs = m.ctxs
  <2>1. n.heap = h /\ n.len = target /\ n.arr = Len(m.heap) + 1 /\ n.ctxs = m.ctxs
    BY <1>7 DEF MemoryState
  <2>2. Len(m.heap) + 1 \in Nat
    BY <1>1
  <2>3. n \in MemoryState
    <3>1. n = [m EXCEPT !.len = target, !.arr = Len(m.heap) + 1, !.heap = h]
      OBVIOUS
    <3> HIDE DEF n, h
    <3> QED
      BY <1>6, <1>7, <2>2, <3>1, Zenon DEF MemoryState
  <2> QED
    BY <2>1, <2>3
<1> HIDE DEF n, h
<1>9. MemorySound(n)
  <2>1. DOMAIN h = 1 .. Len(h)
    BY <1>6, LenIsNat
  <2>2. n.arr \in DOMAIN n.heap /\ n.len <= Len(n.heap[n.arr]) /\ m.len <= n.len
    <3>1. n.arr = Len(m.heap) + 1 /\ DOMAIN n.heap = 1 .. Len(m.heap) + 1 /\ n.heap[n.arr] = s
      BY <1>6, <1>8, <2>1
    <3>2. Len(n.heap[n.arr]) = 2 * target /\ n.len = target
      BY <1>5, <1>8, <3>1
    <3> QED
      BY <1>1, <1>3, <3>1, <3>2, SMTT(30)
  <2> QED
    BY <1>8, <2>2, SoundWhenKept
<1>10. Changed(m, n, {}, m.len)
  <2>1. \A a \in 1 .. Len(m.heap) : n.heap[a] = m.heap[a]
    BY <1>6, <1>8
  <2>2. Len(m.heap) <= Len(n.heap) /\ n.arr > Len(m.heap) /\ n.heap[n.arr] = s
    BY <1>1, <1>6, <1>8, SMTT(30)
  <2> QED
    BY <1>5, <2>1, <2>2, Zenon DEF Changed
<1>11. \A j \in m.len + 1 .. n.len : n.heap[n.arr][j] = 0
  BY <1>5, <1>6, <1>8, Zenon
<1>12. n.len = IF target <= m.len THEN m.len ELSE target
  BY <1>1, <1>3, <1>8
<1>13. Extended(m, n, target)
  BY <1>8, <1>9, <1>10, <1>11, <1>12 DEF Extended
<1> QED
  BY <1>13 DEF n, s

\* Resize: the cells it adds are zero, whatever an earlier frame left there.
LEMMA ResizeExtends ==
  ASSUME NEW m, NEW size \in Nat, MemorySound(m)
  PROVE  Extended(m, Resize(m, size), Checkpoint(m) + size)
<1> DEFINE target == Checkpoint(m) + size
<1>1. target \in Nat /\ m.len \in Nat /\ Len(m.heap[m.arr]) \in Nat
  BY MemoryTypes, SMTT(30)
<1>2. CASE target <= m.len
  <2>1. Resize(m, size) = m
    BY <1>2 DEF Resize
  <2>2. Changed(m, m, {}, m.len)
    BY ChangedReflexive
  <2>3. \A j \in m.len + 1 .. m.len : FALSE
    BY <1>1
  <2> QED
    BY <1>1, <1>2, <2>1, <2>2, <2>3 DEF Extended
<1>3. CASE target > m.len /\ target <= Len(m.heap[m.arr])
  <2>1. ~(target <= m.len)
    BY <1>1, <1>3
  <2> QED
    BY <1>1, <1>3, <2>1, ResizeInPlace, Zenon DEF Resize
<1>4. CASE target > m.len /\ target > Len(m.heap[m.arr])
  <2>1. ~(target <= m.len) /\ ~(target <= Len(m.heap[m.arr]))
    BY <1>1, <1>4
  <2> QED
    BY <1>1, <1>4, <2>1, ResizeMoves, Zenon DEF Resize
<1> QED
  BY <1>1, <1>2, <1>3, <1>4

\* An array of the heap replaced.
LEMMA ArrayReplaced ==
  ASSUME NEW m, NEW a \in 1 .. Len(m.heap), NEW s \in Seq(Cell), MemorySound(m),
         Len(s) = Len(m.heap[a])
  PROVE  /\ MemorySound([m EXCEPT !.heap[a] = s])
         /\ [m EXCEPT !.heap[a] = s].arr = m.arr /\ [m EXCEPT !.heap[a] = s].len = m.len
         /\ [m EXCEPT !.heap[a] = s].ctxs = m.ctxs
         /\ Len([m EXCEPT !.heap[a] = s].heap) = Len(m.heap)
         /\ [m EXCEPT !.heap[a] = s].heap[a] = s
         /\ \A b \in 1 .. Len(m.heap) : b # a => [m EXCEPT !.heap[a] = s].heap[b] = m.heap[b]
<1> DEFINE h == [m.heap EXCEPT ![a] = s]
           n == [m EXCEPT !.heap[a] = s]
<1>1. m \in MemoryState /\ m.heap \in Seq(Seq(Cell)) /\ m.arr \in 1 .. Len(m.heap) /\ m.len \in Nat
      /\ m.len <= Len(m.heap[m.arr])
  BY MemoryTypes, Zenon DEF MemorySound
<1>2. h \in Seq(Seq(Cell)) /\ Len(h) = Len(m.heap) /\ h[a] = s
      /\ \A b \in 1 .. Len(m.heap) : b # a => h[b] = m.heap[b]
  BY <1>1, HeapWritten
<1>3. n = [m EXCEPT !.heap = h]
  OBVIOUS
<1> HIDE DEF n, h
<1>4. n \in MemoryState /\ n.heap = h /\ n.arr = m.arr /\ n.len = m.len /\ n.ctxs = m.ctxs
  BY <1>1, <1>2, <1>3, Zenon DEF MemoryState
<1>5. n.arr \in DOMAIN n.heap
  BY <1>1, <1>2, <1>4, LenIsNat, SMTT(30)
<1>6. n.len <= Len(n.heap[n.arr])
  <2>1. Len(h[m.arr]) = Len(m.heap[m.arr])
    BY <1>1, <1>2, Zenon
  <2> QED
    BY <1>1, <1>4, <2>1
<1>7. MemorySound(n)
  <2>1. m.len <= n.len
    BY <1>1, <1>4
  <2> QED
    BY <1>4, <1>5, <1>6, <2>1, SoundWhenKept
<1> QED
  BY <1>2, <1>4, <1>7 DEF n

\* Set, of a range in the buffer.
LEMMA SetWrites ==
  ASSUME NEW m, NEW offset \in Nat, NEW data \in Seq(Cell), NEW start, MemorySound(m),
         start = Checkpoint(m) + offset, start + Len(data) <= m.len
  PROVE  /\ MemorySound(Set(m, offset, data)) /\ Set(m, offset, data).ctxs = m.ctxs
         /\ Set(m, offset, data).len = m.len /\ Set(m, offset, data).arr = m.arr
         /\ Changed(m, Set(m, offset, data), {}, start)
         /\ \A j \in 1 .. Len(m.heap[m.arr]) :
              Set(m, offset, data).heap[m.arr][j] =
                IF j \in start + 1 .. start + Len(data) THEN data[j - start] ELSE m.heap[m.arr][j]
<1> DEFINE old == m.heap[m.arr]
           s == [i \in DOMAIN old |-> IF i \in start + 1 .. start + Len(data)
                                        THEN data[i - start] ELSE old[i]]
<1>1. /\ old \in Seq(Cell) /\ Len(old) \in Nat /\ DOMAIN old = 1 .. Len(old) /\ m.len <= Len(old)
      /\ Checkpoint(m) \in Nat /\ m.len \in Nat /\ m.arr \in 1 .. Len(m.heap)
      /\ Len(m.heap) \in Nat
      /\ \A i \in 1 .. Len(old) : old[i] \in Cell
  <2>1. \A t \in Seq(Cell) : \A i \in 1 .. Len(t) : t[i] \in Cell
    BY LenIsNat
  <2> QED
    BY <2>1, MemoryTypes, Zenon
<1>2. Len(data) \in Nat /\ start \in Nat /\ \A j \in 1 .. Len(data) : data[j] \in Cell
  BY <1>1, LenIsNat
<1>3. s \in [1 .. Len(old) -> Cell]
  <2> HIDE DEF old
  <2>1. \A i \in start + 1 .. start + Len(data) : i - start \in 1 .. Len(data)
    BY <1>2
  <2> QED
    BY <1>1, <1>2, <2>1, Zenon
<1>4. s \in Seq(Cell) /\ Len(s) = Len(old)
  <2> HIDE DEF s, old
  <2> QED
    BY <1>1, <1>3, FunctionIsSeq, Zenon
<1>5. \A i \in 1 .. Len(old) :
        s[i] = IF i \in start + 1 .. start + Len(data) THEN data[i - start] ELSE old[i]
  BY <1>1
<1> DEFINE n == [m EXCEPT !.heap[m.arr] = s]
<1>a. Len(s) = Len(m.heap[m.arr])
  BY <1>4
<1>6. Set(m, offset, data) = n
  <2>1. ~(start + Len(data) > m.len)
    BY <1>1, <1>2
  <2> QED
    BY <2>1 DEF Set
<1> HIDE DEF s
<1>7. /\ MemorySound(n) /\ n.arr = m.arr /\ n.len = m.len /\ n.ctxs = m.ctxs
      /\ Len(n.heap) = Len(m.heap) /\ n.heap[m.arr] = s
      /\ \A b \in 1 .. Len(m.heap) : b # m.arr => n.heap[b] = m.heap[b]
  <2> HIDE DEF old
  <2>1. m.arr \in 1 .. Len(m.heap) /\ s \in Seq(Cell)
    BY <1>1, <1>4
  <2> QED
    BY <1>a, <2>1, ArrayReplaced
<1> HIDE DEF n
<1>8. \A j \in 1 .. Len(old) : j <= start => s[j] = old[j]
  <2>1. \A j \in 1 .. Len(old) : j <= start => j \notin start + 1 .. start + Len(data)
    BY <1>1, <1>2
  <2> QED
    BY <1>5, <2>1
<1>9. Changed(m, n, {}, start)
  <2>1. ASSUME NEW a \in 1 .. Len(m.heap)
        PROVE  /\ Len(n.heap[a]) = Len(m.heap[a])
               /\ \A j \in 1 .. Len(m.heap[a]) : a # m.arr \/ j <= start => n.heap[a][j] = m.heap[a][j]
    <3>1. CASE a # m.arr
      BY <1>7, <3>1, Zenon
    <3>2. CASE a = m.arr
      BY <1>4, <1>7, <1>8, <3>2, Zenon
    <3> QED
      BY <3>1, <3>2, Zenon
  <2>2. \A j \in 1 .. start : n.heap[n.arr][j] = m.heap[m.arr][j]
    <3>1. \A j \in 1 .. start : j \in 1 .. Len(old) /\ j <= start
      BY <1>1, <1>2, SMTT(30)
    <3> QED
      BY <1>7, <1>8, <3>1
  <2> QED
    BY <1>1, <1>7, <2>1, <2>2 DEF Changed
<1> QED
  BY <1>5, <1>6, <1>7, <1>9

\* Read, of a range in the buffer.
LEMMA ReadAt ==
  ASSUME NEW m, NEW offset \in Nat, NEW size \in Nat, MemorySound(m),
         Checkpoint(m) + offset + size <= m.len
  PROVE  /\ Read(m, offset, size) \in Seq(Cell) /\ Len(Read(m, offset, size)) = size
         /\ \A j \in 1 .. size :
              Read(m, offset, size)[j] = m.heap[m.arr][Checkpoint(m) + offset + j]
<1>1. m.heap[m.arr] \in Seq(Cell) /\ Len(m.heap[m.arr]) \in Nat /\ m.len <= Len(m.heap[m.arr])
      /\ Checkpoint(m) \in Nat /\ m.len \in Nat
  BY MemoryTypes, Zenon
<1> DEFINE a == Checkpoint(m) + offset
           old == m.heap[m.arr]
<1>2. a \in Nat /\ a + size <= Len(old)
  BY <1>1, SMTT(30)
<1>3. Read(m, offset, size) = SubSeq(old, a + 1, a + size)
  <2>1. ~(Checkpoint(m) + offset + size > m.len)
    BY <1>1
  <2> QED
    BY <2>1, Zenon DEF Read, View, SliceOf
<1> HIDE DEF a, old
<1>4. /\ SubSeq(old, a + 1, a + size) \in Seq(Cell) /\ Len(SubSeq(old, a + 1, a + size)) = size
      /\ \A j \in 1 .. size : SubSeq(old, a + 1, a + size)[j] = old[a + j]
  <2>1. old \in Seq(Cell) /\ a \in Nat /\ a + size <= Len(old)
    BY <1>1, <1>2 DEF old
  <2>2. /\ Part(old, a, size) \in Seq(Cell) /\ Len(Part(old, a, size)) = size
        /\ \A j \in 1 .. size : Part(old, a, size)[j] = old[a + j]
    BY <2>1, PartAt
  <2> QED
    BY <2>2, Zenon DEF Part
<1> QED
  BY <1>3, <1>4 DEF a, old

\* A buffer of the arena gets data.
Buffered(m, n, s, data, i) ==
  /\ MemorySound(n) /\ n.ctxs = m.ctxs /\ n.len = m.len /\ n.arr = m.arr
  /\ Changed(m, n, {i} \ {0}, m.len)
  /\ s \in Slice /\ s.arr \in ({i} \ {0}) \cup {Len(m.heap) + 1} /\ s.arr \in 1 .. Len(n.heap)
  /\ Stands([slice |-> s, is |-> data], n)
  /\ s.len = Len(data)

\* Alloc: the buffer holds the data, in a free array or a new one, and no other array changes.
LEMMA AllocatedIsBuffer ==
  ASSUME NEW m, NEW data \in Seq(Cell), NEW i, MemorySound(m),
         i \in 0 .. Len(m.heap), i # m.arr
  PROVE  Buffered(m, Allocated(m, data, i), BufferOf(m, data, i), data, i)
<1>1. /\ m.heap \in Seq(Seq(Cell)) /\ Len(m.heap) \in Nat /\ m.arr \in 1 .. Len(m.heap) /\ m.len \in Nat
      /\ \A a \in 1 .. Len(m.heap) : m.heap[a] \in Seq(Cell) /\ Len(m.heap[a]) \in Nat
      /\ m.len <= Len(m.heap[m.arr]) /\ m \in MemoryState
  BY MemoryTypes, Zenon DEF MemorySound
<1>2. Len(data) \in Nat /\ \A j \in 1 .. Len(data) : data[j] \in Cell
  BY LenIsNat
<1>3. CASE i # 0 /\ Len(m.heap[i]) >= Len(data)
  <2> DEFINE old == m.heap[i]
             rest == SubSeq(old, Len(data) + 1, Len(old))
             s == data \o rest
             n == [m EXCEPT !.heap[i] = s]
             b == BufferOf(m, data, i)
  <2>1. i \in 1 .. Len(m.heap) /\ i # m.arr /\ old \in Seq(Cell) /\ Len(old) \in Nat
        /\ Len(data) <= Len(old)
    BY <1>1, <1>2, <1>3
  <2>2. rest \in Seq(Cell) /\ Len(rest) = Len(old) - Len(data)
    <3>1. PICK k \in Nat : Len(old) = Len(data) + k
      <4>1. Len(old) - Len(data) \in Nat /\ Len(old) = Len(data) + (Len(old) - Len(data))
        BY <1>2, <2>1
      <4> QED
        BY <4>1, Zenon
    <3> HIDE DEF old
    <3>2. SubSeq(old, Len(data) + 1, Len(data) + k) \in Seq(Cell)
          /\ Len(SubSeq(old, Len(data) + 1, Len(data) + k)) = k
      <4>1. Len(data) \in Nat /\ k \in Nat /\ Len(data) + k <= Len(old)
        BY <1>2, <2>1, <3>1
      <4>2. /\ Part(old, Len(data), k) \in Seq(Cell) /\ Len(Part(old, Len(data), k)) = k
            /\ \A j \in 1 .. k : Part(old, Len(data), k)[j] = old[Len(data) + j]
        BY <2>1, <4>1, PartAt
      <4> QED
        BY <4>2, Zenon DEF Part
    <3> QED
      BY <1>2, <2>1, <3>1, <3>2
  <2>3. /\ s \in Seq(Cell) /\ Len(s) = Len(old)
        /\ \A j \in 1 .. Len(data) : s[j] = data[j]
    <3> HIDE DEF rest, old
    <3>1. /\ s \in Seq(Cell) /\ Len(s) = Len(data) + Len(rest)
          /\ \A j \in 1 .. Len(data) + Len(rest) :
               s[j] = IF j <= Len(data) THEN data[j] ELSE rest[j - Len(data)]
      BY <2>2, ConcatProperties
    <3> QED
      BY <1>2, <2>1, <2>2, <3>1
  <2>4. Allocated(m, data, i) = n /\ b = [arr |-> i, start |-> 0, len |-> Len(data)]
    BY <1>3 DEF Allocated, BufferOf
  <2> HIDE DEF s, b
  <2>5. /\ MemorySound(n) /\ n.arr = m.arr /\ n.len = m.len /\ n.ctxs = m.ctxs
        /\ Len(n.heap) = Len(m.heap) /\ n.heap[i] = s
        /\ \A c \in 1 .. Len(m.heap) : c # i => n.heap[c] = m.heap[c]
    BY <2>1, <2>3, ArrayReplaced
  <2> HIDE DEF n
  <2>6. Changed(m, n, {i} \ {0}, m.len)
    <3>1. \A a \in 1 .. Len(m.heap) : a \notin {i} \ {0} => n.heap[a] = m.heap[a]
      BY <1>3, <2>5
    <3>2. n.heap[n.arr] = m.heap[m.arr] /\ Len(m.heap) <= Len(n.heap)
      BY <1>1, <2>1, <2>5, SMTT(30)
    <3> QED
      BY <2>5, <3>1, <3>2 DEF Changed
  <2>7. b \in Slice /\ b.arr = i /\ b.start = 0 /\ b.len = Len(data)
    BY <1>2, <2>1, <2>4 DEF Slice
  <2>8. Stands([slice |-> b, is |-> data], n)
    <3>1. DOMAIN n.heap = 1 .. Len(n.heap)
      BY <2>5, MemoryTypes
    <3>2. \A j \in 1 .. Len(data) : s[0 + j] = data[j]
      BY <2>3
    <3>3. 0 + Len(data) <= Len(s)
      BY <1>2, <2>1, <2>3
    <3>4. b.arr \in DOMAIN n.heap /\ n.heap[b.arr] = s
      BY <2>1, <2>5, <2>7, <3>1
    <3> QED
      BY <2>7, <3>2, <3>3, <3>4 DEF Stands
  <2>9. Buffered(m, n, b, data, i)
    BY <1>3, <2>1, <2>5, <2>6, <2>7, <2>8 DEF Buffered
  <2> QED
    BY <2>4, <2>9 DEF b
<1>4. CASE ~(i # 0 /\ Len(m.heap[i]) >= Len(data))
  <2> DEFINE pad == IF Len(data) < BufCap THEN BufCap - Len(data) ELSE 0
             s == data \o Zeros(pad)
             h == Append(m.heap, s)
             n == [m EXCEPT !.heap = Append(@, s)]
             b == BufferOf(m, data, i)
  <2>1. pad \in Nat
    BY <1>2, MemoryAssumption DEF BufCap
  <2>2. s \in Seq(Cell) /\ Len(s) = Len(data) + pad
        /\ \A j \in 1 .. Len(data) : s[j] = data[j]
    <3> HIDE DEF pad
    <3>1. Zeros(pad) \in Seq(Cell) /\ Len(Zeros(pad)) = pad
      BY <2>1, ZerosAt
    <3>2. /\ s \in Seq(Cell) /\ Len(s) = Len(data) + Len(Zeros(pad))
          /\ \A j \in 1 .. Len(data) + Len(Zeros(pad)) :
               s[j] = IF j <= Len(data) THEN data[j] ELSE Zeros(pad)[j - Len(data)]
      BY <3>1, ConcatProperties
    <3>3. \A j \in 1 .. Len(data) : j \in 1 .. Len(data) + pad /\ j <= Len(data)
      BY <1>2, <2>1
    <3> QED
      BY <3>1, <3>2, <3>3
  <2>3. Allocated(m, data, i) = n /\ b = [arr |-> Len(m.heap) + 1, start |-> 0, len |-> Len(data)]
    BY <1>4 DEF Allocated, BufferOf
  <2> HIDE DEF pad, s, b
  <2>4. /\ h \in Seq(Seq(Cell)) /\ Len(h) = Len(m.heap) + 1 /\ h[Len(m.heap) + 1] = s
        /\ \A c \in 1 .. Len(m.heap) : h[c] = m.heap[c]
    BY <1>1, <2>2, AppendAt
  <2>5. n = [m EXCEPT !.heap = h]
    OBVIOUS
  <2> HIDE DEF n, h
  <2>6. n \in MemoryState /\ n.heap = h /\ n.arr = m.arr /\ n.len = m.len /\ n.ctxs = m.ctxs
    BY <1>1, <2>4, <2>5, Zenon DEF MemoryState
  <2>7. MemorySound(n)
    <3>1. DOMAIN n.heap = 1 .. Len(n.heap)
      BY <2>4, <2>6, LenIsNat
    <3>a. h[m.arr] = m.heap[m.arr] /\ m.arr \in 1 .. Len(h)
      <4>1. m.arr \in 1 .. Len(m.heap) /\ Len(m.heap) \in Nat
        BY <1>1
      <4>2. h[m.arr] = m.heap[m.arr]
        BY <2>4, <4>1, Zenon
      <4> QED
        BY <2>4, <4>1, <4>2
    <3>2. n.heap[n.arr] = m.heap[m.arr] /\ n.arr \in 1 .. Len(n.heap)
      BY <2>6, <3>a
    <3>3. n.arr \in DOMAIN n.heap /\ n.len <= Len(n.heap[n.arr]) /\ m.len <= n.len
      BY <1>1, <2>6, <3>1, <3>2
    <3> QED
      BY <2>6, <3>3, SoundWhenKept
  <2>8. Changed(m, n, {i} \ {0}, m.len)
    <3>1. \A a \in 1 .. Len(m.heap) : n.heap[a] = m.heap[a]
      BY <2>4, <2>6
    <3>2. Len(m.heap) <= Len(n.heap)
      BY <1>1, <2>4, <2>6
    <3> QED
      BY <1>1, <2>6, <3>1, <3>2, Zenon DEF Changed
  <2>9. b \in Slice /\ b.arr = Len(m.heap) + 1 /\ b.start = 0 /\ b.len = Len(data)
    BY <1>1, <1>2, <2>3 DEF Slice
  <2>10. Stands([slice |-> b, is |-> data], n)
    <3>1. DOMAIN n.heap = 1 .. Len(n.heap) /\ b.arr \in DOMAIN n.heap /\ n.heap[b.arr] = s
      BY <1>1, <2>4, <2>6, <2>9, LenIsNat
    <3>2. \A j \in 1 .. Len(data) : s[0 + j] = data[j]
      BY <2>2
    <3>3. 0 + Len(data) <= Len(s)
      BY <1>2, <2>1, <2>2
    <3> QED
      BY <2>9, <3>1, <3>2, <3>3, Zenon DEF Stands
  <2>11. b.arr \in 1 .. Len(n.heap)
    BY <1>1, <2>4, <2>6, <2>9, SMTT(30)
  <2>12. Buffered(m, n, b, data, i)
    BY <2>6, <2>7, <2>8, <2>9, <2>10, <2>11 DEF Buffered
  <2> QED
    BY <2>3, <2>12 DEF b
<1> QED
  BY <1>3, <1>4

-----------------------------------------------------------------------------
(***************************************************************************)
(* Frames and memory.                                                      *)
(***************************************************************************)
\* What Whole says of frames and memory.
LEMMA WholeTypes ==
  ASSUME NEW fs, NEW m, NEW P, NEW A, Whole(fs, m, P, A)
  PROVE  /\ MemorySound(m) /\ Disjoint(m, P, A) /\ fs \in Seq(Frame) /\ Len(fs) \in Nat
         /\ DOMAIN fs = 1 .. Len(fs) /\ Len(m.ctxs) = Len(fs) + 1
         /\ \A i \in 1 .. Len(fs) : fs[i] \in Frame /\ FrameSound(fs, m, P, i)
         /\ fs # <<>> => Len(fs) # 0
<1>1. fs \in Seq(Frame)
  BY DEF Whole
<1>2. Len(fs) \in Nat /\ DOMAIN fs = 1 .. Len(fs) /\ \A i \in 1 .. Len(fs) : fs[i] \in Frame
  BY <1>1, LenIsNat
<1>3. fs # <<>> => Len(fs) # 0
  BY <1>1, EmptySeq
<1> QED
  BY <1>1, <1>2, <1>3 DEF Whole

\* Where the contexts lie.
LEMMA ContextsOrdered ==
  ASSUME NEW fs, NEW m, NEW P, NEW A, Whole(fs, m, P, A), NEW i \in 1 .. Len(fs)
  PROVE  /\ From(m, i) \in Nat /\ Upto(fs, m, i) \in Nat /\ From(m, i) <= Upto(fs, m, i)
         /\ From(m, i) <= Checkpoint(m) /\ Upto(fs, m, i) <= m.len
         /\ i < Len(fs) => Upto(fs, m, i) = From(m, i + 1) /\ Upto(fs, m, i) <= Checkpoint(m)
         /\ i = Len(fs) => From(m, i) = Checkpoint(m) /\ Upto(fs, m, i) = m.len
<1>1. /\ MemorySound(m) /\ Len(fs) \in Nat /\ Len(m.ctxs) = Len(fs) + 1
  BY WholeTypes
<1>2. /\ DOMAIN m.ctxs = 1 .. Len(m.ctxs) /\ m.len \in Nat
      /\ \A j \in 1 .. Len(m.ctxs) : m.ctxs[j].checkpoint \in Nat
      /\ Checkpoint(m) = m.ctxs[Len(m.ctxs)].checkpoint /\ Checkpoint(m) <= m.len
  BY <1>1, MemoryTypes
<1>3. \A j, k \in 1 .. Len(m.ctxs) : j <= k => m.ctxs[j].checkpoint <= m.ctxs[k].checkpoint
  BY <1>1, <1>2, Zenon DEF MemorySound
<1>4. i + 1 \in 1 .. Len(m.ctxs) /\ Len(m.ctxs) \in 1 .. Len(m.ctxs) /\ i + 1 <= Len(m.ctxs)
  BY <1>1
<1>5. From(m, i) \in Nat /\ From(m, i) <= Checkpoint(m)
  BY <1>2, <1>3, <1>4 DEF From
<1>6. CASE i = Len(fs)
  <2>1. Upto(fs, m, i) = m.len
    BY <1>6 DEF Upto
  <2>2. From(m, i) = Checkpoint(m)
    BY <1>1, <1>2, <1>6 DEF From
  <2>3. ~(i < Len(fs))
    BY <1>1, <1>6
  <2> QED
    BY <1>2, <1>5, <1>6, <2>1, <2>2, <2>3
<1>7. CASE i < Len(fs)
  <2>1. i # Len(fs) /\ i + 2 \in 1 .. Len(m.ctxs) /\ i + 1 <= i + 2 /\ i + 2 <= Len(m.ctxs)
        /\ i + 1 + 1 = i + 2
    BY <1>1, <1>7
  <2>2. Upto(fs, m, i) = m.ctxs[i + 2].checkpoint /\ Upto(fs, m, i) = From(m, i + 1)
    BY <2>1 DEF Upto, From
  <2>3. Upto(fs, m, i) \in Nat /\ From(m, i) <= Upto(fs, m, i) /\ Upto(fs, m, i) <= Checkpoint(m)
    <3>1. m.ctxs[i + 2].checkpoint \in Nat
      BY <1>2, <2>1
    <3>2. m.ctxs[i + 1].checkpoint <= m.ctxs[i + 2].checkpoint
      BY <1>3, <1>4, <2>1
    <3>3. m.ctxs[i + 2].checkpoint <= m.ctxs[Len(m.ctxs)].checkpoint
      BY <1>3, <1>4, <2>1
    <3> QED
      BY <1>2, <2>2, <3>1, <3>2, <3>3 DEF From
  <2>4. Upto(fs, m, i) <= m.len
    BY <1>1, <1>2, <2>3, MemoryTypes
  <2> QED
    BY <1>5, <2>1, <2>2, <2>3, <2>4
<1> QED
  BY <1>1, <1>6, <1>7

\* The frames below the running one do not notice what changes after its checkpoint.
LEMMA LowerFramesKept ==
  ASSUME NEW fs, NEW m, NEW P, NEW A, Whole(fs, m, P, A), NEW n, MemorySound(n), NEW Q,
         Changed(m, n, P, Checkpoint(m)), Q \subseteq P, NEW i \in 1 .. Len(fs)
  PROVE  /\ InputSound(fs[i], n, Q, From(m, i)) /\ Lasting(fs[i].ret, n, Q)
         /\ i < Len(fs) => Mirrors(fs[i].own, n, From(m, i))
<1>1. MemorySound(m) /\ fs[i] \in Frame /\ FrameSound(fs, m, P, i) /\ Len(fs) \in Nat
  BY WholeTypes
<1>2. /\ From(m, i) \in Nat /\ Upto(fs, m, i) \in Nat
      /\ From(m, i) <= Checkpoint(m)
      /\ i < Len(fs) => Upto(fs, m, i) <= Checkpoint(m)
  BY ContextsOrdered
<1>3. Checkpoint(m) \in Nat
  BY <1>1, MemoryTypes
<1>4. InputSound(fs[i], m, P, From(m, i)) /\ OwnSound(fs, m, i) /\ Lasting(fs[i].ret, m, P)
  BY <1>1 DEF FrameSound
<1>5. Lasting(fs[i].ret, n, Q)
  BY <1>1, <1>3, <1>4, LastingKept
<1>6. InputSound(fs[i], n, Q, From(m, i))
  <2> DEFINE h == fs[i].input
  <2>1. h \in Held /\ Stands(h, m) /\ h.slice.arr \notin P /\ h.slice.start + h.slice.len <= From(m, i)
    BY <1>1, <1>4 DEF InputSound, Frame
  <2>2. h.slice.start \in Nat /\ h.slice.len \in Nat
    BY <2>1 DEF Held, Slice
  <2> HIDE DEF h
  <2>3. h.slice.start + h.slice.len <= Checkpoint(m)
    BY <1>2, <1>3, <2>1, <2>2
  <2>4. Stands(h, n)
    BY <1>1, <1>3, <2>1, <2>3, StandsKept
  <2> QED
    BY <2>1, <2>4 DEF InputSound, h
<1>7. ASSUME i < Len(fs)
      PROVE  Mirrors(fs[i].own, n, From(m, i))
  <2> SUFFICES ASSUME NEW j \in 1 .. Len(fs[i].own)
               PROVE  n.heap[n.arr][From(m, i) + j] = fs[i].own[j]
    BY DEF Mirrors
  <2>1. Len(fs[i].own) = Upto(fs, m, i) - From(m, i)
        /\ m.heap[m.arr][From(m, i) + j] = fs[i].own[j]
    BY <1>4 DEF OwnSound, Mirrors
  <2>2. From(m, i) + j \in 1 .. Checkpoint(m)
    BY <1>2, <1>3, <1>7, <2>1, SMTT(30)
  <2>3. n.heap[n.arr][From(m, i) + j] = m.heap[m.arr][From(m, i) + j]
    BY <2>2, Zenon DEF Changed
  <2> QED
    BY <2>1, <2>3
<1> QED
  BY <1>5, <1>6, <1>7

\* The running frame changed, and memory after its checkpoint.
LEMMA TopChanged ==
  ASSUME NEW fs, NEW m, NEW P, NEW A, Whole(fs, m, P, A), fs # <<>>,
         NEW n, MemorySound(n), n.ctxs = m.ctxs, NEW Q, NEW B, Q \subseteq P,
         Changed(m, n, P, Checkpoint(m)), Disjoint(n, Q, B),
         NEW g \in Frame, g.input = Last(fs).input, g.out = Last(fs).out,
         g.words = Len(g.own), Len(g.own) = n.len - Checkpoint(m),
         Mirrors(g.own, n, Checkpoint(m)), Lasting(g.ret, n, Q)
  PROVE  Whole(Replaced(fs, g), n, Q, B)
<1>1. /\ MemorySound(m) /\ fs \in Seq(Frame) /\ Len(fs) \in Nat \ {0}
      /\ DOMAIN fs = 1 .. Len(fs) /\ Len(m.ctxs) = Len(fs) + 1
      /\ \A i \in 1 .. Len(fs) : FrameSound(fs, m, P, i)
  BY WholeTypes
<1>a. fs \in Seq(Frame) /\ Len(fs) \in Nat \ {0}
  BY <1>1
<1> DEFINE gs == Replaced(fs, g)
<1>2. /\ gs \in Seq(Frame) /\ Len(gs) = Len(fs) /\ gs[Len(fs)] = g
      /\ \A i \in 1 .. Len(fs) - 1 : gs[i] = fs[i]
  BY <1>a, ReplacedAt
<1> HIDE DEF gs
<1>3. \A i \in 1 .. Len(fs) : From(n, i) = From(m, i)
  BY DEF From
<1>4. \A i \in 1 .. Len(fs) - 1 : Upto(gs, n, i) = Upto(fs, m, i)
  <2>1. \A i \in 1 .. Len(fs) - 1 : i # Len(fs)
    BY <1>a
  <2> QED
    BY <1>2, <2>1 DEF Upto
<1>5. ASSUME NEW i \in 1 .. Len(fs)
      PROVE  FrameSound(gs, n, Q, i)
  <2>1. /\ InputSound(fs[i], n, Q, From(m, i)) /\ Lasting(fs[i].ret, n, Q)
        /\ i < Len(fs) => Mirrors(fs[i].own, n, From(m, i))
    BY LowerFramesKept, Zenon
  <2>2. OwnSound(fs, m, i) /\ OutSound(fs, i)
    BY <1>1 DEF FrameSound
  <2>3. i - 1 \in 1 .. Len(fs) - 1 \/ i = 1
    BY <1>1
  <2>4. CASE i < Len(fs)
    <3>1. i \in 1 .. Len(fs) - 1
      BY <1>1, <2>4
    <3>2. gs[i] = fs[i] /\ Upto(gs, n, i) = Upto(fs, m, i)
      BY <1>2, <1>4, <3>1
    <3>3. OwnSound(gs, n, i)
      BY <1>3, <2>1, <2>2, <2>4, <3>2 DEF OwnSound
    <3>4. OutSound(gs, i)
      BY <1>2, <2>2, <2>3, <3>2 DEF OutSound
    <3> QED
      BY <1>3, <2>1, <3>2, <3>3, <3>4 DEF FrameSound
  <2>5. CASE i = Len(fs)
    <3>1. From(m, i) = Checkpoint(m)
      BY <2>5, ContextsOrdered
    <3>2. gs[i] = g /\ Upto(gs, n, i) = n.len
      BY <1>2, <2>5 DEF Upto
    <3>3. OwnSound(gs, n, i)
      BY <1>3, <3>1, <3>2 DEF OwnSound
    <3>4. fs[i].input = g.input /\ fs[i].out = g.out
      BY <2>5 DEF Last
    <3>5. OutSound(gs, i)
      BY <1>2, <2>2, <2>3, <3>2, <3>4 DEF OutSound
    <3>6. InputSound(g, n, Q, From(n, i))
      BY <1>3, <2>1, <3>4 DEF InputSound
    <3> QED
      BY <3>2, <3>3, <3>5, <3>6 DEF FrameSound
  <2> QED
    BY <1>a, <2>4, <2>5
<1>6. DOMAIN gs = 1 .. Len(fs)
  BY <1>2, LenIsNat
<1>7. Whole(gs, n, Q, B)
  BY <1>1, <1>2, <1>5, <1>6 DEF Whole
<1> QED
  BY <1>7 DEF gs

-----------------------------------------------------------------------------
(***************************************************************************)
(* What an instruction does to the running frame and memory.               *)
(***************************************************************************)
\* The frame that runs: its memory is what it paid for, up to the end of the buffer.
LEMMA TopFacts ==
  ASSUME NEW fs, NEW m, NEW P, NEW A, Whole(fs, m, P, A), fs # <<>>
  PROVE  /\ Last(fs) \in Frame /\ Last(fs).own \in Seq(Cell) /\ Len(Last(fs).own) \in Nat
         /\ Last(fs).words = Len(Last(fs).own)
         /\ Len(Last(fs).own) = m.len - Checkpoint(m) /\ m.len = Checkpoint(m) + Len(Last(fs).own)
         /\ Checkpoint(m) \in Nat /\ m.len \in Nat /\ Checkpoint(m) <= m.len
         /\ Mirrors(Last(fs).own, m, Checkpoint(m)) /\ Lasting(Last(fs).ret, m, P)
         /\ LenOf(m) = Len(Last(fs).own)
<1>1. /\ MemorySound(m) /\ Len(fs) \in Nat /\ Len(fs) # 0
      /\ \A i \in 1 .. Len(fs) : fs[i] \in Frame /\ FrameSound(fs, m, P, i)
  BY WholeTypes
<1>2. Len(fs) \in 1 .. Len(fs) /\ Last(fs) = fs[Len(fs)]
  BY <1>1 DEF Last
<1>3. From(m, Len(fs)) = Checkpoint(m) /\ Upto(fs, m, Len(fs)) = m.len
  BY <1>2, ContextsOrdered
<1>4. Checkpoint(m) \in Nat /\ m.len \in Nat /\ Checkpoint(m) <= m.len
  BY <1>1, MemoryTypes
<1>5. OwnSound(fs, m, Len(fs)) /\ Lasting(Last(fs).ret, m, P) /\ Last(fs) \in Frame
  BY <1>1, <1>2 DEF FrameSound
<1>6. /\ Last(fs).words = Len(Last(fs).own) /\ Len(Last(fs).own) = m.len - Checkpoint(m)
      /\ Mirrors(Last(fs).own, m, Checkpoint(m))
  BY <1>2, <1>3, <1>5 DEF OwnSound
<1>7. Last(fs).own \in Seq(Cell)
  BY <1>5 DEF Frame
<1>8. Len(Last(fs).own) \in Nat
  BY <1>7, LenIsNat
<1>9. m.len = Checkpoint(m) + Len(Last(fs).own) /\ LenOf(m) = Len(Last(fs).own)
  BY <1>4, <1>6 DEF LenOf
<1> QED
  BY <1>4, <1>5, <1>6, <1>7, <1>8, <1>9, Zenon

\* What a program sees of its memory after an expansion.
LEMMA WithZerosAt ==
  ASSUME NEW own \in Seq(Cell), NEW n \in Nat
  PROVE  /\ WithZeros(own, n) \in Seq(Cell)
         /\ Len(WithZeros(own, n)) = IF n > Len(own) THEN n ELSE Len(own)
         /\ \A j \in 1 .. Len(own) : WithZeros(own, n)[j] = own[j]
         /\ \A j \in Len(own) + 1 .. n : WithZeros(own, n)[j] = 0
<1>1. Len(own) \in Nat
  BY LenIsNat
<1>2. CASE n > Len(own)
  <2>1. PICK k \in Nat : n = Len(own) + k
    <3>1. n - Len(own) \in Nat /\ n = Len(own) + (n - Len(own))
      BY <1>1, <1>2
    <3> QED
      BY <3>1
  <2>2. n - Len(own) = k
    BY <1>1, <2>1
  <2>3. Zeros(k) \in Seq(Cell) /\ Len(Zeros(k)) = k /\ \A j \in 1 .. k : Zeros(k)[j] = 0
    BY ZerosAt
  <2>4. /\ own \o Zeros(k) \in Seq(Cell) /\ Len(own \o Zeros(k)) = Len(own) + k
        /\ \A j \in 1 .. Len(own) + k :
             (own \o Zeros(k))[j] = IF j <= Len(own) THEN own[j] ELSE Zeros(k)[j - Len(own)]
    BY <2>3, ConcatProperties, ZenonT(60)
  <2>5. WithZeros(own, n) = own \o Zeros(k)
    BY <1>2, <2>2 DEF WithZeros
  <2>6. \A j \in 1 .. Len(own) : j \in 1 .. Len(own) + k /\ j <= Len(own)
    BY <1>1
  <2>7. \A j \in Len(own) + 1 .. n : j \in 1 .. Len(own) + k /\ ~(j <= Len(own))
          /\ j - Len(own) \in 1 .. k
    BY <1>1, <2>1
  <2> HIDE DEF Zeros
  <2> QED
    BY <1>2, <2>1, <2>3, <2>4, <2>5, <2>6, <2>7, Zenon
<1>3. CASE ~(n > Len(own))
  <2>1. WithZeros(own, n) = own
    BY <1>3 DEF WithZeros
  <2>2. \A j \in Len(own) + 1 .. n : FALSE
    BY <1>1, <1>3
  <2> QED
    BY <1>1, <1>3, <2>1, <2>2
<1> QED
  BY <1>2, <1>3

\* What a program sees of its memory after a write.
LEMMA WrittenAt ==
  ASSUME NEW own \in Seq(Cell), NEW offset \in Nat, NEW data \in Seq(Cell)
  PROVE  /\ Written(own, offset, data) \in Seq(Cell)
         /\ Len(Written(own, offset, data)) = Len(own)
         /\ \A j \in 1 .. Len(own) :
              Written(own, offset, data)[j] =
                IF j \in offset + 1 .. offset + Len(data) THEN data[j - offset] ELSE own[j]
<1>1. Len(own) \in Nat /\ DOMAIN own = 1 .. Len(own) /\ \A j \in 1 .. Len(own) : own[j] \in Cell
  BY LenIsNat
<1>2. Len(data) \in Nat /\ \A j \in 1 .. Len(data) : data[j] \in Cell
  BY LenIsNat
<1>3. \A j \in offset + 1 .. offset + Len(data) : j - offset \in 1 .. Len(data)
  BY <1>2
<1>4. Written(own, offset, data) \in [1 .. Len(own) -> Cell]
  BY <1>1, <1>2, <1>3 DEF Written
<1>5. Written(own, offset, data) \in Seq(Cell) /\ Len(Written(own, offset, data)) = Len(own)
  BY <1>1, <1>4, FunctionIsSeq, Zenon
<1>6. \A j \in 1 .. Len(own) :
        Written(own, offset, data)[j] =
          IF j \in offset + 1 .. offset + Len(data) THEN data[j - offset] ELSE own[j]
  BY <1>1 DEF Written
<1> QED
  BY <1>5, <1>6

\* Gas is paid and memory expanded.
LEMMA ExpandedIsWhole ==
  ASSUME NEW fs, NEW m, NEW P, NEW A, Whole(fs, m, P, A), fs # <<>>, NEW k \in Nat
  PROVE  /\ Whole(Replaced(fs, Paid(Last(fs), k)), Expanded(m, Last(fs), k), P, A)
         /\ Expanded(m, Last(fs), k).ctxs = m.ctxs
         /\ Changed(m, Expanded(m, Last(fs), k), P, Checkpoint(m))
         /\ Paid(Last(fs), k) \in Frame
         /\ Len(Paid(Last(fs), k).own) = IF k > Len(Last(fs).own) THEN k ELSE Len(Last(fs).own)
         /\ Expanded(m, Last(fs), k).len = Checkpoint(m) + Len(Paid(Last(fs), k).own)
<1> DEFINE f == Last(fs)
           g == Paid(f, k)
           n == Expanded(m, f, k)
<1>1. /\ f \in Frame /\ f.own \in Seq(Cell) /\ Len(f.own) \in Nat /\ f.words = Len(f.own)
      /\ m.len = Checkpoint(m) + Len(f.own) /\ Checkpoint(m) \in Nat /\ m.len \in Nat
      /\ Mirrors(f.own, m, Checkpoint(m)) /\ Lasting(f.ret, m, P) /\ Checkpoint(m) <= m.len
  BY TopFacts
<1>2. MemorySound(m) /\ Disjoint(m, P, A)
  BY DEF Whole
<1> HIDE DEF f
<1>3. /\ g \in Frame /\ g.input = f.input /\ g.out = f.out /\ g.ret = f.ret
      /\ g.words = (IF k > Len(f.own) THEN k ELSE Len(f.own)) /\ g.own = WithZeros(f.own, k)
  <2>1. WithZeros(f.own, k) \in Seq(Cell)
    BY <1>1, WithZerosAt
  <2>2. (IF k > f.words THEN k ELSE f.words) \in Nat
    BY <1>1
  <2> QED
    BY <1>1, <2>1, <2>2, Zenon DEF Paid, Frame
<1> HIDE DEF g
<1>4. /\ Len(g.own) = (IF k > Len(f.own) THEN k ELSE Len(f.own))
      /\ \A j \in 1 .. Len(f.own) : g.own[j] = f.own[j]
      /\ \A j \in Len(f.own) + 1 .. k : g.own[j] = 0
  BY <1>1, <1>3, WithZerosAt
<1>5. Extended(m, n, Checkpoint(m) + k)
  <2>1. CASE k <= f.words
    <3>1. n = m
      BY <2>1 DEF Expanded
    <3>2. Checkpoint(m) + k <= m.len
      BY <1>1, <2>1
    <3>3. \A j \in m.len + 1 .. m.len : FALSE
      BY <1>1
    <3>4. Changed(m, m, {}, m.len)
      BY <1>2, ChangedReflexive
    <3> QED
      BY <1>2, <3>1, <3>2, <3>3, <3>4 DEF Extended
  <2>2. CASE ~(k <= f.words)
    <3>1. n = Resize(m, k)
      BY <2>2 DEF Expanded
    <3> QED
      BY <1>2, <3>1, ResizeExtends
  <2> QED
    BY <2>1, <2>2
<1> HIDE DEF n
<1>6. /\ MemorySound(n) /\ n.ctxs = m.ctxs /\ Changed(m, n, {}, m.len)
      /\ n.len = IF Checkpoint(m) + k <= m.len THEN m.len ELSE Checkpoint(m) + k
      /\ \A j \in m.len + 1 .. n.len : n.heap[n.arr][j] = 0
  BY <1>5 DEF Extended
<1>7. n.len = Checkpoint(m) + Len(g.own)
  BY <1>1, <1>4, <1>6
<1>8. Changed(m, n, P, Checkpoint(m))
  BY <1>1, <1>6, ChangedBelow
<1>9. Mirrors(g.own, n, Checkpoint(m))
  <2> SUFFICES ASSUME NEW j \in 1 .. Len(g.own)
               PROVE  n.heap[n.arr][Checkpoint(m) + j] = g.own[j]
    BY DEF Mirrors
  <2>1. CASE j <= Len(f.own)
    <3>1. j \in 1 .. Len(f.own) /\ Checkpoint(m) + j \in 1 .. m.len
      BY <1>1, <2>1
    <3>2. n.heap[n.arr][Checkpoint(m) + j] = m.heap[m.arr][Checkpoint(m) + j]
      BY <1>6, <3>1 DEF Changed
    <3>3. m.heap[m.arr][Checkpoint(m) + j] = f.own[j]
      BY <1>1, <3>1 DEF Mirrors
    <3> QED
      BY <1>4, <3>1, <3>2, <3>3
  <2>2. CASE ~(j <= Len(f.own))
    <3>1. j \in Len(f.own) + 1 .. k
      BY <1>1, <1>4, <2>2
    <3>2. Checkpoint(m) + j \in m.len + 1 .. n.len
      BY <1>1, <1>4, <1>7, <3>1, SMTT(30)
    <3> QED
      BY <1>4, <1>6, <3>1, <3>2
  <2> QED
    BY <2>1, <2>2
<1>10. Disjoint(n, P, A)
  BY <1>2, <1>6, DisjointKept
<1>11. Lasting(g.ret, n, P)
  BY <1>1, <1>2, <1>3, <1>6, <1>8, LastingKept
<1>12. g.words = Len(g.own) /\ Len(g.own) = n.len - Checkpoint(m)
  <2>1. Len(g.own) \in Nat
    BY <1>1, <1>4
  <2> QED
    BY <1>1, <1>3, <1>4, <1>7, <2>1
<1>13. Whole(Replaced(fs, g), n, P, A)
  BY <1>3, <1>6, <1>8, <1>9, <1>10, <1>11, <1>12, TopChanged DEF f
<1> QED
  BY <1>3, <1>4, <1>6, <1>7, <1>8, <1>13 DEF f, g, n

\* Memory is written.
LEMMA WrittenIsWhole ==
  ASSUME NEW fs, NEW m, NEW P, NEW A, Whole(fs, m, P, A), fs # <<>>,
         NEW offset \in Nat, NEW data \in Seq(Cell), offset + Len(data) <= Len(Last(fs).own),
         NEW g \in Frame, g.input = Last(fs).input, g.out = Last(fs).out, g.words = Last(fs).words,
         g.own = Written(Last(fs).own, offset, data), Lasting(g.ret, m, P)
  PROVE  /\ Whole(Replaced(fs, g), Set(m, offset, data), P, A)
         /\ Set(m, offset, data).ctxs = m.ctxs
         /\ Changed(m, Set(m, offset, data), P, Checkpoint(m))
<1> DEFINE f == Last(fs)
           n == Set(m, offset, data)
           cp == Checkpoint(m)
<1>1. /\ f \in Frame /\ f.own \in Seq(Cell) /\ Len(f.own) \in Nat /\ f.words = Len(f.own)
      /\ m.len = cp + Len(f.own) /\ cp \in Nat /\ m.len \in Nat
      /\ Mirrors(f.own, m, cp)
  BY TopFacts
<1>2. MemorySound(m) /\ Disjoint(m, P, A)
  BY DEF Whole
<1>a. Len(data) \in Nat
  BY LenIsNat
<1> HIDE DEF f, cp
<1>3. cp + offset + Len(data) <= m.len /\ cp + offset \in Nat
  BY <1>1, <1>a DEF f
<1>4. /\ MemorySound(n) /\ n.ctxs = m.ctxs /\ n.len = m.len /\ n.arr = m.arr
      /\ Changed(m, n, {}, cp + offset)
      /\ \A j \in 1 .. Len(m.heap[m.arr]) :
           n.heap[m.arr][j] = IF j \in cp + offset + 1 .. cp + offset + Len(data)
                                THEN data[j - (cp + offset)] ELSE m.heap[m.arr][j]
  BY <1>2, <1>3, SetWrites, SMTT(30) DEF cp
<1> HIDE DEF n
<1>5. Changed(m, n, P, cp)
  BY <1>1, <1>3, <1>4, ChangedBelow
<1>6. /\ Len(g.own) = Len(f.own)
      /\ \A j \in 1 .. Len(f.own) :
           g.own[j] = IF j \in offset + 1 .. offset + Len(data) THEN data[j - offset] ELSE f.own[j]
  <2> DEFINE w == Written(f.own, offset, data)
  <2>1. /\ Len(w) = Len(f.own)
        /\ \A j \in 1 .. Len(f.own) :
             w[j] = IF j \in offset + 1 .. offset + Len(data) THEN data[j - offset] ELSE f.own[j]
    BY <1>1, WrittenAt
  <2>2. g.own = w
    BY DEF f
  <2> HIDE DEF w
  <2> QED
    BY <2>1, <2>2
<1>7. Mirrors(g.own, n, cp)
  <2> SUFFICES ASSUME NEW j \in 1 .. Len(f.own)
               PROVE  n.heap[n.arr][cp + j] = g.own[j]
    BY <1>6 DEF Mirrors
  <2>1. Len(m.heap[m.arr]) \in Nat /\ m.len <= Len(m.heap[m.arr])
    BY <1>2, MemoryTypes, Zenon
  <2>2. cp + j \in 1 .. Len(m.heap[m.arr])
    BY <1>1, <2>1, SMTT(30)
  <2>3. m.heap[m.arr][cp + j] = f.own[j]
    BY <1>1 DEF Mirrors
  <2>4. CASE j \in offset + 1 .. offset + Len(data)
    <3> DEFINE x == cp + j
    <3>1. x \in cp + offset + 1 .. cp + offset + Len(data) /\ x - (cp + offset) = j - offset
          /\ x \in 1 .. Len(m.heap[m.arr])
      BY <1>1, <1>a, <2>2, <2>4
    <3> HIDE DEF x
    <3>2. n.heap[n.arr][x] = data[x - (cp + offset)]
      <4>1. n.heap[m.arr][x] = data[x - (cp + offset)]
        BY <1>4, <3>1
      <4>2. n.arr = m.arr
        BY <1>4
      <4> QED
        BY <4>1, <4>2
    <3>3. g.own[j] = data[j - offset]
      BY <1>6, <2>4
    <3> QED
      BY <3>1, <3>2, <3>3 DEF x
  <2>5. CASE ~(j \in offset + 1 .. offset + Len(data))
    <3>1. ~(cp + j \in cp + offset + 1 .. cp + offset + Len(data))
      BY <1>1, <1>a, <2>5
    <3> QED
      BY <1>4, <1>6, <2>2, <2>3, <2>5, <3>1, Zenon
  <2> QED
    BY <2>4, <2>5
<1>8. Disjoint(n, P, A)
  BY <1>2, <1>4, DisjointKept
<1>9. Lasting(g.ret, n, P)
  BY <1>1, <1>2, <1>4, <1>5, LastingKept
<1>10. g.words = Len(g.own) /\ Len(g.own) = n.len - cp
  BY <1>1, <1>4, <1>6 DEF f
<1>11. Whole(Replaced(fs, g), n, P, A)
  BY <1>4, <1>5, <1>7, <1>8, <1>9, <1>10, TopChanged DEF cp
<1> QED
  BY <1>4, <1>5, <1>11 DEF n, cp

\* The running frame gets other return data.
LEMMA ReturnDataIsWhole ==
  ASSUME NEW fs, NEW m, NEW P, NEW A, Whole(fs, m, P, A), fs # <<>>,
         NEW g \in Frame, g.input = Last(fs).input, g.out = Last(fs).out, g.words = Last(fs).words,
         g.own = Last(fs).own, Lasting(g.ret, m, P)
  PROVE  Whole(Replaced(fs, g), m, P, A)
<1>1. /\ Last(fs).words = Len(Last(fs).own) /\ Len(Last(fs).own) = m.len - Checkpoint(m)
      /\ Mirrors(Last(fs).own, m, Checkpoint(m))
  BY TopFacts
<1>2. MemorySound(m) /\ Disjoint(m, P, A)
  BY DEF Whole
<1>3. Changed(m, m, P, Checkpoint(m))
  BY <1>2, ChangedReflexive
<1>4. g.words = Len(g.own) /\ Len(g.own) = m.len - Checkpoint(m) /\ Mirrors(g.own, m, Checkpoint(m))
  BY <1>1
<1> QED
  BY <1>2, <1>3, <1>4, TopChanged

\* To replace the last element by itself changes nothing.
LEMMA ReplacedSame ==
  ASSUME NEW S, NEW s \in Seq(S), s # <<>>
  PROVE  Replaced(s, Last(s)) = s
<1>1. Len(s) \in Nat \ {0} /\ Last(s) \in S /\ Last(s) = s[Len(s)]
  BY FrontAt
<1>2. /\ Replaced(s, Last(s)) \in Seq(S) /\ Len(Replaced(s, Last(s))) = Len(s)
      /\ \A i \in 1 .. Len(s) - 1 : Replaced(s, Last(s))[i] = s[i]
      /\ Replaced(s, Last(s))[Len(s)] = Last(s)
  <2> DEFINE last == Last(s)
  <2>1. last \in S
    BY <1>1
  <2> HIDE DEF last
  <2>2. /\ Replaced(s, last) \in Seq(S) /\ Len(Replaced(s, last)) = Len(s)
        /\ \A i \in 1 .. Len(s) - 1 : Replaced(s, last)[i] = s[i]
        /\ Replaced(s, last)[Len(s)] = last
    BY <2>1, ReplacedAt
  <2> QED
    BY <2>2 DEF last
<1>3. \A i \in 1 .. Len(s) : i \in 1 .. Len(s) - 1 \/ i = Len(s)
  BY <1>1
<1>4. \A i \in 1 .. Len(s) : Replaced(s, Last(s))[i] = s[i]
  BY <1>1, <1>2, <1>3
<1> QED
  BY <1>2, <1>4, SeqEqual

\* Data are put in a buffer.
LEMMA BufferedIsWhole ==
  ASSUME NEW fs, NEW m, NEW P, NEW A, Whole(fs, m, P, A), fs # <<>>,
         NEW i \in P \cup {0}, NEW data \in Seq(Cell)
  PROVE  /\ Whole(fs, Allocated(m, data, i), P \ {i}, A \cup {BufferOf(m, data, i).arr})
         /\ Allocated(m, data, i).ctxs = m.ctxs /\ Allocated(m, data, i).len = m.len
         /\ Changed(m, Allocated(m, data, i), P, Checkpoint(m))
         /\ BufferOf(m, data, i) \in Slice /\ BufferOf(m, data, i).len = Len(data)
         /\ BufferOf(m, data, i).arr \notin 1 .. Len(m.heap) \ P
         /\ Lasting([slice |-> BufferOf(m, data, i), is |-> data], Allocated(m, data, i), P \ {i})
<1> DEFINE n == Allocated(m, data, i)
           s == BufferOf(m, data, i)
           h == [slice |-> s, is |-> data]
<1>1. MemorySound(m) /\ Disjoint(m, P, A) /\ fs \in Seq(Frame)
  BY DEF Whole
<1>2. DOMAIN m.heap = 1 .. Len(m.heap) /\ Len(m.heap) \in Nat /\ m.arr \in 1 .. Len(m.heap)
  BY <1>1, MemoryTypes
<1>3. /\ P \subseteq 1 .. Len(m.heap) /\ A \subseteq 1 .. Len(m.heap) /\ P \cap A = {}
      /\ m.arr \notin P \cup A /\ 1 \notin P \cup A
  BY <1>1, <1>2 DEF Disjoint
<1>4. i \in 0 .. Len(m.heap) /\ i # m.arr
  BY <1>2, <1>3
<1>5. Buffered(m, n, s, data, i)
  BY <1>1, <1>4, AllocatedIsBuffer
<1> HIDE DEF n, s
<1>6. /\ MemorySound(n) /\ n.ctxs = m.ctxs /\ n.len = m.len /\ n.arr = m.arr
      /\ Changed(m, n, {i} \ {0}, m.len)
      /\ s \in Slice /\ s.arr \in ({i} \ {0}) \cup {Len(m.heap) + 1} /\ s.arr \in 1 .. Len(n.heap)
      /\ Stands(h, n) /\ s.len = Len(data)
  BY <1>5 DEF Buffered
<1>7. Checkpoint(m) \in Nat /\ m.len \in Nat /\ Checkpoint(m) <= m.len /\ {i} \ {0} \subseteq P
  BY <1>1, MemoryTypes
<1>8. Changed(m, n, P, Checkpoint(m))
  BY <1>6, <1>7, ChangedBelow
<1>9. s.arr \notin P \ {i} /\ s.arr # m.arr /\ s.arr # 1
  BY <1>2, <1>3, <1>6
<1>10. Lasting(h, n, P \ {i})
  <2>1. h \in Held
    BY <1>6 DEF Held
  <2> QED
    BY <1>6, <1>9, <2>1 DEF Lasting
<1>11. Disjoint(n, P \ {i}, A \cup {s.arr})
  <2>1. DOMAIN n.heap = 1 .. Len(n.heap) /\ Len(n.heap) \in Nat /\ Len(m.heap) <= Len(n.heap)
    BY <1>6, MemoryTypes DEF Changed
  <2>2. P \ {i} \subseteq DOMAIN n.heap /\ A \cup {s.arr} \subseteq DOMAIN n.heap
    <3>1. 1 .. Len(m.heap) \subseteq 1 .. Len(n.heap)
      BY <1>2, <2>1
    <3> QED
      BY <1>3, <1>6, <2>1, <3>1, Zenon
  <2>3. (P \ {i}) \cap (A \cup {s.arr}) = {} /\ n.arr \notin (P \ {i}) \cup (A \cup {s.arr})
        /\ 1 \notin (P \ {i}) \cup (A \cup {s.arr})
    BY <1>3, <1>6, <1>9, Zenon
  <2> QED
    BY <2>2, <2>3 DEF Disjoint
<1> DEFINE f == Last(fs)
<1>12. /\ f \in Frame /\ f.words = Len(f.own) /\ Len(f.own) = m.len - Checkpoint(m)
       /\ Mirrors(f.own, m, Checkpoint(m)) /\ Lasting(f.ret, m, P) /\ Len(f.own) \in Nat
       /\ m.len = Checkpoint(m) + Len(f.own)
  BY TopFacts
<1> HIDE DEF f
<1>13. Mirrors(f.own, n, Checkpoint(m))
  <2> SUFFICES ASSUME NEW j \in 1 .. Len(f.own)
               PROVE  n.heap[n.arr][Checkpoint(m) + j] = f.own[j]
    BY DEF Mirrors
  <2>1. Checkpoint(m) + j \in 1 .. m.len
    BY <1>7, <1>12, SMTT(30)
  <2>2. n.heap[n.arr][Checkpoint(m) + j] = m.heap[m.arr][Checkpoint(m) + j]
    BY <1>6, <2>1, Zenon DEF Changed
  <2>3. m.heap[m.arr][Checkpoint(m) + j] = f.own[j]
    BY <1>12 DEF Mirrors
  <2> QED
    BY <2>2, <2>3
<1>14. P \ {i} \subseteq P
  OBVIOUS
<1>15. Lasting(f.ret, n, P \ {i})
  BY <1>1, <1>6, <1>7, <1>8, <1>12, <1>14, LastingKept
<1>16. Len(f.own) = n.len - Checkpoint(m)
  BY <1>6, <1>12
<1>17. Whole(Replaced(fs, f), n, P \ {i}, A \cup {s.arr})
  BY <1>6, <1>8, <1>11, <1>12, <1>13, <1>14, <1>15, <1>16, TopChanged DEF f
<1>18. Replaced(fs, f) = fs
  BY <1>1, ReplacedSame DEF f
<1>19. s.arr \notin 1 .. Len(m.heap) \ P
  BY <1>2, <1>6
<1> QED
  BY <1>6, <1>8, <1>10, <1>17, <1>18, <1>19 DEF n, s

-----------------------------------------------------------------------------
(***************************************************************************)
(* Frames come and go.                                                     *)
(***************************************************************************)
\* No data: nil return data, an empty input, an empty output.
LEMMA NothingLasts ==
  ASSUME NEW m, NEW P, NEW A, MemorySound(m), Disjoint(m, P, A)
  PROVE  /\ Nothing \in Held /\ Lasting(Nothing, m, P) /\ Nothing.slice.arr \notin P \cup A
         /\ \A lo \in Nat : Nothing.slice.start + Nothing.slice.len <= lo
<1>1. DOMAIN m.heap = 1 .. Len(m.heap) /\ Len(m.heap) \in Nat \ {0}
      /\ Len(m.heap[1]) \in Nat
  <2>1. DOMAIN m.heap = 1 .. Len(m.heap) /\ Len(m.heap) \in Nat \ {0}
        /\ \A a \in 1 .. Len(m.heap) : Len(m.heap[a]) \in Nat
    BY MemoryTypes
  <2>2. 1 \in 1 .. Len(m.heap)
    BY <2>1
  <2> QED
    BY <2>1, <2>2
<1>2. /\ Nothing.slice = Nil /\ Nothing.is = <<>> /\ Nil.arr = 1 /\ Nil.start = 0 /\ Nil.len = 0
      /\ Nil \in Slice
  BY DEF Nothing, Nil, Slice
<1>3. Nothing \in Held
  BY <1>2, EmptySeq DEF Nothing, Held
<1>4. Len(<<>>) = 0
  BY EmptySeq
<1>5. Stands(Nothing, m)
  <2>1. 1 \in DOMAIN m.heap /\ 0 + 0 <= Len(m.heap[1])
    BY <1>1
  <2>2. \A j \in 1 .. 0 : FALSE
    OBVIOUS
  <2> QED
    BY <1>2, <1>4, <2>1, <2>2 DEF Stands
<1>6. 1 \notin P \cup A
  BY DEF Disjoint
<1>7. \A lo \in Nat : 0 + 0 <= lo
  OBVIOUS
<1> QED
  BY <1>2, <1>3, <1>5, <1>6, <1>7 DEF Lasting

\* A sub-frame begins where the buffer ends.
LEMMA ChildIsWhole ==
  ASSUME NEW fs, NEW m, NEW P, NEW A, Whole(fs, m, P, A), NEW g \in Frame,
         g.own = <<>>, g.words = 0, g.ret = Nothing, InputSound(g, m, P, m.len),
         fs # <<>> /\ g.out.len > 0 => g.out.offset + g.out.len <= Len(Last(fs).own)
  PROVE  /\ Whole(Append(fs, g), NewChildContext(m), P, A)
         /\ NewChildContext(m).heap = m.heap /\ NewChildContext(m).arr = m.arr
<1> DEFINE p == [Last(m.ctxs) EXCEPT !.hasChild = TRUE, !.child = m.len]
           r == Replaced(m.ctxs, p)
           c == Append(r, NewContext(m.len))
           n == NewChildContext(m)
           gs == Append(fs, g)
<1>1. /\ MemorySound(m) /\ Disjoint(m, P, A) /\ fs \in Seq(Frame) /\ Len(fs) \in Nat
      /\ DOMAIN fs = 1 .. Len(fs) /\ Len(m.ctxs) = Len(fs) + 1
      /\ \A i \in 1 .. Len(fs) : FrameSound(fs, m, P, i)
  BY WholeTypes
<1>a. fs \in Seq(Frame) /\ Len(fs) \in Nat /\ Len(m.ctxs) = Len(fs) + 1 /\ MemorySound(m)
  BY <1>1
<1>2. /\ m \in MemoryState /\ m.ctxs \in Seq(Context) /\ m.ctxs # <<>> /\ m.len \in Nat
      /\ \A i \in 1 .. Len(m.ctxs) : m.ctxs[i] \in Context /\ m.ctxs[i].checkpoint \in Nat
      /\ Checkpoint(m) = m.ctxs[Len(m.ctxs)].checkpoint /\ Checkpoint(m) <= m.len
      /\ m.arr \in DOMAIN m.heap /\ m.len <= Len(m.heap[m.arr])
  BY <1>a, MemoryTypes, Zenon DEF MemorySound
<1>3. Last(m.ctxs) \in Context /\ Last(m.ctxs) = m.ctxs[Len(m.ctxs)]
  BY <1>2, FrontAt
<1>4. /\ p \in Context /\ p.checkpoint = Checkpoint(m) /\ p.hasChild /\ p.child = m.len
      /\ NewContext(m.len) \in Context /\ NewContext(m.len).checkpoint = m.len
  BY <1>2, <1>3, Zenon DEF Context, NewContext
<1> HIDE DEF p
<1>5. /\ r \in Seq(Context) /\ Len(r) = Len(fs) + 1 /\ r[Len(fs) + 1] = p
      /\ \A i \in 1 .. Len(fs) : r[i] = m.ctxs[i]
  <2>1. /\ r \in Seq(Context) /\ Len(r) = Len(m.ctxs) /\ r[Len(m.ctxs)] = p
        /\ \A i \in 1 .. Len(m.ctxs) - 1 : r[i] = m.ctxs[i]
    <3>1. m.ctxs \in Seq(Context) /\ m.ctxs # <<>> /\ p \in Context
      BY <1>2, <1>4
    <3>2. \A s \in Seq(Context), e \in Context : s # <<>> =>
            /\ Replaced(s, e) \in Seq(Context) /\ Len(Replaced(s, e)) = Len(s)
            /\ Replaced(s, e)[Len(s)] = e
            /\ \A i \in 1 .. Len(s) - 1 : Replaced(s, e)[i] = s[i]
      BY ReplacedAt
    <3> QED
      BY <3>1, <3>2, Zenon
  <2>2. Len(m.ctxs) - 1 = Len(fs)
    BY <1>a
  <2> QED
    BY <1>a, <2>1, <2>2
<1> HIDE DEF r
<1>6. /\ c \in Seq(Context) /\ Len(c) = Len(fs) + 2 /\ c # <<>>
      /\ c[Len(fs) + 2].checkpoint = m.len
      /\ c[Len(fs) + 1].checkpoint = Checkpoint(m)
      /\ c[Len(fs) + 1].hasChild /\ c[Len(fs) + 1].child = m.len
      /\ \A i \in 1 .. Len(fs) : c[i] = m.ctxs[i]
      /\ \A i \in 1 .. Len(fs) + 1 : c[i].checkpoint = m.ctxs[i].checkpoint
  <2>1. /\ c \in Seq(Context) /\ Len(c) = Len(r) + 1 /\ c # <<>>
        /\ c[Len(r) + 1] = NewContext(m.len)
        /\ \A i \in 1 .. Len(r) : c[i] = r[i]
    BY <1>4, <1>5, AppendAt
  <2>2. Len(r) + 1 = Len(fs) + 2 /\ Len(fs) + 1 \in 1 .. Len(r) /\ 1 .. Len(fs) \subseteq 1 .. Len(r)
    BY <1>a, <1>5
  <2>3. c[Len(fs) + 1] = p /\ \A i \in 1 .. Len(fs) : c[i] = m.ctxs[i]
    BY <1>5, <2>1, <2>2
  <2>4. c[Len(fs) + 2] = NewContext(m.len) /\ Len(c) = Len(fs) + 2
    BY <2>1, <2>2
  <2>5. \A i \in 1 .. Len(fs) + 1 : i \in 1 .. Len(fs) \/ i = Len(fs) + 1
    BY <1>a
  <2>6. \A i \in 1 .. Len(fs) + 1 : c[i].checkpoint = m.ctxs[i].checkpoint
    BY <1>2, <1>4, <1>a, <2>3, <2>5, Zenon
  <2> QED
    BY <1>4, <2>1, <2>3, <2>4, <2>6
<1>7. n = [m EXCEPT !.ctxs = c]
  BY DEF NewChildContext, Replaced, p, r
<1> HIDE DEF c, n
<1>8. n \in MemoryState /\ n.ctxs = c /\ n.heap = m.heap /\ n.arr = m.arr /\ n.len = m.len
  BY <1>2, <1>6, <1>7, Zenon DEF MemoryState
<1>9. MemorySound(n)
  <2>1. DOMAIN c = 1 .. Len(fs) + 2
    BY <1>6, LenIsNat
  <2>2. \A i, j \in 1 .. Len(fs) + 1 : i <= j => m.ctxs[i].checkpoint <= m.ctxs[j].checkpoint
    <3>1. DOMAIN m.ctxs = 1 .. Len(fs) + 1
      BY <1>2, <1>a, LenIsNat
    <3> QED
      BY <1>a, <3>1, Zenon DEF MemorySound
  <2>3. \A i \in 1 .. Len(fs) + 1 : m.ctxs[i].checkpoint <= m.len
    <3>1. \A i \in 1 .. Len(fs) + 1 : i <= Len(fs) + 1 /\ Len(fs) + 1 \in 1 .. Len(fs) + 1
      BY <1>a
    <3>2. m.ctxs[Len(fs) + 1].checkpoint <= m.len /\ m.ctxs[Len(fs) + 1].checkpoint \in Nat
      BY <1>2, <1>a, <3>1
    <3> QED
      BY <1>2, <1>a, <2>2, <3>1, <3>2, SMTT(30)
  <2>4. \A i, j \in 1 .. Len(fs) + 2 : i <= j => c[i].checkpoint <= c[j].checkpoint
    <3> SUFFICES ASSUME NEW i \in 1 .. Len(fs) + 2, NEW j \in 1 .. Len(fs) + 2, i <= j
                 PROVE  c[i].checkpoint <= c[j].checkpoint
      OBVIOUS
    <3>1. CASE j \in 1 .. Len(fs) + 1
      <4>1. i \in 1 .. Len(fs) + 1
        BY <1>a, <3>1
      <4> QED
        BY <1>6, <2>2, <3>1, <4>1
    <3>2. CASE j = Len(fs) + 2 /\ i \in 1 .. Len(fs) + 1
      BY <1>6, <2>3, <3>2
    <3>3. CASE j = Len(fs) + 2 /\ i = Len(fs) + 2
      BY <1>2, <1>6, <3>3
    <3> QED
      BY <1>a, <3>1, <3>2, <3>3
  <2>5. \A i \in 1 .. Len(fs) + 1 : c[i].hasChild /\ c[i].child = c[i + 1].checkpoint
    <3> SUFFICES ASSUME NEW i \in 1 .. Len(fs) + 1
                 PROVE  c[i].hasChild /\ c[i].child = c[i + 1].checkpoint
      OBVIOUS
    <3>1. CASE i = Len(fs) + 1
      <4>1. i + 1 = Len(fs) + 2
        BY <1>a, <3>1
      <4> QED
        BY <1>6, <3>1, <4>1
    <3>2. CASE i \in 1 .. Len(fs)
      <4>1. i \in 1 .. Len(m.ctxs) - 1 /\ i + 1 \in 1 .. Len(fs) + 1
        BY <1>a, <3>2
      <4>2. m.ctxs[i].hasChild /\ m.ctxs[i].child = m.ctxs[i + 1].checkpoint
        BY <1>a, <4>1 DEF MemorySound
      <4> QED
        BY <1>6, <3>2, <4>1, <4>2
    <3> QED
      BY <1>a, <3>1, <3>2
  <2>6. Len(c) - 1 = Len(fs) + 1 /\ Len(c) = Len(fs) + 2
    BY <1>a, <1>6
  <2>7. c[Len(c)].checkpoint <= m.len
    BY <1>2, <1>6, <2>6
  <2> QED
    BY <1>2, <1>6, <1>8, <2>1, <2>4, <2>5, <2>6, <2>7 DEF MemorySound
<1>10. /\ gs \in Seq(Frame) /\ Len(gs) = Len(fs) + 1 /\ gs[Len(fs) + 1] = g
       /\ \A i \in 1 .. Len(fs) : gs[i] = fs[i]
  BY <1>a, AppendAt
<1> HIDE DEF gs
<1>11. Checkpoint(m) \in Nat /\ From(n, Len(fs) + 1) = m.len
       /\ \A i \in 1 .. Len(fs) : From(n, i) = From(m, i)
  <2>1. Len(fs) + 1 + 1 = Len(fs) + 2 /\ \A i \in 1 .. Len(fs) : i + 1 \in 1 .. Len(fs) + 1
    BY <1>a
  <2>2. Checkpoint(m) \in Nat
    BY <1>a, MemoryTypes
  <2> QED
    BY <1>6, <1>8, <2>1, <2>2, Zenon DEF From
<1>12. \A i \in 1 .. Len(fs) : Upto(gs, n, i) = Upto(fs, m, i)
  <2> SUFFICES ASSUME NEW i \in 1 .. Len(fs)
               PROVE  Upto(gs, n, i) = Upto(fs, m, i)
    OBVIOUS
  <2>1. i # Len(fs) + 1
    BY <1>a
  <2>2. Upto(gs, n, i) = c[i + 2].checkpoint
    BY <1>8, <1>10, <2>1 DEF Upto
  <2>3. CASE i = Len(fs)
    BY <1>6, <2>2, <2>3 DEF Upto
  <2>4. CASE i # Len(fs)
    <3>1. i + 2 \in 1 .. Len(fs) + 1
      BY <1>a, <2>4
    <3> QED
      BY <1>6, <2>2, <2>4, <3>1 DEF Upto
  <2> QED
    BY <2>3, <2>4
<1>13. \A h : Stands(h, n) <=> Stands(h, m)
  BY <1>8 DEF Stands
<1>14. \A h : Lasting(h, n, P) <=> Lasting(h, m, P)
  BY <1>8, <1>13 DEF Lasting
<1>15. \A i \in 1 .. Len(fs) : FrameSound(gs, n, P, i)
  <2> SUFFICES ASSUME NEW i \in 1 .. Len(fs)
               PROVE  FrameSound(gs, n, P, i)
    OBVIOUS
  <2>1. gs[i] = fs[i] /\ From(n, i) = From(m, i) /\ Upto(gs, n, i) = Upto(fs, m, i)
    BY <1>10, <1>11, <1>12
  <2>2. FrameSound(fs, m, P, i)
    BY <1>1
  <2>3. OwnSound(gs, n, i)
    BY <1>8, <2>1, <2>2 DEF FrameSound, OwnSound, Mirrors
  <2>4. InputSound(gs[i], n, P, From(n, i)) /\ Lasting(gs[i].ret, n, P)
    BY <1>13, <1>14, <2>1, <2>2 DEF FrameSound, InputSound
  <2>5. OutSound(gs, i)
    <3>1. i > 1 => i - 1 \in 1 .. Len(fs)
      BY <1>a
    <3> QED
      BY <1>10, <2>1, <2>2, <3>1 DEF FrameSound, OutSound
  <2> QED
    BY <2>3, <2>4, <2>5 DEF FrameSound
<1>16. FrameSound(gs, n, P, Len(fs) + 1)
  <2>1. Upto(gs, n, Len(fs) + 1) = m.len
    BY <1>8, <1>10 DEF Upto
  <2>2. OwnSound(gs, n, Len(fs) + 1)
    <3>1. Len(<<>>) = 0 /\ m.len - m.len = 0
      BY <1>2, EmptySeq
    <3>2. Mirrors(<<>>, n, m.len)
      BY <3>1 DEF Mirrors
    <3> QED
      BY <1>10, <1>11, <2>1, <3>1, <3>2 DEF OwnSound
  <2>3. InputSound(g, n, P, m.len)
    BY <1>13 DEF InputSound
  <2>4. Lasting(Nothing, n, P)
    BY <1>1, <1>14, NothingLasts
  <2>5. OutSound(gs, Len(fs) + 1)
    <3>1. Len(fs) + 1 > 1 => fs # <<>> /\ Len(fs) \in 1 .. Len(fs) /\ Len(fs) + 1 - 1 = Len(fs)
      BY <1>a, EmptySeq
    <3>2. Last(fs) = fs[Len(fs)]
      BY DEF Last
    <3> QED
      BY <1>10, <3>1, <3>2 DEF OutSound
  <2> QED
    BY <1>10, <1>11, <2>2, <2>3, <2>4, <2>5 DEF FrameSound
<1>17. DOMAIN gs = 1 .. Len(fs) + 1 /\ Len(n.ctxs) = Len(gs) + 1
  <2>1. Len(fs) + 2 = Len(fs) + 1 + 1
    BY <1>a
  <2> QED
    BY <1>6, <1>8, <1>10, <2>1, LenIsNat
<1>18. \A i \in 1 .. Len(fs) + 1 : FrameSound(gs, n, P, i)
  <2>1. \A i \in 1 .. Len(fs) + 1 : i \in 1 .. Len(fs) \/ i = Len(fs) + 1
    BY <1>a
  <2> QED
    BY <1>15, <1>16, <2>1
<1>19. Disjoint(n, P, A)
  BY <1>1, <1>8 DEF Disjoint
<1>20. Whole(gs, n, P, A)
  BY <1>9, <1>10, <1>17, <1>18, <1>19 DEF Whole
<1> QED
  BY <1>8, <1>20 DEF gs, n

\* A frame leaves; its parent's context ends where the buffer did when it was called.
LEMMA ReleasedIsWhole ==
  ASSUME NEW fs, NEW m, NEW P, NEW A, Whole(fs, m, P, A), fs # <<>>
  PROVE  /\ Whole(Front(fs), ReleaseChildContext(m), P, A)
         /\ ReleaseChildContext(m).heap = m.heap /\ ReleaseChildContext(m).arr = m.arr
<1> DEFINE gs == Front(fs)
           n == ReleaseChildContext(m)
           q == [m.ctxs[Len(m.ctxs) - 1] EXCEPT !.hasChild = FALSE]
           c == Append(Front(Front(m.ctxs)), q)
<1>1. /\ MemorySound(m) /\ Disjoint(m, P, A) /\ fs \in Seq(Frame) /\ Len(fs) \in Nat
      /\ Len(fs) # 0 /\ Len(m.ctxs) = Len(fs) + 1
      /\ \A i \in 1 .. Len(fs) : FrameSound(fs, m, P, i)
  BY WholeTypes
<1>2. PICK k \in Nat : Len(fs) = k + 1
  <2>1. Len(fs) - 1 \in Nat /\ Len(fs) = Len(fs) - 1 + 1
    BY <1>1
  <2> QED
    BY <2>1, Zenon
<1>3. Len(m.ctxs) = k + 2 /\ Len(m.ctxs) - 1 = k + 1 /\ Len(fs) - 1 = k
  BY <1>1, <1>2
<1>4. /\ m \in MemoryState /\ m.ctxs \in Seq(Context) /\ m.ctxs # <<>> /\ m.len \in Nat
      /\ \A i \in 1 .. k + 2 : m.ctxs[i] \in Context /\ m.ctxs[i].checkpoint \in Nat
      /\ m.arr \in DOMAIN m.heap /\ m.len <= Len(m.heap[m.arr])
      /\ DOMAIN m.ctxs = 1 .. k + 2 /\ Checkpoint(m) <= m.len
      /\ Checkpoint(m) = m.ctxs[k + 2].checkpoint
  BY <1>1, <1>3, MemoryTypes DEF MemorySound
<1>5. /\ \A i, j \in 1 .. k + 2 : i <= j => m.ctxs[i].checkpoint <= m.ctxs[j].checkpoint
      /\ \A i \in 1 .. k + 1 : m.ctxs[i].hasChild /\ m.ctxs[i].child = m.ctxs[i + 1].checkpoint
  BY <1>1, <1>3, <1>4, Zenon DEF MemorySound
<1>6. /\ q \in Context /\ q.checkpoint = m.ctxs[k + 1].checkpoint
  <2>1. m.ctxs[k + 1] \in Context
    BY <1>4
  <2> QED
    BY <1>3, <2>1, Zenon DEF Context
<1> HIDE DEF q
<1>7. /\ Front(m.ctxs) \in Seq(Context) /\ Len(Front(m.ctxs)) = k + 1 /\ Front(m.ctxs) # <<>>
      /\ \A i \in 1 .. k + 1 : Front(m.ctxs)[i] = m.ctxs[i]
  <2>1. m.ctxs \in Seq(Context) /\ m.ctxs # <<>>
    BY <1>4
  <2>2. /\ Front(m.ctxs) \in Seq(Context) /\ Len(Front(m.ctxs)) = k + 1
        /\ \A i \in 1 .. k + 1 : Front(m.ctxs)[i] = m.ctxs[i]
    BY <1>3, <2>1, FrontAt, Zenon
  <2>3. Front(m.ctxs) # <<>>
    BY <2>2, EmptySeq
  <2> QED
    BY <2>2, <2>3
<1>8. /\ c \in Seq(Context) /\ Len(c) = k + 1 /\ c # <<>> /\ c[k + 1] = q
      /\ \A i \in 1 .. k : c[i] = m.ctxs[i]
      /\ \A i \in 1 .. k + 1 : c[i].checkpoint = m.ctxs[i].checkpoint
  <2> DEFINE s == Front(m.ctxs)
  <2>1. s \in Seq(Context) /\ s # <<>> /\ Len(s) = k + 1 /\ \A i \in 1 .. k + 1 : s[i] = m.ctxs[i]
    BY <1>7
  <2> HIDE DEF s
  <2>2. /\ Append(Front(s), q) \in Seq(Context) /\ Append(Front(s), q) # <<>>
        /\ Len(Append(Front(s), q)) = Len(s)
        /\ \A i \in 1 .. Len(s) - 1 : Append(Front(s), q)[i] = s[i]
        /\ Append(Front(s), q)[Len(s)] = q
    BY <1>6, <2>1, ReplacedAt DEF Replaced
  <2>3. Len(s) - 1 = k /\ 1 .. k \subseteq 1 .. k + 1
    BY <2>1
  <2>4. /\ c \in Seq(Context) /\ Len(c) = k + 1 /\ c # <<>> /\ c[k + 1] = q
        /\ \A i \in 1 .. k : c[i] = m.ctxs[i]
    BY <2>1, <2>2, <2>3 DEF s
  <2>5. \A i \in 1 .. k + 1 : i \in 1 .. k \/ i = k + 1
    OBVIOUS
  <2> HIDE DEF c
  <2> QED
    BY <1>6, <2>4, <2>5
<1>9. n = [m EXCEPT !.ctxs = c, !.len = m.ctxs[k + 2].checkpoint]
  <2>1. m.ctxs[Len(m.ctxs) - 1].hasChild
        /\ m.ctxs[Len(m.ctxs) - 1].child = m.ctxs[k + 2].checkpoint
    <3>1. k + 1 \in 1 .. k + 1 /\ k + 1 + 1 = k + 2
      OBVIOUS
    <3> QED
      BY <1>3, <1>5, <3>1
  <2> QED
    BY <2>1 DEF ReleaseChildContext, q
<1> HIDE DEF c, n
<1>10. /\ n \in MemoryState /\ n.ctxs = c /\ n.heap = m.heap /\ n.arr = m.arr
       /\ n.len = m.ctxs[k + 2].checkpoint
  <2>1. m.ctxs[k + 2].checkpoint \in Nat
    BY <1>4
  <2> QED
    BY <1>4, <1>8, <1>9, <2>1, Zenon DEF MemoryState
<1>11. MemorySound(n)
  <2>1. DOMAIN c = 1 .. k + 1
    BY <1>8, LenIsNat
  <2>2. \A i, j \in 1 .. k + 1 : i <= j => c[i].checkpoint <= c[j].checkpoint
    <3>1. 1 .. k + 1 \subseteq 1 .. k + 2
      OBVIOUS
    <3> QED
      BY <1>5, <1>8, <3>1
  <2>3. \A i \in 1 .. k : c[i].hasChild /\ c[i].child = c[i + 1].checkpoint
    <3>1. \A i \in 1 .. k : i \in 1 .. k + 1 /\ i + 1 \in 1 .. k + 1
      OBVIOUS
    <3> QED
      BY <1>5, <1>8, <3>1, Zenon
  <2>4. Len(c) - 1 = k
    BY <1>8
  <2>5. c[Len(c)].checkpoint <= n.len
    <3>1. k + 1 \in 1 .. k + 2 /\ k + 2 \in 1 .. k + 2 /\ k + 1 <= k + 2 /\ k + 1 \in 1 .. k + 1
      OBVIOUS
    <3>2. m.ctxs[k + 1].checkpoint <= m.ctxs[k + 2].checkpoint
      BY <1>5, <3>1
    <3>3. c[k + 1].checkpoint = m.ctxs[k + 1].checkpoint
      BY <1>8, <3>1
    <3> QED
      BY <1>8, <1>10, <3>2, <3>3
  <2>6. n.len <= Len(n.heap[n.arr])
    <3>1. m.heap[m.arr] \in Seq(Cell) /\ Len(m.heap[m.arr]) \in Nat
      BY <1>1, MemoryTypes, Zenon
    <3>2. m.ctxs[k + 2].checkpoint \in Nat /\ m.ctxs[k + 2].checkpoint <= m.len
      BY <1>4
    <3> QED
      BY <1>4, <1>10, <3>1, <3>2
  <2>7. n.arr \in DOMAIN n.heap
    BY <1>4, <1>10
  <2> QED
    BY <1>8, <1>10, <2>1, <2>2, <2>3, <2>4, <2>5, <2>6, <2>7 DEF MemorySound
<1>12. /\ gs \in Seq(Frame) /\ Len(gs) = k /\ \A i \in 1 .. k : gs[i] = fs[i]
  <2>1. fs # <<>> /\ fs \in Seq(Frame)
    BY <1>1
  <2> QED
    BY <1>3, <2>1, FrontAt
<1> HIDE DEF gs
<1>13. \A i \in 1 .. k : From(n, i) = From(m, i)
  <2>1. \A i \in 1 .. k : i + 1 \in 1 .. k + 1
    OBVIOUS
  <2> QED
    BY <1>8, <1>10, <2>1 DEF From
<1>14. ASSUME NEW i \in 1 .. k
       PROVE  Upto(gs, n, i) = Upto(fs, m, i)
  <2>1. i # k + 1
    OBVIOUS
  <2>2. Upto(fs, m, i) = m.ctxs[i + 2].checkpoint
    BY <1>2, <2>1 DEF Upto
  <2>3. CASE i = k
    BY <1>10, <1>12, <2>2, <2>3 DEF Upto
  <2>4. CASE i # k
    <3>1. i + 2 \in 1 .. k + 1
      BY <2>4
    <3> QED
      BY <1>8, <1>10, <1>12, <2>2, <2>4, <3>1 DEF Upto
  <2> QED
    BY <2>3, <2>4
<1>15. \A h : Stands(h, n) <=> Stands(h, m)
  BY <1>10 DEF Stands
<1>16. \A h : Lasting(h, n, P) <=> Lasting(h, m, P)
  BY <1>10, <1>15 DEF Lasting
<1>17. ASSUME NEW i \in 1 .. k
       PROVE  FrameSound(gs, n, P, i)
  <2>1. gs[i] = fs[i] /\ From(n, i) = From(m, i) /\ Upto(gs, n, i) = Upto(fs, m, i)
    BY <1>12, <1>13, <1>14
  <2>2. FrameSound(fs, m, P, i)
    BY <1>1, <1>2
  <2>3. OwnSound(gs, n, i)
    BY <1>10, <2>1, <2>2 DEF FrameSound, OwnSound, Mirrors
  <2>4. InputSound(gs[i], n, P, From(n, i)) /\ Lasting(gs[i].ret, n, P)
    BY <1>15, <1>16, <2>1, <2>2 DEF FrameSound, InputSound
  <2>5. OutSound(gs, i)
    <3>1. i > 1 => i - 1 \in 1 .. k
      OBVIOUS
    <3> QED
      BY <1>12, <2>1, <2>2, <3>1 DEF FrameSound, OutSound
  <2> QED
    BY <2>3, <2>4, <2>5 DEF FrameSound
<1>18. DOMAIN gs = 1 .. k /\ Len(n.ctxs) = Len(gs) + 1
  BY <1>8, <1>10, <1>12, LenIsNat
<1>19. Disjoint(n, P, A)
  BY <1>1, <1>10 DEF Disjoint
<1>20. Whole(gs, n, P, A)
  BY <1>11, <1>12, <1>17, <1>18, <1>19 DEF Whole
<1> QED
  BY <1>10, <1>20 DEF gs, n

-----------------------------------------------------------------------------
(***************************************************************************)
(* What is held elsewhere: logs and results.                               *)
(***************************************************************************)
\* From m to n, with the free buffers P and then Q, the arena A and then B: what others hold
\* stays as it is.
Keeps(m, P, A, n, Q, B) ==
  /\ MemorySound(m) /\ MemorySound(n) /\ Changed(m, n, P, 0) /\ Q \subseteq P
  /\ \A a \in 1 .. Len(m.heap) : a \in B => a \in A \cup P

\* A step that changes memory alone keeps what others hold.
LEMMA KeepsWhenChanged ==
  ASSUME NEW m, NEW n, NEW P, NEW A, NEW lo \in Nat, MemorySound(m), MemorySound(n),
         Changed(m, n, P, lo)
  PROVE  Keeps(m, P, A, n, P, A)
<1>1. Changed(m, n, P, 0)
  BY ChangedBelow
<1> QED
  BY <1>1 DEF Keeps

\* Two steps that keep it are one.
LEMMA KeepsTransitive ==
  ASSUME NEW m, NEW P, NEW A, NEW n, NEW Q, NEW B, NEW o, NEW R, NEW C,
         Keeps(m, P, A, n, Q, B), Keeps(n, Q, B, o, R, C)
  PROVE  Keeps(m, P, A, o, R, C)
<1>1. /\ MemorySound(m) /\ MemorySound(n) /\ MemorySound(o)
      /\ Changed(m, n, P, 0) /\ Changed(n, o, Q, 0) /\ Q \subseteq P /\ R \subseteq Q
  BY DEF Keeps
<1>2. m.len \in Nat /\ n.len \in Nat /\ Len(m.heap) \in Nat /\ Len(n.heap) \in Nat
  BY <1>1, MemoryTypes
<1>3. 0 <= m.len /\ 0 <= n.len
  BY <1>2
<1>4. Changed(m, o, P, 0)
  BY <1>1, <1>3, ChangedTransitive
<1>5. Len(m.heap) <= Len(n.heap)
  BY <1>1 DEF Changed
<1>6. \A a \in 1 .. Len(m.heap) : a \in 1 .. Len(n.heap)
  BY <1>2, <1>5
<1>7. \A a \in 1 .. Len(m.heap) : a \in C => a \in A \cup P
  BY <1>1, <1>6 DEF Keeps
<1> QED
  BY <1>1, <1>4, <1>7 DEF Keeps

\* Log data outlive every step within the transaction.
LEMMA LogsKept ==
  ASSUME NEW ls, NEW m, NEW P, NEW A, NEW n, NEW Q, NEW B, LogsSound(ls, m, P),
         Keeps(m, P, A, n, Q, B)
  PROVE  LogsSound(ls, n, Q)
<1>1. \A i \in DOMAIN ls : Lasting(ls[i], n, Q)
  BY LastingKept DEF LogsSound, Keeps
<1> QED
  BY <1>1 DEF LogsSound

\* So does what the caller of Transact holds.
LEMMA ResultKept ==
  ASSUME NEW r, NEW m, NEW P, NEW A, NEW n, NEW Q, NEW B, ResultSound(r, m, P, A),
         Keeps(m, P, A, n, Q, B)
  PROVE  ResultSound(r, n, Q, B)
<1>1. ASSUME NEW i \in DOMAIN r.held
      PROVE  Lasting(r.held[i], n, Q) /\ (~r.borrowed => r.held[i].slice.arr \notin B)
  <2>1. Lasting(r.held[i], m, P) /\ (~r.borrowed => r.held[i].slice.arr \notin A)
    BY DEF ResultSound
  <2>2. MemorySound(m) /\ MemorySound(n) /\ Changed(m, n, P, 0) /\ Q \subseteq P
    BY DEF Keeps
  <2>3. Lasting(r.held[i], n, Q)
    BY <2>1, <2>2, LastingKept
  <2>4. r.held[i].slice.arr \in 1 .. Len(m.heap) /\ r.held[i].slice.arr \notin P
    BY <2>1, <2>2, MemoryTypes, Zenon DEF Lasting, Stands
  <2>5. ~r.borrowed => r.held[i].slice.arr \notin B
    BY <2>1, <2>4 DEF Keeps
  <2> QED
    BY <2>3, <2>5
<1> QED
  BY <1>1 DEF ResultSound

-----------------------------------------------------------------------------
(***************************************************************************)
(* Instructions, on a machine that is whole.                               *)
(***************************************************************************)
\* The frame that runs is replaced twice: the second one counts.
LEMMA ReplacedTwice ==
  ASSUME NEW S, NEW s \in Seq(S), s # <<>>, NEW d \in S, NEW e
  PROVE  Replaced(Replaced(s, d), e) = Replaced(s, e)
<1>1. Front(s) \in Seq(S)
  BY FrontAt
<1>2. Front(Append(Front(s), d)) = Front(s)
  BY <1>1, FrontOfEnded
<1> QED
  BY <1>2 DEF Replaced

\* The frames and memory after k words are paid.
AfterPaying(fs, k) == Replaced(fs, Paid(Last(fs), k))

\* A frame pays and its memory grows: ResizeMemory, as a step on frames and memory.
LEMMA PaysAndExpands ==
  ASSUME NEW fs, NEW m, NEW P, NEW A, Whole(fs, m, P, A), fs # <<>>, NEW k \in Nat
  PROVE  /\ Whole(AfterPaying(fs, k), Expanded(m, Last(fs), k), P, A)
         /\ Keeps(m, P, A, Expanded(m, Last(fs), k), P, A)
         /\ AfterPaying(fs, k) \in Seq(Frame) /\ AfterPaying(fs, k) # <<>>
         /\ Last(AfterPaying(fs, k)) = Paid(Last(fs), k)
         /\ Len(AfterPaying(fs, k)) = Len(fs)
         /\ \A g : Replaced(AfterPaying(fs, k), g) = Replaced(fs, g)
         /\ Paid(Last(fs), k) \in Frame /\ Paid(Last(fs), k).own \in Seq(Cell)
         /\ Len(Paid(Last(fs), k).own) \in Nat /\ k <= Len(Paid(Last(fs), k).own)
         /\ Len(Last(fs).own) <= Len(Paid(Last(fs), k).own)
         /\ Expanded(m, Last(fs), k).len = Checkpoint(m) + Len(Paid(Last(fs), k).own)
         /\ Expanded(m, Last(fs), k).ctxs = m.ctxs
         /\ Checkpoint(Expanded(m, Last(fs), k)) = Checkpoint(m)
         /\ Changed(m, Expanded(m, Last(fs), k), P, Checkpoint(m))
<1> DEFINE f == Last(fs)
           g == Paid(f, k)
           n == Expanded(m, f, k)
<1>1. /\ Whole(Replaced(fs, g), n, P, A) /\ n.ctxs = m.ctxs /\ Changed(m, n, P, Checkpoint(m))
      /\ g \in Frame /\ Len(g.own) = (IF k > Len(f.own) THEN k ELSE Len(f.own))
      /\ n.len = Checkpoint(m) + Len(g.own)
  BY ExpandedIsWhole
<1>2. MemorySound(m) /\ fs \in Seq(Frame) /\ Len(f.own) \in Nat
  BY TopFacts DEF Whole
<1> HIDE DEF n, g, f
<1>3. MemorySound(n)
  BY <1>1 DEF Whole
<1>4. Keeps(m, P, A, n, P, A)
  <2>1. Checkpoint(m) \in Nat
    BY <1>2, MemoryTypes
  <2> QED
    BY <1>1, <1>2, <1>3, <2>1, KeepsWhenChanged
<1>5. Replaced(fs, g) \in Seq(Frame) /\ Replaced(fs, g) # <<>> /\ Last(Replaced(fs, g)) = g
      /\ Len(Replaced(fs, g)) = Len(fs)
  BY <1>1, <1>2, ReplacedAt
<1>6. \A h : Replaced(Replaced(fs, g), h) = Replaced(fs, h)
  BY <1>1, <1>2, ReplacedTwice
<1>7. g.own \in Seq(Cell)
  BY <1>1 DEF Frame
<1>8. Len(g.own) \in Nat /\ k <= Len(g.own) /\ Len(f.own) <= Len(g.own)
  BY <1>1, <1>2
<1>9. Checkpoint(n) = Checkpoint(m)
  BY <1>1 DEF Checkpoint
<1> QED
  BY <1>1, <1>4, <1>5, <1>6, <1>7, <1>8, <1>9 DEF AfterPaying, n, g, f

\* A frame writes within what it paid for: Set, as a step on frames and memory.
LEMMA WriteKeeps ==
  ASSUME NEW fs, NEW m, NEW P, NEW A, Whole(fs, m, P, A), fs # <<>>,
         NEW offset \in Nat, NEW data \in Seq(Cell), offset + Len(data) <= Len(Last(fs).own),
         NEW g, g = [Last(fs) EXCEPT !.own = Written(@, offset, data)]
  PROVE  /\ Whole(Replaced(fs, g), Set(m, offset, data), P, A)
         /\ Keeps(m, P, A, Set(m, offset, data), P, A)
<1>1. Last(fs) \in Frame /\ Last(fs).own \in Seq(Cell) /\ Lasting(Last(fs).ret, m, P)
  BY TopFacts
<1>2. Written(Last(fs).own, offset, data) \in Seq(Cell)
  BY <1>1, WrittenAt, Zenon
<1>3. /\ g \in Frame /\ g.input = Last(fs).input /\ g.out = Last(fs).out /\ g.words = Last(fs).words
      /\ g.own = Written(Last(fs).own, offset, data) /\ g.ret = Last(fs).ret
  BY <1>1, <1>2, Zenon DEF Frame
<1>4. Lasting(g.ret, m, P)
  BY <1>1, <1>3
<1>5. /\ Whole(Replaced(fs, g), Set(m, offset, data), P, A)
      /\ Changed(m, Set(m, offset, data), P, Checkpoint(m))
  BY <1>3, <1>4, WrittenIsWhole, Zenon
<1>6. MemorySound(m) /\ MemorySound(Set(m, offset, data))
  BY <1>5 DEF Whole
<1>7. Checkpoint(m) \in Nat
  BY <1>6, MemoryTypes
<1> QED
  BY <1>5, <1>6, <1>7, KeepsWhenChanged

\* What a program reads is what it wrote.
LEMMA ReadsOwn ==
  ASSUME NEW fs, NEW m, NEW P, NEW A, Whole(fs, m, P, A), fs # <<>>,
         NEW offset \in Nat, NEW n \in Nat, offset + n <= Len(Last(fs).own)
  PROVE  /\ Read(m, offset, n) \in Seq(Cell) /\ Len(Read(m, offset, n)) = n
         /\ Read(m, offset, n) = SubSeq(Last(fs).own, offset + 1, offset + n)
<1> DEFINE own == Last(fs).own
           data == Read(m, offset, n)
           part == SubSeq(own, offset + 1, offset + n)
<1>1. /\ own \in Seq(Cell) /\ Len(own) \in Nat /\ m.len = Checkpoint(m) + Len(own)
      /\ Checkpoint(m) \in Nat /\ Mirrors(own, m, Checkpoint(m))
  BY TopFacts
<1>2. MemorySound(m) /\ Checkpoint(m) + offset + n <= m.len
  BY <1>1 DEF Whole
<1>3. /\ data \in Seq(Cell) /\ Len(data) = n
      /\ \A j \in 1 .. n : data[j] = m.heap[m.arr][Checkpoint(m) + offset + j]
  BY <1>2, ReadAt
<1>4. part \in Seq(Cell) /\ Len(part) = n /\ \A j \in 1 .. n : part[j] = own[offset + j]
  <2>1. own \in Seq(Cell) /\ offset + n <= Len(own)
    BY <1>1
  <2> HIDE DEF own
  <2>2. /\ Part(own, offset, n) \in Seq(Cell) /\ Len(Part(own, offset, n)) = n
        /\ \A j \in 1 .. n : Part(own, offset, n)[j] = own[offset + j]
    BY <2>1, PartAt
  <2> QED
    BY <2>2, Zenon DEF Part
<1> HIDE DEF own, data, part
<1>5. ASSUME NEW j \in 1 .. n
      PROVE  data[j] = part[j]
  <2>1. offset + j \in 1 .. Len(own) /\ Checkpoint(m) + offset + j = Checkpoint(m) + (offset + j)
    BY <1>1 DEF own
  <2>2. m.heap[m.arr][Checkpoint(m) + (offset + j)] = own[offset + j]
    BY <1>1, <2>1 DEF Mirrors
  <2> QED
    BY <1>3, <1>4, <2>1, <2>2
<1>6. data = part
  BY <1>3, <1>4, <1>5, SeqEqual
<1> QED
  BY <1>3, <1>6 DEF own, data, part

\* A buffer is taken for data, as a step on frames and memory.
LEMMA BufferKeeps ==
  ASSUME NEW fs, NEW m, NEW P, NEW A, Whole(fs, m, P, A), fs # <<>>,
         NEW i \in P \cup {0}, NEW data \in Seq(Cell)
  PROVE  /\ Whole(fs, Allocated(m, data, i), P \ {i}, A \cup {BufferOf(m, data, i).arr})
         /\ Keeps(m, P, A, Allocated(m, data, i), P \ {i}, A \cup {BufferOf(m, data, i).arr})
         /\ Lasting([slice |-> BufferOf(m, data, i), is |-> data], Allocated(m, data, i), P \ {i})
         /\ BufferOf(m, data, i).len = Len(data) /\ BufferOf(m, data, i) \in Slice
<1> DEFINE n == Allocated(m, data, i)
           s == BufferOf(m, data, i)
<1>1. /\ Whole(fs, n, P \ {i}, A \cup {s.arr})
      /\ Changed(m, n, P, Checkpoint(m)) /\ s.arr \notin 1 .. Len(m.heap) \ P
      /\ Lasting([slice |-> s, is |-> data], n, P \ {i}) /\ s.len = Len(data) /\ s \in Slice
  <2>1. Whole(fs, n, P \ {i}, A \cup {s.arr})
    BY BufferedIsWhole, Zenon
  <2>2. Changed(m, n, P, Checkpoint(m))
    BY BufferedIsWhole, Zenon
  <2>3. s.arr \notin 1 .. Len(m.heap) \ P
    BY BufferedIsWhole, Zenon
  <2>4. Lasting([slice |-> s, is |-> data], n, P \ {i})
    BY BufferedIsWhole, Zenon
  <2>5. s.len = Len(data)
    BY DEF BufferOf
  <2>6. s \in Slice
    BY BufferedIsWhole, Zenon
  <2> QED
    BY <2>1, <2>2, <2>3, <2>4, <2>5, <2>6
<1> HIDE DEF n, s
<1>2. MemorySound(m) /\ MemorySound(n)
  BY <1>1 DEF Whole
<1>3. Checkpoint(m) \in Nat
  BY <1>2, MemoryTypes
<1>4. Changed(m, n, P, 0)
  BY <1>1, <1>2, <1>3, ChangedBelow
<1>5. P \ {i} \subseteq P /\ \A a \in 1 .. Len(m.heap) : a \in A \cup {s.arr} => a \in A \cup P
  BY <1>1
<1>6. Keeps(m, P, A, n, P \ {i}, A \cup {s.arr})
  BY <1>2, <1>4, <1>5 DEF Keeps
<1> QED
  BY <1>1, <1>6 DEF n, s

-----------------------------------------------------------------------------
(***************************************************************************)
(* The end of a frame.                                                     *)
(***************************************************************************)
\* A slice that stands reads as it ought to.
LEMMA ViewIsContents ==
  ASSUME NEW h \in Held, NEW m, MemorySound(m), Stands(h, m)
  PROVE  View(m, h.slice) = h.is
<1> DEFINE a == m.heap[h.slice.arr]
           n == h.slice.len
           b == h.slice.start
<1>1. h.is \in Seq(Cell) /\ n \in Nat /\ b \in Nat
  BY DEF Held, Slice
<1>2. a \in Seq(Cell) /\ Len(a) \in Nat
  BY MemoryTypes DEF Stands
<1>3. b + n <= Len(a) /\ Len(h.is) = n /\ \A j \in 1 .. n : a[b + j] = h.is[j]
  BY DEF Stands
<1>4. View(m, h.slice) = SubSeq(a, b + 1, b + n)
  BY DEF View
<1> HIDE DEF a, b, n
<1>5. /\ SubSeq(a, b + 1, b + n) \in Seq(Cell) /\ Len(SubSeq(a, b + 1, b + n)) = n
      /\ \A j \in 1 .. n : SubSeq(a, b + 1, b + n)[j] = a[b + j]
  <2>1. a \in Seq(Cell) /\ b \in Nat /\ n \in Nat /\ b + n <= Len(a)
    BY <1>1, <1>2, <1>3
  <2>2. /\ Part(a, b, n) \in Seq(Cell) /\ Len(Part(a, b, n)) = n
        /\ \A j \in 1 .. n : Part(a, b, n)[j] = a[b + j]
    BY <2>1, PartAt
  <2> QED
    BY <2>2, Zenon DEF Part
<1>6. SubSeq(a, b + 1, b + n) = h.is
  BY <1>1, <1>3, <1>5, SeqEqual
<1> QED
  BY <1>4, <1>6

\* The output goes to the parent, as return data and to its memory.
LEMMA DeliveredIsWhole ==
  ASSUME NEW fs, NEW m, NEW P, NEW A, Whole(fs, m, P, A), fs # <<>>,
         NEW f \in Frame, NEW output, Lasting(output, m, P), NEW kept \in Kept(f, output),
         f.out.len > 0 => f.out.offset + f.out.len <= Len(Last(fs).own)
  PROVE  LET d == Delivered(f, Last(fs), m, output, kept)
         IN  Whole(Replaced(fs, d.frame), d.mem, P, A) /\ Keeps(m, P, A, d.mem, P, A)
<1> DEFINE p == Last(fs)
           n == IF f.create THEN 0
                  ELSE IF f.out.len < output.slice.len THEN f.out.len ELSE output.slice.len
           part == SubSeq(output.is, 1, n)
           g == [p EXCEPT !.ret = kept, !.own = Written(@, f.out.offset, part)]
           d == Delivered(f, p, m, output, kept)
<1>1. MemorySound(m) /\ Disjoint(m, P, A)
  BY DEF Whole
<1>2. p \in Frame /\ p.own \in Seq(Cell) /\ Len(p.own) \in Nat
  BY TopFacts
<1>3. Lasting(kept, m, P) /\ kept \in Held
  <2>1. kept = Nothing \/ kept = output
    BY DEF Kept
  <2>2. Lasting(Nothing, m, P)
    BY <1>1, NothingLasts
  <2> QED
    BY <2>1, <2>2 DEF Lasting
<1>4. /\ output \in Held /\ output.is \in Seq(Cell) /\ output.slice.len \in Nat
      /\ Len(output.is) = output.slice.len /\ Stands(output, m)
  BY DEF Lasting, Stands, Held, Slice
<1>5. f.out.len \in Nat /\ f.out.offset \in Nat /\ f.create \in BOOLEAN
  BY DEF Frame, MemoryRange
<1>6. n \in Nat /\ n <= output.slice.len /\ n <= f.out.len
  <2>1. CASE f.create
    BY <1>4, <1>5, <2>1
  <2>2. CASE ~f.create /\ f.out.len < output.slice.len
    BY <1>4, <1>5, <2>2
  <2>3. CASE ~f.create /\ ~(f.out.len < output.slice.len)
    BY <1>4, <1>5, <2>3
  <2> QED
    BY <2>1, <2>2, <2>3
<1>7. d.frame = g
  BY DEF Delivered
<1>8. d.mem = IF n = 0 THEN m
                ELSE Set(m, f.out.offset, SubSeq(View(m, output.slice), 1, n))
  BY DEF Delivered
<1>9. View(m, output.slice) = output.is
  BY <1>1, <1>4, ViewIsContents
<1> HIDE DEF n, d, p
<1>10. part \in Seq(Cell) /\ Len(part) = n
  <2>1. 0 + 1 = 1 /\ 0 + n = n /\ 0 + n <= Len(output.is)
    BY <1>4, <1>6
  <2>2. SubSeq(output.is, 0 + 1, 0 + n) \in Seq(Cell) /\ Len(SubSeq(output.is, 0 + 1, 0 + n)) = n
    <3>1. output.is \in Seq(Cell) /\ n \in Nat /\ 0 \in Nat
      BY <1>4, <1>6
    <3>2. /\ Part(output.is, 0, n) \in Seq(Cell) /\ Len(Part(output.is, 0, n)) = n
          /\ \A j \in 1 .. n : Part(output.is, 0, n)[j] = output.is[0 + j]
      BY <2>1, <3>1, PartAt
    <3> QED
      BY <3>2, Zenon DEF Part
  <2> QED
    BY <2>1, <2>2
<1> HIDE DEF part
<1> DEFINE w == Written(p.own, f.out.offset, part)
<1>11. /\ w \in Seq(Cell) /\ Len(w) = Len(p.own)
       /\ \A j \in 1 .. Len(p.own) :
            w[j] = IF j \in f.out.offset + 1 .. f.out.offset + Len(part)
                     THEN part[j - f.out.offset] ELSE p.own[j]
  <2> DEFINE own == p.own
             at == f.out.offset
  <2>1. own \in Seq(Cell) /\ at \in Nat /\ part \in Seq(Cell)
    BY <1>2, <1>5, <1>10
  <2>2. w = Written(own, at, part)
    OBVIOUS
  <2> HIDE DEF w, own, at
  <2>3. /\ Written(own, at, part) \in Seq(Cell) /\ Len(Written(own, at, part)) = Len(own)
        /\ \A j \in 1 .. Len(own) :
             Written(own, at, part)[j] =
               IF j \in at + 1 .. at + Len(part) THEN part[j - at] ELSE own[j]
    BY <2>1, WrittenAt
  <2> QED
    BY <2>2, <2>3 DEF own, at
<1>12. g = [p EXCEPT !.ret = kept, !.own = w]
  BY <1>2 DEF Frame
<1> HIDE DEF w, g
<1>13. g \in Frame /\ g.input = p.input /\ g.out = p.out /\ g.words = p.words /\ g.own = w
       /\ g.ret = kept
  BY <1>2, <1>3, <1>11, <1>12, Zenon DEF Frame
<1>14. CASE n = 0
  <2>1. d.mem = m
    BY <1>8, <1>14
  <2>2. w = p.own
    <3>1. \A j \in 1 .. Len(p.own) : ~(j \in f.out.offset + 1 .. f.out.offset + Len(part))
      BY <1>5, <1>10, <1>14
    <3>2. \A j \in 1 .. Len(p.own) : w[j] = p.own[j]
      BY <1>11, <3>1
    <3> QED
      BY <1>2, <1>11, <3>2, SeqEqual
  <2>3. Lasting(g.ret, m, P)
    BY <1>3, <1>13
  <2>4. Whole(Replaced(fs, g), m, P, A)
    BY <1>13, <2>2, <2>3, ReturnDataIsWhole DEF p
  <2>5. Keeps(m, P, A, m, P, A)
    <3>1. Changed(m, m, P, 0)
      BY <1>1, ChangedReflexive
    <3> QED
      BY <1>1, <3>1, KeepsWhenChanged
  <2> QED
    BY <1>7, <2>1, <2>4, <2>5 DEF d, p
<1>15. CASE n # 0
  <2>1. d.mem = Set(m, f.out.offset, part)
    BY <1>8, <1>9, <1>15 DEF part
  <2>2. f.out.offset + Len(part) <= Len(p.own)
    BY <1>2, <1>5, <1>6, <1>10, <1>15 DEF p
  <2>3. Lasting(g.ret, m, P)
    BY <1>3, <1>13
  <2>4. g.own = Written(p.own, f.out.offset, part)
    BY <1>13 DEF w
  <2>5. /\ Whole(Replaced(fs, g), Set(m, f.out.offset, part), P, A)
        /\ Changed(m, Set(m, f.out.offset, part), P, Checkpoint(m))
    BY <1>5, <1>10, <1>13, <2>2, <2>3, <2>4, WrittenIsWhole DEF p
  <2>6. MemorySound(Set(m, f.out.offset, part)) /\ Checkpoint(m) \in Nat
    BY <1>1, <2>5, MemoryTypes DEF Whole
  <2>7. Keeps(m, P, A, Set(m, f.out.offset, part), P, A)
    BY <1>1, <2>5, <2>6, KeepsWhenChanged
  <2> QED
    BY <1>7, <2>1, <2>5, <2>7 DEF d, p
<1> QED
  BY <1>14, <1>15

\* New arrays behind those of the heap.
LEMMA ArraysAdded ==
  ASSUME NEW m, NEW new \in Seq(Seq(Cell)), MemorySound(m)
  PROVE  LET n == [m EXCEPT !.heap = @ \o new]
         IN  /\ MemorySound(n) /\ n.ctxs = m.ctxs /\ n.len = m.len /\ n.arr = m.arr
             /\ Changed(m, n, {}, m.len)
             /\ Len(n.heap) = Len(m.heap) + Len(new)
             /\ \A i \in 1 .. Len(new) : n.heap[Len(m.heap) + i] = new[i]
<1> DEFINE h == m.heap \o new
           n == [m EXCEPT !.heap = h]
<1>1. /\ m.heap \in Seq(Seq(Cell)) /\ m.arr \in 1 .. Len(m.heap) /\ Len(m.heap) \in Nat
      /\ m.len <= Len(m.heap[m.arr]) /\ m.len \in Nat
  BY MemoryTypes
<1>2. Len(new) \in Nat
  BY LenIsNat
<1>3. /\ h \in Seq(Seq(Cell)) /\ Len(h) = Len(m.heap) + Len(new)
      /\ \A a \in 1 .. Len(h) : h[a] = IF a <= Len(m.heap) THEN m.heap[a] ELSE new[a - Len(m.heap)]
  BY <1>1, ConcatProperties
<1>4. \A a \in 1 .. Len(m.heap) : a \in 1 .. Len(h) /\ h[a] = m.heap[a]
  <2>1. \A a \in 1 .. Len(m.heap) : a \in 1 .. Len(h) /\ a <= Len(m.heap)
    BY <1>1, <1>2, <1>3
  <2> QED
    BY <1>3, <2>1
<1>5. \A i \in 1 .. Len(new) : h[Len(m.heap) + i] = new[i]
  <2>1. ASSUME NEW i \in 1 .. Len(new)
        PROVE  h[Len(m.heap) + i] = new[i]
    <3> DEFINE a == Len(m.heap) + i
    <3>1. a \in 1 .. Len(h) /\ ~(a <= Len(m.heap)) /\ a - Len(m.heap) = i
      BY <1>1, <1>2, <1>3, SMTT(30)
    <3> HIDE DEF a
    <3>2. h[a] = new[a - Len(m.heap)]
      BY <1>3, <3>1
    <3> QED
      BY <3>1, <3>2 DEF a
  <2> QED
    BY <2>1, Zenon
<1>6. DOMAIN h = 1 .. Len(h)
  BY <1>3, LenIsNat
<1> HIDE DEF h
<1>7. n.heap = h /\ n.ctxs = m.ctxs /\ n.len = m.len /\ n.arr = m.arr /\ n \in MemoryState
  BY <1>3, Zenon DEF MemorySound, MemoryState
<1> HIDE DEF n
<1>8. n.arr \in DOMAIN n.heap /\ m.len <= n.len /\ n.len <= Len(n.heap[n.arr])
  BY <1>1, <1>4, <1>6, <1>7, SMTT(30)
<1>9. MemorySound(n)
  BY <1>7, <1>8, SoundWhenKept
<1>10. Changed(m, n, {}, m.len)
  <2>1. Len(m.heap) <= Len(n.heap)
    BY <1>1, <1>2, <1>3, <1>7
  <2> QED
    BY <1>1, <1>4, <1>7, <2>1, Zenon DEF Changed
<1>11. n = [m EXCEPT !.heap = @ \o new]
  BY DEF n, h
<1>12. /\ MemorySound(n) /\ n.ctxs = m.ctxs /\ n.len = m.len /\ n.arr = m.arr
       /\ Changed(m, n, {}, m.len)
       /\ Len(n.heap) = Len(m.heap) + Len(new)
       /\ \A i \in 1 .. Len(new) : n.heap[Len(m.heap) + i] = new[i]
  BY <1>3, <1>5, <1>7, <1>9, <1>10
<1> QED
  BY <1>11, <1>12, Zenon

\* What the caller of Transact gets lasts; if it was copied, it is nobody else's.
LEMMA HandedIsWhole ==
  ASSUME NEW m, NEW P, NEW A, Whole(<<>>, m, P, A), NEW held \in Seq(Held),
         \A i \in DOMAIN held : Lasting(held[i], m, P), NEW copied \in BOOLEAN
  PROVE  LET h == Handed(m, held, copied)
         IN  /\ Whole(<<>>, h.mem, P, A) /\ Keeps(m, P, A, h.mem, P, A)
             /\ ResultSound([held |-> h.held, borrowed |-> ~copied], h.mem, P, A)
<1>1. MemorySound(m) /\ Disjoint(m, P, A) /\ Len(m.ctxs) = Len(<<>>) + 1
  BY DEF Whole
<1>2. Len(m.heap) \in Nat /\ DOMAIN m.heap = 1 .. Len(m.heap) /\ m.len \in Nat
      /\ m.arr \in 1 .. Len(m.heap)
  BY <1>1, MemoryTypes
<1>3. CASE ~copied
  <2>1. Handed(m, held, copied) = [mem |-> m, held |-> held]
    BY <1>3 DEF Handed
  <2>2. Changed(m, m, P, 0)
    BY <1>1, ChangedReflexive
  <2>3. Keeps(m, P, A, m, P, A)
    BY <1>1, <2>2, KeepsWhenChanged
  <2> DEFINE r == [held |-> held, borrowed |-> ~copied]
  <2>4. r.held = held /\ r.borrowed = ~copied /\ r \in [held : Seq(Held), borrowed : BOOLEAN]
    OBVIOUS
  <2> HIDE DEF r
  <2>5. ResultSound(r, m, P, A)
    BY <1>3, <2>4 DEF ResultSound
  <2> QED
    BY <2>1, <2>3, <2>5 DEF r
<1>4. CASE copied
  <2> DEFINE new == [i \in DOMAIN held |-> View(m, held[i].slice)]
             n == [m EXCEPT !.heap = @ \o new]
             copies == [i \in DOMAIN held |->
                          [slice |-> [arr |-> Len(m.heap) + i, start |-> 0,
                                      len |-> held[i].slice.len],
                           is |-> held[i].is]]
             r == [held |-> copies, borrowed |-> FALSE]
  <2>1. Handed(m, held, copied) = [mem |-> n, held |-> copies]
    BY <1>4 DEF Handed
  <2>2. Len(held) \in Nat /\ DOMAIN held = 1 .. Len(held)
    BY LenIsNat
  <2>3. \A i \in 1 .. Len(held) : held[i] \in Held
    BY LenIsNat
  <2>4. ASSUME NEW i \in 1 .. Len(held)
        PROVE  /\ View(m, held[i].slice) = held[i].is /\ held[i].is \in Seq(Cell)
               /\ held[i].slice.len \in Nat /\ Len(held[i].is) = held[i].slice.len
    <3>1. Stands(held[i], m)
      BY <2>2 DEF Lasting
    <3>2. View(m, held[i].slice) = held[i].is
      BY <1>1, <2>3, <3>1, ViewIsContents
    <3> QED
      BY <2>3, <3>1, <3>2, Zenon DEF Held, Slice, Stands
  <2>5. new = [i \in 1 .. Len(held) |-> held[i].is]
    BY <2>2, <2>4
  <2>6. new \in [1 .. Len(held) -> Seq(Cell)] /\ \A i \in 1 .. Len(held) : new[i] = held[i].is
    BY <2>4, <2>5
  <2> HIDE DEF new
  <2>7. new \in Seq(Seq(Cell)) /\ Len(new) = Len(held)
    BY <2>2, <2>6, FunctionIsSeq, Zenon
  <2>8. /\ MemorySound(n) /\ n.ctxs = m.ctxs /\ n.len = m.len /\ n.arr = m.arr
        /\ Changed(m, n, {}, m.len)
        /\ Len(n.heap) = Len(m.heap) + Len(held)
        /\ \A i \in 1 .. Len(held) : n.heap[Len(m.heap) + i] = held[i].is
    <3>1. LET k == [m EXCEPT !.heap = @ \o new]
          IN  /\ MemorySound(k) /\ k.ctxs = m.ctxs /\ k.len = m.len /\ k.arr = m.arr
              /\ Changed(m, k, {}, m.len)
              /\ Len(k.heap) = Len(m.heap) + Len(new)
              /\ \A i \in 1 .. Len(new) : k.heap[Len(m.heap) + i] = new[i]
      BY <1>1, <2>7, ArraysAdded, Zenon
    <3> QED
      BY <2>6, <2>7, <3>1, Zenon
  <2> HIDE DEF n
  <2>9. Changed(m, n, P, 0)
    BY <1>2, <2>8, ChangedBelow
  <2>10. Keeps(m, P, A, n, P, A)
    BY <1>1, <2>8, <2>9, KeepsWhenChanged
  <2>11. Disjoint(n, P, A)
    BY <1>1, <2>8, DisjointKept
  <2>12. Whole(<<>>, n, P, A)
    BY <1>1, <2>8, <2>11, SMTT(30) DEF Whole
  <2>13. ASSUME NEW i \in 1 .. Len(held)
         PROVE  copies[i] \in Held /\ Lasting(copies[i], n, P) /\ copies[i].slice.arr \notin A
    <3> DEFINE a == Len(m.heap) + i
               c == copies[i]
    <3>1. c.slice.arr = a /\ c.slice.start = 0 /\ c.slice.len = held[i].slice.len /\ c.is = held[i].is
          /\ c \in Held
      <4>1. c = [slice |-> [arr |-> a, start |-> 0, len |-> held[i].slice.len], is |-> held[i].is]
        BY <2>2
      <4>2. a \in Nat
        BY <1>2, <2>2
      <4> HIDE DEF a, c
      <4>3. [arr |-> a, start |-> 0, len |-> held[i].slice.len] \in Slice
        BY <2>4, <4>2 DEF Slice
      <4> QED
        BY <2>4, <4>1, <4>3 DEF Held
    <3>2. a \in 1 .. Len(n.heap) /\ a \notin 1 .. Len(m.heap)
      BY <1>2, <2>2, <2>8
    <3>3. n.heap[a] = held[i].is
      BY <2>8
    <3> HIDE DEF c, a
    <3>4. DOMAIN n.heap = 1 .. Len(n.heap)
      BY <2>8, MemoryTypes
    <3>5. \A j \in 1 .. Len(c.is) : n.heap[a][0 + j] = c.is[j]
      <4>1. \A j \in 1 .. Len(c.is) : 0 + j = j
        BY <2>4, <3>1
      <4> QED
        BY <3>1, <3>3, <4>1
    <3>6. 0 + c.slice.len <= Len(n.heap[a]) /\ Len(c.is) = c.slice.len
      BY <2>4, <3>1, <3>3
    <3>7. Stands(c, n)
      BY <3>1, <3>2, <3>4, <3>5, <3>6 DEF Stands
    <3>8. a \notin P /\ a \notin A /\ a # n.arr
      BY <1>1, <1>2, <2>8, <3>2 DEF Disjoint
    <3> QED
      BY <3>1, <3>7, <3>8, ZenonT(30) DEF Lasting, c
  <2>14. DOMAIN copies = 1 .. Len(held) /\ copies \in [1 .. Len(held) -> Held]
    BY <2>2, <2>13
  <2> HIDE DEF copies
  <2>15. copies \in Seq(Held)
    BY <2>2, <2>14, FunctionIsSeq
  <2>16. r.held = copies /\ r.borrowed = FALSE /\ r \in [held : Seq(Held), borrowed : BOOLEAN]
    BY <2>15
  <2> HIDE DEF r
  <2>17. ResultSound(r, n, P, A)
    BY <2>13, <2>14, <2>16 DEF ResultSound
  <2>18. r = [held |-> copies, borrowed |-> ~copied]
    BY <1>4, Zenon DEF r
  <2> QED
    BY <2>1, <2>10, <2>12, <2>17, <2>18
<1> QED
  BY <1>3, <1>4

-----------------------------------------------------------------------------
(***************************************************************************)
(* The steps, on memory.                                                   *)
(***************************************************************************)
\* Offsets and ranges are numbers.
LEMMA WordsAreNumbers ==
  /\ \A o \in Words : o \in Nat
  /\ \A r \in Ranges : r.offset \in Nat /\ r.len \in Nat
  /\ \A n \in 0 .. 1 : n \in Nat
  BY BoundsAssumption DEF Words, Ranges

\* A step that keeps frames and memory whole and leaves logs and result alone.
LEMMA MemoryKept ==
  ASSUME MemoryInv, UNCHANGED <<logs, result>>, Whole(frames', mem', pool', arena'),
         Keeps(mem, pool, arena, mem', pool', arena')
  PROVE  MemoryInv'
<1>1. LogsSound(logs, mem, pool) /\ ResultSound(result, mem, pool, arena)
  BY DEF MemoryInv
<1>2. LogsSound(logs, mem', pool') /\ ResultSound(result, mem', pool', arena')
  BY <1>1, LogsKept, ResultKept
<1> QED
  BY <1>2 DEF MemoryInv

\* A step that touches neither.
LEMMA MemoryUntouched ==
  ASSUME MemoryInv, UNCHANGED <<mem, pool, arena, frames, logs, result>>
  PROVE  MemoryInv'
  BY DEF MemoryInv

\* A frame's memory grows if its length says so: the gas record says the same.
LEMMA GrowsAsPaid ==
  ASSUME NEW fs, NEW m, NEW P, NEW A, Whole(fs, m, P, A), fs # <<>>, NEW k \in Nat
  PROVE  (IF k <= LenOf(m) THEN m ELSE Expanded(m, Last(fs), k)) = Expanded(m, Last(fs), k)
<1>1. LenOf(m) = Last(fs).words
  BY TopFacts
<1> QED
  BY <1>1 DEF Expanded

\* opMload: memory grows, nothing else.
LEMMA LoadKeepsMemory ==
  ASSUME MemoryInv, NEW o \in Words, Load(o)
  PROVE  MemoryInv'
<1>1. o \in Nat /\ o + 1 \in Nat
  BY WordsAreNumbers
<1>2. Whole(frames, mem, pool, arena) /\ frames # <<>>
  BY DEF MemoryInv, Load, Running
<1>3. /\ Whole(AfterPaying(frames, o + 1), Expanded(mem, Last(frames), o + 1), pool, arena)
      /\ Keeps(mem, pool, arena, Expanded(mem, Last(frames), o + 1), pool, arena)
  BY <1>1, <1>2, PaysAndExpands
<1>4. mem' = Expanded(mem, Last(frames), o + 1)
  BY <1>1, <1>2, GrowsAsPaid DEF Load, Top
<1>5. frames' = AfterPaying(frames, o + 1) /\ UNCHANGED <<pool, arena, logs, result>>
  BY DEF Load, Top, SetTop, AfterPaying, Replaced
<1> QED
  BY <1>3, <1>4, <1>5, MemoryKept

\* opMstore: what the program reads next is what it wrote, and nobody else's is touched.
LEMMA StoreKeepsMemory ==
  ASSUME MemoryInv, NEW o \in Words, NEW v \in Cell, Store(o, v)
  PROVE  MemoryInv'
<1> DEFINE m == Expanded(mem, Last(frames), o + 1)
           f == Paid(Last(frames), o + 1)
           g == [f EXCEPT !.own = Written(@, o, <<v>>)]
           fs == AfterPaying(frames, o + 1)
<1>1. o \in Nat /\ o + 1 \in Nat
  BY WordsAreNumbers
<1>2. Whole(frames, mem, pool, arena) /\ frames # <<>>
  BY DEF MemoryInv, Store, Running
<1>3. /\ Whole(fs, m, pool, arena) /\ Keeps(mem, pool, arena, m, pool, arena)
      /\ fs # <<>> /\ Last(fs) = f /\ o + 1 <= Len(f.own)
      /\ \A e : Replaced(fs, e) = Replaced(frames, e)
  BY <1>1, <1>2, PaysAndExpands
<1>4. (IF o + 1 <= LenOf(mem) THEN mem ELSE m) = m
  BY <1>1, <1>2, GrowsAsPaid
<1>5. mem' = Set(m, o, <<v>>) /\ frames' = Replaced(frames, g)
      /\ UNCHANGED <<pool, arena, logs, result>>
  BY <1>4 DEF Store, Top, SetTop, Replaced
<1>6. <<v>> \in Seq(Cell) /\ Len(<<v>>) = 1
  OBVIOUS
<1> HIDE DEF m, f, fs
<1>7. Whole(Replaced(fs, g), Set(m, o, <<v>>), pool, arena)
      /\ Keeps(m, pool, arena, Set(m, o, <<v>>), pool, arena)
  BY <1>1, <1>3, <1>6, WriteKeeps, Zenon
<1>8. Keeps(mem, pool, arena, Set(m, o, <<v>>), pool, arena)
  BY <1>3, <1>7, KeepsTransitive
<1>9. frames' = Replaced(fs, g)
  BY <1>3, <1>5
<1> QED
  BY <1>5, <1>7, <1>8, <1>9, MemoryKept

\* opMcopy: memory grows for both ranges before it is read.
LEMMA CopyKeepsMemory ==
  ASSUME MemoryInv, NEW d \in Words, NEW s \in Words, MCopy(d, s, 1)
  PROVE  MemoryInv'
<1> DEFINE k == 1 + IF d > s THEN d ELSE s
           m == Expanded(mem, Last(frames), k)
           f == Paid(Last(frames), k)
           data == SubSeq(f.own, s + 1, s + 1)
           g == [f EXCEPT !.own = Written(@, d, data)]
           fs == AfterPaying(frames, k)
<1>1. d \in Nat /\ s \in Nat
  BY WordsAreNumbers
<1>2. k \in Nat /\ d + 1 <= k /\ s + 1 <= k
  BY <1>1
<1>3. Whole(frames, mem, pool, arena) /\ frames # <<>>
  BY DEF MemoryInv, MCopy, Running
<1>4. /\ mem' = Copy(m, d, s, 1) /\ frames' = Replaced(frames, g)
      /\ UNCHANGED <<pool, arena, logs, result>>
  BY DEF MCopy, Top, SetTop, Replaced
<1> HIDE DEF k
<1>5. /\ Whole(fs, m, pool, arena) /\ Keeps(mem, pool, arena, m, pool, arena)
      /\ fs # <<>> /\ Last(fs) = f /\ k <= Len(f.own) /\ Len(f.own) \in Nat
      /\ \A e : Replaced(fs, e) = Replaced(frames, e)
  BY <1>2, <1>3, PaysAndExpands
<1> HIDE DEF m, f, fs
<1>6. LenOf(m) = Len(f.own)
  BY <1>5, TopFacts
<1>7. d + 1 <= Len(f.own) /\ s + 1 <= Len(f.own)
  BY <1>1, <1>2, <1>5
<1>8. Copy(m, d, s, 1) = Set(m, d, Read(m, s, 1))
  BY <1>1, <1>5, <1>6, <1>7 DEF Copy
<1>9. /\ Read(m, s, 1) \in Seq(Cell) /\ Len(Read(m, s, 1)) = 1
      /\ Read(m, s, 1) = SubSeq(f.own, s + 1, s + 1)
  <2>1. s + 1 <= Len(Last(fs).own) /\ Whole(fs, m, pool, arena) /\ fs # <<>>
    BY <1>5, <1>7
  <2>2. \A n \in Nat : s + n <= Len(Last(fs).own) =>
          /\ Read(m, s, n) \in Seq(Cell) /\ Len(Read(m, s, n)) = n
          /\ Read(m, s, n) = SubSeq(Last(fs).own, s + 1, s + n)
    BY <1>1, <2>1, ReadsOwn
  <2>3. /\ Read(m, s, 1) \in Seq(Cell) /\ Len(Read(m, s, 1)) = 1
        /\ Read(m, s, 1) = SubSeq(Last(fs).own, s + 1, s + 1)
    BY <2>1, <2>2, Zenon
  <2> QED
    BY <1>5, <2>3
<1>10. data \in Seq(Cell) /\ Len(data) = 1 /\ Read(m, s, 1) = data
  BY <1>9, Zenon
<1> HIDE DEF data
<1>11. Whole(Replaced(fs, g), Set(m, d, data), pool, arena)
       /\ Keeps(m, pool, arena, Set(m, d, data), pool, arena)
  BY <1>1, <1>5, <1>7, <1>10, WriteKeeps, Zenon
<1>12. Keeps(mem, pool, arena, Set(m, d, data), pool, arena)
  BY <1>5, <1>11, KeepsTransitive
<1>13. frames' = Replaced(fs, g) /\ mem' = Set(m, d, data)
  BY <1>4, <1>5, <1>8, <1>10
<1> QED
  BY <1>4, <1>11, <1>12, <1>13, MemoryKept

\* What a frame hands out of its memory is copied to a buffer, which lasts.
OutputOf(fs, m, o, n, i) ==
  [slice |-> BufferOf(Expanded(m, Last(fs), o + n), Read(Expanded(m, Last(fs), o + n), o, n), i),
   is |-> SubSeq(Paid(Last(fs), o + n).own, o + 1, o + n)]
OutputMemory(fs, m, o, n, i) ==
  Allocated(Expanded(m, Last(fs), o + n), Read(Expanded(m, Last(fs), o + n), o, n), i)

\* It is copied after the expansion, so it is what the program wrote there, and zeros.
LEMMA OutputLasts ==
  ASSUME NEW fs, NEW m, NEW P, NEW A, Whole(fs, m, P, A), fs # <<>>,
         NEW i \in P \cup {0}, NEW o \in Nat, NEW n \in Nat
  PROVE  LET h == OutputOf(fs, m, o, n, i)
             k == OutputMemory(fs, m, o, n, i)
         IN  /\ Whole(AfterPaying(fs, o + n), k, P \ {i}, A \cup {h.slice.arr})
             /\ Keeps(m, P, A, k, P \ {i}, A \cup {h.slice.arr})
             /\ Lasting(h, k, P \ {i})
<1> DEFINE k == Expanded(m, Last(fs), o + n)
           f == Paid(Last(fs), o + n)
           gs == AfterPaying(fs, o + n)
           data == Read(k, o, n)
           s == BufferOf(k, data, i)
           q == Allocated(k, data, i)
<1>1. o + n \in Nat
  OBVIOUS
<1>2. OutputOf(fs, m, o, n, i) = [slice |-> s, is |-> SubSeq(f.own, o + 1, o + n)]
  BY DEF OutputOf
<1>3. OutputMemory(fs, m, o, n, i) = q
  BY DEF OutputMemory
<1>4. /\ Whole(gs, k, P, A) /\ Keeps(m, P, A, k, P, A)
      /\ gs # <<>> /\ Last(gs) = f /\ o + n <= Len(f.own)
  BY <1>1, PaysAndExpands
<1> HIDE DEF k, f, gs
<1>5. data \in Seq(Cell) /\ data = SubSeq(f.own, o + 1, o + n)
  BY <1>4, ReadsOwn
<1> HIDE DEF data
<1>6. /\ Whole(gs, q, P \ {i}, A \cup {s.arr}) /\ Keeps(k, P, A, q, P \ {i}, A \cup {s.arr})
      /\ Lasting([slice |-> s, is |-> data], q, P \ {i})
  BY <1>4, <1>5, BufferKeeps, Zenon
<1>7. Keeps(m, P, A, q, P \ {i}, A \cup {s.arr})
  BY <1>4, <1>6, KeepsTransitive
<1>8. OutputOf(fs, m, o, n, i) = [slice |-> s, is |-> data]
  BY <1>2, <1>5
<1>9. OutputOf(fs, m, o, n, i).slice.arr = s.arr
  BY <1>8
<1> QED
  BY <1>3, <1>6, <1>7, <1>8, <1>9 DEF gs

\* LOG: the data live in a buffer of the arena, until the transaction ends.
LEMMA LogKeepsMemory ==
  ASSUME MemoryInv, NEW o \in Words, Log(o, 1)
  PROVE  MemoryInv'
<1>1. o \in Nat /\ 1 \in Nat
  BY WordsAreNumbers
<1>2. /\ Whole(frames, mem, pool, arena) /\ frames # <<>>
      /\ LogsSound(logs, mem, pool) /\ ResultSound(result, mem, pool, arena)
  BY DEF MemoryInv, Log, Running
<1>3. PICK i \in pool \cup {0} :
        /\ mem' = OutputMemory(frames, mem, o, 1, i)
        /\ frames' = AfterPaying(frames, o + 1)
        /\ logs' = Append(logs, OutputOf(frames, mem, o, 1, i))
        /\ pool' = pool \ {i} /\ arena' = arena \cup {OutputOf(frames, mem, o, 1, i).slice.arr}
  BY Zenon DEF Log, Top, SetTop, AfterPaying, Replaced, OutputOf, OutputMemory
<1>4. result' = result
  BY DEF Log
<1> DEFINE h == OutputOf(frames, mem, o, 1, i)
<1>5. Whole(frames', mem', pool', arena') /\ Keeps(mem, pool, arena, mem', pool', arena')
      /\ Lasting(h, mem', pool')
  BY <1>1, <1>2, <1>3, OutputLasts
<1>6. logs' = Append(logs, h)
  BY <1>3
<1> HIDE DEF h
<1>7. LogsSound(logs, mem', pool') /\ ResultSound(result, mem', pool', arena')
  BY <1>2, <1>5, LogsKept, ResultKept
<1>8. LogsSound(logs', mem', pool')
  <2>1. h \in Held /\ logs \in Seq(Held)
    BY <1>5, <1>7 DEF Lasting, LogsSound
  <2>2. /\ logs' \in Seq(Held) /\ Len(logs') = Len(logs) + 1 /\ Len(logs) \in Nat
        /\ \A j \in 1 .. Len(logs) : logs'[j] = logs[j]
        /\ logs'[Len(logs) + 1] = h /\ DOMAIN logs' = 1 .. Len(logs')
        /\ DOMAIN logs = 1 .. Len(logs)
    BY <1>6, <2>1, AppendAt, LenIsNat
  <2>3. \A j \in 1 .. Len(logs) + 1 : j \in 1 .. Len(logs) \/ j = Len(logs) + 1
    BY <2>2
  <2>4. \A j \in 1 .. Len(logs) + 1 : Lasting(logs'[j], mem', pool')
    BY <1>5, <1>7, <2>2, <2>3 DEF LogsSound
  <2> QED
    BY <2>2, <2>4 DEF LogsSound
<1> QED
  BY <1>4, <1>5, <1>7, <1>8 DEF MemoryInv

\* A jump, and whoever empties the shared cache, touch no memory.
LEMMA CodeStepsKeepMemory ==
  ASSUME MemoryInv, CodeSteps
  PROVE  MemoryInv'
<1>1. ASSUME Jump
      PROVE  UNCHANGED <<mem, pool, arena, frames, logs, result>>
  BY <1>1 DEF Jump, memory
<1>2. ASSUME SetCacheEnabled
      PROVE  UNCHANGED <<mem, pool, arena, frames, logs, result>>
  BY <1>2 DEF SetCacheEnabled, memory
<1>3. ASSUME NEW c \in Code, Evict(c)
      PROVE  UNCHANGED <<mem, pool, arena, frames, logs, result>>
  BY <1>3 DEF Evict, memory
<1> QED
  BY <1>1, <1>2, <1>3, MemoryUntouched DEF CodeSteps

\* The same arrays under other contexts.
LEMMA SameHeapKeeps ==
  ASSUME NEW m, NEW n, NEW P, NEW A, MemorySound(m), MemorySound(n), n.heap = m.heap, n.arr = m.arr
  PROVE  Keeps(m, P, A, n, P, A)
<1>1. Changed(m, n, P, 0)
  BY MemoryTypes DEF Changed
<1> QED
  BY <1>1, KeepsWhenChanged

\* A new transaction finds the arrays of the last one, and an empty buffer.
LEMMA ResetIsWhole ==
  ASSUME NEW m, NEW P, NEW A, MemorySound(m), Disjoint(m, P, A)
  PROVE  Whole(<<>>, ResetMemory(m), P, A) /\ Keeps(m, P, A, ResetMemory(m), P, A)
<1> DEFINE c == NewContext(0)
           n == ResetMemory(m)
<1>1. /\ m \in MemoryState /\ m.arr \in 1 .. Len(m.heap) /\ DOMAIN m.heap = 1 .. Len(m.heap)
      /\ Len(m.heap[m.arr]) \in Nat
  BY MemoryTypes DEF MemorySound
<1>2. c \in Context /\ c.checkpoint = 0
  BY DEF NewContext, Context
<1>3. n = [m EXCEPT !.len = 0, !.ctxs = <<c>>]
  BY DEF ResetMemory
<1> HIDE DEF c
<1> DEFINE s == <<c>>
<1>4. s \in Seq(Context) /\ Len(s) = 1 /\ s[1] = c /\ s # <<>> /\ DOMAIN s = 1 .. 1
  BY <1>2
<1>5. n = [m EXCEPT !.len = 0, !.ctxs = s]
  BY <1>3
<1> HIDE DEF s, n
<1>6. n \in MemoryState /\ n.heap = m.heap /\ n.arr = m.arr /\ n.len = 0 /\ n.ctxs = s
  BY <1>1, <1>4, <1>5, Zenon DEF MemoryState
<1>7. n.len <= Len(n.heap[n.arr]) /\ n.ctxs[Len(n.ctxs)].checkpoint <= n.len
  <2>1. n.len <= Len(n.heap[n.arr])
    BY <1>1, <1>6
  <2>2. Len(n.ctxs) = 1 /\ n.ctxs[1] = c
    BY <1>4, <1>6
  <2> QED
    BY <1>2, <1>6, <2>1, <2>2
<1>8. \A i, j \in DOMAIN n.ctxs : i <= j => n.ctxs[i].checkpoint <= n.ctxs[j].checkpoint
  <2>1. \A i \in 1 .. 1 : i = 1
    OBVIOUS
  <2> QED
    BY <1>2, <1>4, <1>6, <2>1
<1>9. \A i \in 1 .. Len(n.ctxs) - 1 :
        n.ctxs[i].hasChild /\ n.ctxs[i].child = n.ctxs[i + 1].checkpoint
  <2>1. Len(n.ctxs) = 1
    BY <1>4, <1>6
  <2> QED
    BY <2>1
<1>10. MemorySound(n)
  BY <1>1, <1>4, <1>6, <1>7, <1>8, <1>9 DEF MemorySound
<1>11. Disjoint(n, P, A)
  BY <1>6 DEF Disjoint
<1>12. Len(n.ctxs) = Len(<<>>) + 1
  BY <1>4, <1>6
<1>13. Whole(<<>>, n, P, A)
  BY <1>10, <1>11, <1>12 DEF Whole
<1>14. Keeps(m, P, A, n, P, A)
  BY <1>6, <1>10, SameHeapKeeps
<1> QED
  BY <1>13, <1>14 DEF n

\* What was borrowed is lost with the next transaction.
Remembered(r) == IF r.borrowed THEN [r EXCEPT !.held = <<>>] ELSE r

\* Remembered keeps the result sound.
LEMMA RememberedIsSound ==
  ASSUME NEW r, NEW m, NEW P, NEW A, ResultSound(r, m, P, A)
  PROVE  ResultSound(Remembered(r), m, P, A)
<1>1. CASE ~r.borrowed
  BY <1>1 DEF Remembered
<1>2. CASE r.borrowed
  <2> DEFINE q == [r EXCEPT !.held = <<>>]
  <2>1. q.held = <<>> /\ q \in [held : Seq(Held), borrowed : BOOLEAN]
    <3>1. r \in [held : Seq(Held), borrowed : BOOLEAN]
      BY DEF ResultSound
    <3> DEFINE e == <<>>
    <3>2. e \in Seq(Held)
      OBVIOUS
    <3> HIDE DEF e
    <3>3. [r EXCEPT !.held = e].held = e /\ [r EXCEPT !.held = e] \in [held : Seq(Held), borrowed : BOOLEAN]
      BY <3>1, <3>2
    <3> QED
      BY <3>3 DEF e
  <2>2. Remembered(r) = q
    BY <1>2 DEF Remembered
  <2> HIDE DEF q
  <2>3. DOMAIN q.held = {}
    BY <2>1
  <2> QED
    BY <2>1, <2>2, <2>3 DEF ResultSound
<1> QED
  BY <1>1, <1>2 DEF ResultSound

\* The frame of a call is new in every field.
LEMMA NewFrameIsFrame ==
  ASSUME NEW c \in Code, NEW o \in Nat, NEW create \in BOOLEAN, NEW input \in Held,
         NEW out \in MemoryRange
  PROVE  LET g == NewFrame(c, o, create, input, out)
         IN  /\ g \in Frame /\ g.own = <<>> /\ g.words = 0 /\ g.ret = Nothing
             /\ g.input = input /\ g.out = out /\ g.code = c /\ g.obj = o
  BY DEF NewFrame, Frame, Nothing, Nil, Held, Slice

\* An object is a number, pooled or new.
LEMMA ObjectsAreNumbers ==
  ASSUME TableInv, NEW depth, NEW create, NEW o \in Objects(depth, create)
  PROVE  o \in Nat
<1>1. /\ objects \in Seq(BytecodeObject) /\ free \subseteq DOMAIN objects \ {1}
  BY DEF TableInv, TablesSound, Assigned
<1>2. Len(objects) \in Nat /\ DOMAIN objects = 1 .. Len(objects)
  BY <1>1, LenIsNat
<1> QED
  BY <1>1, <1>2 DEF Objects

\* transact: the frame at depth 0 starts with an empty memory.
LEMMA TransactKeepsMemory ==
  ASSUME MemoryInv, TableInv, NEW c \in Code, NEW create \in BOOLEAN, Transact(c, create)
  PROVE  MemoryInv'
<1>1. /\ frames = <<>> /\ MemorySound(mem) /\ Disjoint(mem, pool, arena)
      /\ ResultSound(result, mem, pool, arena)
  BY DEF Transact, Running, MemoryInv, Whole
<1> DEFINE n == ResetMemory(mem)
           out == [offset |-> 0, len |-> 0]
<1>2. PICK o \in Objects(0, create) : frames' = <<NewFrame(c, o, create, Nothing, out)>>
  BY DEF Transact
<1>3. /\ mem' = NewChildContext(n) /\ logs' = <<>> /\ result' = Remembered(result)
      /\ UNCHANGED <<pool, arena>>
  BY DEF Transact, Remembered
<1>4. Whole(<<>>, n, pool, arena) /\ Keeps(mem, pool, arena, n, pool, arena)
  BY <1>1, ResetIsWhole
<1> HIDE DEF n
<1> DEFINE g == NewFrame(c, o, create, Nothing, out)
<1>5. MemorySound(n) /\ Disjoint(n, pool, arena) /\ n.len \in Nat
  BY <1>4, MemoryTypes DEF Whole
<1>6. /\ Nothing \in Held /\ Lasting(Nothing, n, pool) /\ Nothing.slice.arr \notin pool \cup arena
      /\ Nothing.slice.start + Nothing.slice.len <= n.len
  BY <1>5, NothingLasts
<1>7. out \in MemoryRange /\ out.len = 0
  BY DEF MemoryRange
<1>8. o \in Nat
  BY ObjectsAreNumbers
<1> HIDE DEF out
<1>9. /\ g \in Frame /\ g.own = <<>> /\ g.words = 0 /\ g.ret = Nothing
      /\ g.input = Nothing /\ g.out = out
  BY <1>6, <1>7, <1>8, NewFrameIsFrame
<1> HIDE DEF g
<1>10. InputSound(g, n, pool, n.len)
  BY <1>6, <1>9 DEF InputSound, Lasting
<1>11. /\ Whole(Append(<<>>, g), NewChildContext(n), pool, arena)
       /\ NewChildContext(n).heap = n.heap /\ NewChildContext(n).arr = n.arr
  BY <1>4, <1>9, <1>10, ChildIsWhole, Zenon
<1>12. frames' = Append(<<>>, g)
  BY <1>2 DEF g
<1>13. Keeps(mem, pool, arena, mem', pool', arena')
  <2>1. MemorySound(NewChildContext(n))
    BY <1>11 DEF Whole
  <2>2. Keeps(n, pool, arena, NewChildContext(n), pool, arena)
    BY <1>5, <1>11, <2>1, SameHeapKeeps
  <2> QED
    BY <1>3, <1>4, <2>2, KeepsTransitive
<1>14. ResultSound(result', mem', pool', arena')
  <2>1. ResultSound(result, mem', pool', arena')
    BY <1>1, <1>13, ResultKept
  <2> QED
    BY <1>3, <2>1, RememberedIsSound
<1>15. LogsSound(logs', mem', pool')
  <2>1. DOMAIN <<>> = {}
    OBVIOUS
  <2>2. LogsSound(<<>>, mem', pool')
    BY <2>1 DEF LogsSound
  <2> QED
    BY <1>3, <2>2
<1>16. Whole(frames', mem', pool', arena')
  BY <1>3, <1>11, <1>12
<1> QED
  BY <1>14, <1>15, <1>16 DEF MemoryInv

\* ReleaseEvm: the buffers of the arena are free, and nobody holds one.
LEMMA ReleaseKeepsMemory ==
  ASSUME MemoryInv, ReleaseEvm
  PROVE  MemoryInv'
<1>1. /\ frames = <<>> /\ Whole(<<>>, mem, pool, arena) /\ ResultSound(result, mem, pool, arena)
  BY DEF ReleaseEvm, Running, MemoryInv
<1>2. /\ pool' = pool \cup arena /\ arena' = {} /\ logs' = <<>> /\ result' = Remembered(result)
      /\ mem' = mem /\ frames' = <<>>
  BY <1>1 DEF ReleaseEvm, Remembered
<1>3. Whole(<<>>, mem, pool \cup arena, {})
  BY <1>1 DEF Whole, Disjoint
<1>4. DOMAIN <<>> = {}
  OBVIOUS
<1>5. LogsSound(<<>>, mem, pool \cup arena)
  BY <1>4 DEF LogsSound
<1>6. ResultSound(Remembered(result), mem, pool \cup arena, {})
  <2> DEFINE r == Remembered(result)
  <2>1. ResultSound(r, mem, pool, arena)
    BY <1>1, RememberedIsSound
  <2>2. r.borrowed => r.held = <<>>
    BY <1>1 DEF Remembered, ResultSound
  <2> HIDE DEF r
  <2>3. ASSUME NEW i \in DOMAIN r.held
        PROVE  Lasting(r.held[i], mem, pool \cup arena) /\ r.held[i].slice.arr \notin {}
    <3>1. ~r.borrowed
      BY <1>4, <2>2
    <3>2. Lasting(r.held[i], mem, pool) /\ r.held[i].slice.arr \notin arena
      BY <2>1, <3>1 DEF ResultSound
    <3> QED
      BY <3>2 DEF Lasting
  <2>4. ResultSound(r, mem, pool \cup arena, {})
    BY <2>1, <2>3, Zenon DEF ResultSound
  <2> QED
    BY <2>4 DEF r
<1> QED
  BY <1>2, <1>3, <1>5, <1>6 DEF MemoryInv

\* The input of a sub-frame is a slice of memory that is paid for: it lies below the
\* context of the sub-frame.
LEMMA InputIsSound ==
  ASSUME NEW fs, NEW m, NEW P, NEW A, Whole(fs, m, P, A), fs # <<>>,
         NEW o \in Nat, NEW n \in Nat, o + n <= Len(Last(fs).own), NEW h,
         h = [slice |-> SliceOf(m, o, n), is |-> SubSeq(Last(fs).own, o + 1, o + n)]
  PROVE  /\ h \in Held /\ Stands(h, m)
         /\ h.slice.arr \notin P /\ h.slice.start + h.slice.len <= m.len
<1> DEFINE own == Last(fs).own
           cp == Checkpoint(m)
           part == SubSeq(own, o + 1, o + n)
<1>1. /\ own \in Seq(Cell) /\ Len(own) \in Nat /\ m.len = cp + Len(own) /\ cp \in Nat
      /\ Mirrors(own, m, cp)
  BY TopFacts
<1>2. /\ m.arr \in 1 .. Len(m.heap) /\ Len(m.heap) \in Nat /\ m.arr \in DOMAIN m.heap
      /\ m.len <= Len(m.heap[m.arr]) /\ Len(m.heap[m.arr]) \in Nat
  BY MemoryTypes, Zenon DEF Whole
<1>3. m.arr \notin P
  BY DEF Whole, Disjoint
<1>4. part \in Seq(Cell) /\ Len(part) = n /\ \A j \in 1 .. n : part[j] = own[o + j]
  <2>1. own \in Seq(Cell) /\ o + n <= Len(own)
    BY <1>1
  <2> HIDE DEF own
  <2>2. /\ Part(own, o, n) \in Seq(Cell) /\ Len(Part(own, o, n)) = n
        /\ \A j \in 1 .. n : Part(own, o, n)[j] = own[o + j]
    BY <2>1, PartAt
  <2> QED
    BY <2>2, Zenon DEF Part
<1>5. SliceOf(m, o, n) = [arr |-> m.arr, start |-> cp + o, len |-> n]
  BY DEF SliceOf
<1>6. h = [slice |-> [arr |-> m.arr, start |-> cp + o, len |-> n], is |-> part]
  BY <1>5
<1> HIDE DEF own, cp, part
<1>7. h.slice.arr = m.arr /\ h.slice.start = cp + o /\ h.slice.len = n /\ h.is = part
  BY <1>6
<1>8. h \in Held
  <2>1. m.arr \in Nat /\ cp + o \in Nat
    BY <1>1, <1>2
  <2>2. [arr |-> m.arr, start |-> cp + o, len |-> n] \in Slice
    BY <2>1 DEF Slice
  <2>3. \A s \in Slice, e \in Seq(Cell) : [slice |-> s, is |-> e] \in Held
    BY DEF Held
  <2>4. [slice |-> [arr |-> m.arr, start |-> cp + o, len |-> n], is |-> part] \in Held
    BY <1>4, <2>2, <2>3
  <2> QED
    BY <1>6, <2>4
<1>9. cp + o + n <= m.len /\ cp + o + n <= Len(m.heap[m.arr])
  BY <1>1, <1>2, SMTT(30) DEF own
<1>10. ASSUME NEW j \in 1 .. n
       PROVE  m.heap[m.arr][(cp + o) + j] = part[j]
  <2>1. o + j \in 1 .. Len(own) /\ (cp + o) + j = cp + (o + j)
    BY <1>1 DEF own
  <2> DEFINE x == o + j
  <2>2. part[j] = own[x]
    BY <1>4
  <2>3. x \in 1 .. Len(own) /\ (cp + o) + j = cp + x
    BY <2>1
  <2> HIDE DEF x
  <2>4. m.heap[m.arr][cp + x] = own[x]
    BY <1>1, <2>3 DEF Mirrors
  <2> QED
    BY <2>2, <2>3, <2>4
<1>11. Stands(h, m)
  <2>1. /\ h.slice.arr \in DOMAIN m.heap /\ Len(h.is) = h.slice.len
        /\ h.slice.start + h.slice.len <= Len(m.heap[h.slice.arr])
    BY <1>2, <1>4, <1>7, <1>9, Zenon
  <2>2. ASSUME NEW j \in 1 .. Len(h.is)
        PROVE  m.heap[h.slice.arr][h.slice.start + j] = h.is[j]
    BY <1>4, <1>7, <1>10
  <2> QED
    BY <2>1, <2>2, Zenon DEF Stands
<1> QED
  BY <1>3, <1>7, <1>8, <1>9, <1>11

\* CALL and its kin, in memory: both ranges are paid for, then the context of the
\* sub-frame begins.
LEMMA CallKeepsMemory ==
  ASSUME MemoryInv, TableInv, NEW c \in Code, NEW create \in BOOLEAN, NEW in \in Ranges,
         NEW out \in Ranges, Call(c, create, in, out)
  PROVE  MemoryInv'
<1> DEFINE k1 == IF in.len = 0 THEN 0 ELSE in.offset + in.len
           k2 == IF out.len = 0 THEN 0 ELSE out.offset + out.len
           f1 == Paid(Last(frames), k1)
           f2 == Paid(f1, k2)
           m1 == Expanded(mem, Last(frames), k1)
           m2 == Expanded(m1, f1, k2)
           fs1 == AfterPaying(frames, k1)
           fs2 == AfterPaying(fs1, k2)
           h == [slice |-> SliceOf(m2, in.offset, in.len), is |-> SubSeq(f2.own, in.offset + 1, k1)]
           input == IF in.len = 0 THEN Nothing ELSE h
<1>1. PICK o \in Objects(Len(frames), create) :
        frames' = Append(Replaced(frames, f2), NewFrame(c, o, create, input, out))
  BY DEF Call, Top, SetTop, Replaced
<1>2. mem' = NewChildContext(m2) /\ UNCHANGED <<pool, arena, logs, result>>
  BY DEF Call, Top
<1>3. Whole(frames, mem, pool, arena) /\ frames # <<>>
  BY DEF MemoryInv, Call, Running
<1>4. in.offset \in Nat /\ in.len \in Nat /\ out.offset \in Nat /\ out.len \in Nat
  BY WordsAreNumbers
<1>5. k1 \in Nat /\ k2 \in Nat
  BY <1>4, SMTT(30)
<1>6. out \in MemoryRange
  BY BoundsAssumption DEF Ranges, MemoryRange
<1>7. o \in Nat
  BY ObjectsAreNumbers
<1>8. in.len # 0 => k1 = in.offset + in.len
  OBVIOUS
<1>9. out.len # 0 => k2 = out.offset + out.len
  OBVIOUS
<1> HIDE DEF k1, k2
<1>10. /\ Whole(fs1, m1, pool, arena) /\ Keeps(mem, pool, arena, m1, pool, arena)
       /\ fs1 # <<>> /\ Last(fs1) = f1 /\ k1 <= Len(f1.own) /\ Len(f1.own) \in Nat
       /\ \A e : Replaced(fs1, e) = Replaced(frames, e)
  BY <1>3, <1>5, PaysAndExpands
<1> HIDE DEF m1, f1, fs1
<1>11. /\ Whole(AfterPaying(fs1, k2), Expanded(m1, Last(fs1), k2), pool, arena)
       /\ Keeps(m1, pool, arena, Expanded(m1, Last(fs1), k2), pool, arena)
       /\ AfterPaying(fs1, k2) # <<>> /\ Last(AfterPaying(fs1, k2)) = Paid(Last(fs1), k2)
       /\ k2 <= Len(Paid(Last(fs1), k2).own) /\ Len(Paid(Last(fs1), k2).own) \in Nat
       /\ Len(Last(fs1).own) <= Len(Paid(Last(fs1), k2).own)
  BY <1>5, <1>10, PaysAndExpands
<1>12. fs2 = Replaced(frames, f2)
  BY <1>10 DEF AfterPaying
<1>13. /\ Whole(fs2, m2, pool, arena) /\ Keeps(m1, pool, arena, m2, pool, arena)
       /\ fs2 # <<>> /\ Last(fs2) = f2 /\ k2 <= Len(f2.own) /\ Len(f2.own) \in Nat
       /\ Len(f1.own) <= Len(f2.own)
  BY <1>10, <1>11
<1> HIDE DEF m2, f2, fs2
<1>14. MemorySound(m2) /\ Disjoint(m2, pool, arena) /\ m2.len \in Nat
  BY <1>13, MemoryTypes DEF Whole
<1>15. /\ input \in Held /\ Stands(input, m2)
       /\ input.slice.arr \notin pool /\ input.slice.start + input.slice.len <= m2.len
  <2>1. CASE in.len = 0
    BY <1>14, <2>1, NothingLasts DEF Lasting
  <2>2. CASE in.len # 0
    <3>1. in.offset + in.len <= Len(Last(fs2).own)
      BY <1>4, <1>5, <1>8, <1>10, <1>13, <2>2
    <3>2. h = [slice |-> SliceOf(m2, in.offset, in.len),
               is |-> SubSeq(Last(fs2).own, in.offset + 1, in.offset + in.len)]
      BY <1>8, <1>13, <2>2, Zenon
    <3> HIDE DEF h
    <3>3. Whole(fs2, m2, pool, arena) /\ fs2 # <<>>
      BY <1>13
    <3>4. \A a, n \in Nat : \A e :
            /\ a + n <= Len(Last(fs2).own)
            /\ e = [slice |-> SliceOf(m2, a, n), is |-> SubSeq(Last(fs2).own, a + 1, a + n)]
            => /\ e \in Held /\ Stands(e, m2)
               /\ e.slice.arr \notin pool /\ e.slice.start + e.slice.len <= m2.len
      BY <3>3, InputIsSound
    <3>5. /\ h \in Held /\ Stands(h, m2)
          /\ h.slice.arr \notin pool /\ h.slice.start + h.slice.len <= m2.len
      BY <1>4, <3>1, <3>2, <3>4, Zenon
    <3> QED
      BY <2>2, <3>5
  <2> QED
    BY <2>1, <2>2
<1> HIDE DEF input
<1> DEFINE g == NewFrame(c, o, create, input, out)
<1>16. /\ g \in Frame /\ g.own = <<>> /\ g.words = 0 /\ g.ret = Nothing
       /\ g.input = input /\ g.out = out
  <2>1. \A i \in Held, r \in MemoryRange :
          LET q == NewFrame(c, o, create, i, r)
          IN  /\ q \in Frame /\ q.own = <<>> /\ q.words = 0 /\ q.ret = Nothing
              /\ q.input = i /\ q.out = r
    BY <1>7, NewFrameIsFrame
  <2>2. input \in Held /\ out \in MemoryRange
    BY <1>6, <1>15
  <2> QED
    BY <2>1, <2>2
<1> HIDE DEF g
<1>17. InputSound(g, m2, pool, m2.len)
  BY <1>15, <1>16 DEF InputSound
<1>18. g.out.len > 0 => g.out.offset + g.out.len <= Len(Last(fs2).own)
  BY <1>4, <1>9, <1>13, <1>16
<1>19. /\ Whole(Append(fs2, g), NewChildContext(m2), pool, arena)
       /\ NewChildContext(m2).heap = m2.heap /\ NewChildContext(m2).arr = m2.arr
  BY <1>13, <1>16, <1>17, <1>18, ChildIsWhole
<1>20. Keeps(mem, pool, arena, NewChildContext(m2), pool, arena)
  <2>1. MemorySound(NewChildContext(m2))
    BY <1>19 DEF Whole
  <2>2. Keeps(m2, pool, arena, NewChildContext(m2), pool, arena)
    BY <1>14, <1>19, <2>1, SameHeapKeeps
  <2>3. Keeps(mem, pool, arena, m2, pool, arena)
    BY <1>10, <1>13, KeepsTransitive
  <2> QED
    BY <2>2, <2>3, KeepsTransitive
<1>21. frames' = Append(fs2, g)
  BY <1>1, <1>12 DEF g
<1> QED
  BY <1>2, <1>19, <1>20, <1>21, MemoryKept

\* The end of a frame, in memory: the caller's context is as it was, and the output goes where
\* it belongs.  fs are the frames when the output was paid for.
LEMMA LeaveKeepsMemory ==
  ASSUME MemoryInv, NEW fs, NEW m, NEW output, frames # <<>>,
         Whole(fs, m, pool', arena'), Keeps(mem, pool, arena, m, pool', arena'),
         Lasting(output, m, pool'), fs # <<>>, Len(fs) = Len(frames), Front(fs) = Front(frames),
         Last(fs).out = Last(frames).out, Leave(m, output)
  PROVE  MemoryInv'
<1> DEFINE P == pool'
           A == arena'
           n == ReleaseChildContext(m)
           gs == Front(frames)
           f == Last(frames)
<1>1. /\ Whole(gs, n, P, A) /\ n.heap = m.heap /\ n.arr = m.arr
  BY ReleasedIsWhole
<1>2. MemorySound(m) /\ MemorySound(n)
  BY <1>1 DEF Whole
<1>3. Keeps(m, P, A, n, P, A)
  BY <1>1, <1>2, SameHeapKeeps
<1>4. Keeps(mem, pool, arena, n, P, A)
  BY <1>3, KeepsTransitive
<1>5. /\ LogsSound(logs, mem, pool) /\ ResultSound(result, mem, pool, arena)
      /\ Whole(frames, mem, pool, arena)
  BY DEF MemoryInv
<1>6. Lasting(output, n, P)
  BY <1>1 DEF Lasting, Stands
<1>7. logs' = logs
  BY DEF Leave
<1>8. /\ Len(frames) \in Nat \ {0} /\ gs \in Seq(Frame) /\ Len(gs) = Len(frames) - 1
      /\ f \in Frame /\ fs \in Seq(Frame) /\ Last(fs) = fs[Len(fs)]
      /\ \A i \in 1 .. Len(fs) - 1 : gs[i] = fs[i]
  <2>1. frames \in Seq(Frame) /\ fs \in Seq(Frame)
    BY <1>5, WholeTypes
  <2>2. /\ Len(frames) \in Nat \ {0} /\ gs \in Seq(Frame) /\ Len(gs) = Len(frames) - 1
        /\ f \in Frame
    BY <2>1, FrontAt
  <2>3. Last(fs) = fs[Len(fs)] /\ \A i \in 1 .. Len(fs) - 1 : Front(fs)[i] = fs[i]
    BY <2>1, FrontAt, Zenon
  <2> QED
    BY <2>1, <2>2, <2>3
<1>9. CASE Len(frames) = 1
  <2>1. gs = <<>>
    BY <1>8, <1>9, EmptySeq
  <2>2. PICK copied \in BOOLEAN :
          /\ mem' = Handed(n, Append(logs, output), copied).mem /\ frames' = <<>>
          /\ result' = [held |-> Handed(n, Append(logs, output), copied).held, borrowed |-> ~copied]
    BY <1>9 DEF Leave
  <2> DEFINE held == Append(logs, output)
  <2>3. LogsSound(logs, n, P)
    BY <1>4, <1>5, LogsKept
  <2>4. held \in Seq(Held) /\ \A i \in DOMAIN held : Lasting(held[i], n, P)
    <3>1. output \in Held /\ logs \in Seq(Held)
      BY <1>6, <2>3 DEF Lasting, LogsSound
    <3>2. /\ held \in Seq(Held) /\ Len(held) = Len(logs) + 1 /\ Len(logs) \in Nat
          /\ \A j \in 1 .. Len(logs) : held[j] = logs[j]
          /\ held[Len(logs) + 1] = output /\ DOMAIN logs = 1 .. Len(logs)
      BY <3>1, AppendAt, LenIsNat
    <3> HIDE DEF held
    <3>3. DOMAIN held = 1 .. Len(logs) + 1
      BY <3>2, LenIsNat
    <3>4. \A j \in 1 .. Len(logs) + 1 : j \in 1 .. Len(logs) \/ j = Len(logs) + 1
      BY <3>2
    <3>5. \A j \in 1 .. Len(logs) + 1 : Lasting(held[j], n, P)
      BY <1>6, <2>3, <3>2, <3>4, Zenon DEF LogsSound
    <3> QED
      BY <3>2, <3>3, <3>5
  <2> HIDE DEF held
  <2> DEFINE d == Handed(n, held, copied)
  <2>5. Whole(<<>>, n, P, A)
    BY <1>1, <2>1
  <2>6. /\ Whole(<<>>, d.mem, P, A) /\ Keeps(n, P, A, d.mem, P, A)
        /\ ResultSound([held |-> d.held, borrowed |-> ~copied], d.mem, P, A)
    BY <2>4, <2>5, HandedIsWhole
  <2>7. mem' = d.mem /\ result' = [held |-> d.held, borrowed |-> ~copied]
    BY <2>2 DEF held
  <2> HIDE DEF d
  <2>8. LogsSound(logs, d.mem, P)
    BY <2>3, <2>6, LogsKept
  <2> QED
    BY <1>7, <2>2, <2>6, <2>7, <2>8 DEF MemoryInv
<1>10. CASE Len(frames) # 1
  <2>1. gs # <<>>
    BY <1>8, <1>10, EmptySeq
  <2>2. PICK kept \in Kept(f, output) :
          /\ mem' = Delivered(f, Last(gs), n, output, kept).mem
          /\ frames' = Append(Front(gs), Delivered(f, Last(gs), n, output, kept).frame)
          /\ result' = result
    BY <1>10 DEF Leave, Top, Below
  <2>3. f.out.len > 0 => f.out.offset + f.out.len <= Len(Last(gs).own)
    <3>1. Len(fs) \in DOMAIN fs /\ Len(fs) > 1
      BY <1>8, <1>10, LenIsNat
    <3>2. OutSound(fs, Len(fs))
      BY <3>1 DEF Whole, FrameSound
    <3>3. Last(gs) = fs[Len(fs) - 1]
      <4>1. Last(gs) = gs[Len(gs)]
        BY <1>8, <2>1, FrontAt, Zenon
      <4>2. Len(gs) = Len(fs) - 1 /\ Len(fs) - 1 \in 1 .. Len(fs) - 1
        BY <1>8, <3>1
      <4> QED
        BY <1>8, <4>1, <4>2
    <3> QED
      BY <1>8, <3>1, <3>2, <3>3 DEF OutSound
  <2> HIDE DEF gs, n, f
  <2> DEFINE d == Delivered(f, Last(gs), n, output, kept)
  <2>4. Whole(Replaced(gs, d.frame), d.mem, P, A) /\ Keeps(n, P, A, d.mem, P, A)
    BY <1>1, <1>6, <1>8, <2>1, <2>3, DeliveredIsWhole
  <2>5. mem' = d.mem /\ frames' = Replaced(gs, d.frame)
    BY <2>2 DEF Replaced
  <2> HIDE DEF d
  <2>6. Keeps(mem, pool, arena, d.mem, P, A)
    BY <1>4, <2>4, KeepsTransitive
  <2> QED
    BY <1>7, <2>2, <2>4, <2>5, <2>6, MemoryKept
<1> QED
  BY <1>9, <1>10

\* RETURN and REVERT: the output is copied before the frame's context goes.
LEMMA ReturnKeepsMemory ==
  ASSUME MemoryInv, NEW o \in Words, NEW n \in 0 .. 1, Return(o, n)
  PROVE  MemoryInv'
<1>1. o \in Nat /\ n \in Nat
  BY WordsAreNumbers
<1>2. Whole(frames, mem, pool, arena) /\ frames # <<>> /\ frames \in Seq(Frame)
  BY DEF MemoryInv, Return, Running, Whole
<1>3. CASE n = 0
  <2>1. Leave(mem, Nothing) /\ UNCHANGED <<pool, arena>>
    BY <1>3 DEF Return
  <2>2. MemorySound(mem) /\ Disjoint(mem, pool, arena)
    BY <1>2 DEF Whole
  <2>3. Keeps(mem, pool, arena, mem, pool, arena) /\ Lasting(Nothing, mem, pool)
    BY <2>2, SameHeapKeeps, NothingLasts
  <2> QED
    BY <1>2, <2>1, <2>3, LeaveKeepsMemory
<1>4. CASE n # 0
  <2>1. PICK i \in pool \cup {0} :
          /\ Leave(OutputMemory(frames, mem, o, n, i), OutputOf(frames, mem, o, n, i))
          /\ pool' = pool \ {i} /\ arena' = arena \cup {OutputOf(frames, mem, o, n, i).slice.arr}
    BY <1>4 DEF Return, Top, OutputOf, OutputMemory
  <2> DEFINE fs == AfterPaying(frames, o + n)
             h == OutputOf(frames, mem, o, n, i)
             m == OutputMemory(frames, mem, o, n, i)
  <2>2. /\ Whole(fs, m, pool', arena') /\ Keeps(mem, pool, arena, m, pool', arena')
        /\ Lasting(h, m, pool')
    BY <1>1, <1>2, <2>1, OutputLasts, Zenon
  <2>3. o + n \in Nat
    BY <1>1
  <2>4. /\ fs # <<>> /\ Last(fs) = Paid(Last(frames), o + n) /\ Len(fs) = Len(frames)
    BY <1>2, <2>3, PaysAndExpands
  <2>5. Front(fs) = Front(frames)
    <3>1. Front(frames) \in Seq(Frame) /\ Paid(Last(frames), o + n) \in Frame
      BY <1>2, <2>3, FrontAt, PaysAndExpands, Zenon
    <3> QED
      BY <3>1, FrontOfEnded DEF AfterPaying, Replaced
  <2>6. Last(fs).out = Last(frames).out
    <3>1. Last(frames) \in Frame
      BY <1>2, FrontAt
    <3> QED
      BY <2>4, <3>1, Zenon DEF Paid, Frame
  <2>7. Leave(m, h)
    BY <2>1
  <2> HIDE DEF fs, h, m
  <2> QED
    BY <1>2, <2>2, <2>4, <2>5, <2>6, <2>7, LeaveKeepsMemory
<1> QED
  BY <1>3, <1>4

-----------------------------------------------------------------------------
(***************************************************************************)
(* Jump tables: who may overwrite which.                                   *)
(***************************************************************************)
\* What TablesSound says of the parts.
LEMMA TableTypes ==
  ASSUME NEW os, NEW ts, NEW c1, NEW c2, TablesSound(os, ts, c1, c2)
  PROVE  /\ os \in Seq(BytecodeObject) /\ Len(os) \in Nat \ {0} /\ DOMAIN os = 1 .. Len(os)
         /\ ts \in Seq(Table) /\ Len(ts) \in Nat /\ DOMAIN ts = 1 .. Len(ts)
         /\ \A t \in 1 .. Len(ts) : ts[t] \in Table /\ ts[t].of \in Code \cup {NoHash} /\ ts[t].cap \in Nat
         /\ \A o \in DOMAIN os :
              /\ os[o] \in BytecodeObject /\ ObjectSound(os[o], ts) /\ Unshared(os, o, c1, c2)
              /\ os[o].table \in Nat /\ os[o].table <= Len(ts)
         /\ c1 \in [Code -> 0 .. Len(ts)] /\ c2 \in [Code -> 0 .. Len(ts)]
<1>1. /\ os \in Seq(BytecodeObject) /\ os # <<>> /\ ts \in Seq(Table)
      /\ \A o \in DOMAIN os : ObjectSound(os[o], ts) /\ Unshared(os, o, c1, c2)
      /\ c1 \in [Code -> 0 .. Len(ts)] /\ c2 \in [Code -> 0 .. Len(ts)]
  BY DEF TablesSound, CacheSound
<1>2. /\ Len(os) \in Nat \ {0} /\ DOMAIN os = 1 .. Len(os)
      /\ Len(ts) \in Nat /\ DOMAIN ts = 1 .. Len(ts)
  BY <1>1, LenIsNat, EmptySeq
<1>3. \A t \in 1 .. Len(ts) : ts[t] \in Table
  BY <1>1, LenIsNat
<1>4. \A o \in DOMAIN os : os[o] \in BytecodeObject
  BY <1>1, LenIsNat
<1>5. \A b \in BytecodeObject : ObjectSound(b, ts) => b.table \in Nat /\ b.table <= Len(ts)
  BY DEF ObjectSound, BytecodeObject
<1> QED
  BY <1>1, <1>2, <1>3, <1>4, <1>5 DEF Table

\* A table that an object or a cache may come to hold: no table, one from a cache, or that of
\* an object which will not overwrite it.
Known(t, os, ns, c1, c2) ==
  \/ t = 0
  \/ \E c \in Code : t = c1[c] \/ t = c2[c]
  \/ \E q \in DOMAIN os : ~OwnTable(ns, q) /\ t = os[q].table

\* A known table is not one that somebody may overwrite.
LEMMA KnownIsNotOwn ==
  ASSUME NEW os, NEW ts, NEW c1, NEW c2, TablesSound(os, ts, c1, c2), NEW ns,
         NEW p \in DOMAIN os, OwnTable(os, p), OwnTable(ns, p), NEW t, Known(t, os, ns, c1, c2)
  PROVE  t # os[p].table
<1>1. Unshared(os, p, c1, c2) /\ os[p].table # 0
  BY DEF TablesSound, OwnTable
<1>2. /\ \A q \in DOMAIN os : q # p => os[q].table # os[p].table
      /\ \A c \in Code : c1[c] # os[p].table /\ c2[c] # os[p].table
  BY <1>1 DEF Unshared
<1>3. CASE t = 0
  BY <1>1, <1>3
<1>4. CASE \E c \in Code : t = c1[c] \/ t = c2[c]
  BY <1>2, <1>4
<1>5. CASE \E q \in DOMAIN os : ~OwnTable(ns, q) /\ t = os[q].table
  BY <1>2, <1>5
<1> QED
  BY <1>3, <1>4, <1>5 DEF Known

\* One object is prepared anew, or marked, and the caches are filled or emptied: as long as every
\* table they come to hold is known, nobody overwrites what another reads.
LEMMA TablesKept ==
  ASSUME NEW os, NEW ts, NEW c1, NEW c2, TablesSound(os, ts, c1, c2),
         NEW ns \in Seq(BytecodeObject), ns # <<>>, NEW o, DOMAIN ns = DOMAIN os \cup {o},
         \A p \in DOMAIN os : p # o => ns[p] = os[p],
         ObjectSound(ns[o], ts),
         OwnTable(ns, o) => o \in DOMAIN os /\ OwnTable(os, o) /\ ns[o].table = os[o].table,
         ~OwnTable(ns, o) => Known(ns[o].table, os, ns, c1, c2),
         NEW d1, NEW d2, CacheSound(d1, ts), CacheSound(d2, ts),
         \A c \in Code : Known(d1[c], os, ns, c1, c2) /\ Known(d2[c], os, ns, c1, c2)
  PROVE  TablesSound(ns, ts, d1, d2)
<1>1. ASSUME NEW p \in DOMAIN ns, OwnTable(ns, p)
      PROVE  p \in DOMAIN os /\ OwnTable(os, p) /\ ns[p].table = os[p].table
  <2>1. CASE p = o
    BY <1>1, <2>1
  <2>2. CASE p # o
    <3>1. p \in DOMAIN os /\ ns[p] = os[p]
      BY <2>2
    <3> QED
      BY <1>1, <3>1 DEF OwnTable
  <2> QED
    BY <2>1, <2>2
<1>2. ASSUME NEW p \in DOMAIN ns
      PROVE  Unshared(ns, p, d1, d2)
  <2> SUFFICES ASSUME OwnTable(ns, p)
               PROVE  /\ \A q \in DOMAIN ns : q # p => ns[q].table # ns[p].table
                      /\ \A c \in Code : d1[c] # ns[p].table /\ d2[c] # ns[p].table
    BY DEF Unshared
  <2>1. p \in DOMAIN os /\ OwnTable(os, p) /\ ns[p].table = os[p].table
    BY <1>1
  <2>2. \A t : Known(t, os, ns, c1, c2) => t # ns[p].table
    BY <2>1, KnownIsNotOwn
  <2>3. ASSUME NEW q \in DOMAIN ns, q # p
        PROVE  ns[q].table # ns[p].table
    <3>1. q \in DOMAIN os => os[q].table # os[p].table
      BY <2>1, <2>3 DEF TablesSound, Unshared
    <3>2. CASE OwnTable(ns, q)
      BY <1>1, <2>1, <3>1, <3>2
    <3>3. CASE ~OwnTable(ns, q) /\ q = o
      BY <2>2, <3>3
    <3>4. CASE q # o
      BY <2>1, <3>1, <3>4
    <3> QED
      BY <3>2, <3>3, <3>4
  <2> QED
    BY <2>2, <2>3
<1>3. ASSUME NEW p \in DOMAIN ns
      PROVE  ObjectSound(ns[p], ts)
  BY DEF TablesSound
<1> QED
  BY <1>2, <1>3 DEF TablesSound

\* What the caches hold is known.
LEMMA CachesAreKnown ==
  ASSUME NEW os, NEW ns, NEW c1, NEW c2
  PROVE  \A c \in Code : Known(c1[c], os, ns, c1, c2) /\ Known(c2[c], os, ns, c1, c2)
  BY DEF Known

\* ensureJumpTable: the analysis goes to the object's own table or to a new one, never to one
\* that somebody else reads.
LEMMA EnsuredKeepsTables ==
  ASSUME NEW os, NEW ts, NEW c1, NEW c2, TablesSound(os, ts, c1, c2),
         NEW o \in DOMAIN os, os[o].code \in Code
  PROVE  /\ TablesSound([os EXCEPT ![o] = Ensured(os[o], ts)], TablesAfter(os[o], ts), c1, c2)
         /\ Ensured(os[o], ts) \in BytecodeObject
         /\ Ensured(os[o], ts).ready /\ Ensured(os[o], ts).code = os[o].code
<1> DEFINE b == os[o]
           e == Ensured(b, ts)
           us == TablesAfter(b, ts)
           ns == [os EXCEPT ![o] = e]
<1>1. /\ os \in Seq(BytecodeObject) /\ Len(os) \in Nat \ {0} /\ DOMAIN os = 1 .. Len(os)
      /\ ts \in Seq(Table) /\ Len(ts) \in Nat /\ DOMAIN ts = 1 .. Len(ts)
      /\ \A t \in 1 .. Len(ts) : ts[t] \in Table /\ ts[t].of \in Code \cup {NoHash} /\ ts[t].cap \in Nat
      /\ \A p \in DOMAIN os :
           /\ os[p] \in BytecodeObject /\ ObjectSound(os[p], ts) /\ Unshared(os, p, c1, c2)
           /\ os[p].table \in Nat /\ os[p].table <= Len(ts)
      /\ c1 \in [Code -> 0 .. Len(ts)] /\ c2 \in [Code -> 0 .. Len(ts)]
  BY TableTypes
<1>2. /\ b \in BytecodeObject /\ ObjectSound(b, ts) /\ b.table \in Nat /\ b.table <= Len(ts)
      /\ b.code \in Code
  BY <1>1
<1>3. CASE b.ready
  <2>1. e = b /\ us = ts
    BY <1>3 DEF Ensured, TablesAfter
  <2>2. ns = os
    BY <1>1, <2>1
  <2> QED
    BY <1>2, <1>3, <2>1, <2>2
<1>4. CASE ~b.ready /\ Reuses(b, ts)
  <2>1. /\ ~b.external /\ b.table # 0 /\ e = [b EXCEPT !.ready = TRUE]
        /\ us = [ts EXCEPT ![b.table].of = b.code]
    BY <1>4 DEF Ensured, TablesAfter, Reuses
  <2>2. OwnTable(os, o) /\ Unshared(os, o, c1, c2)
    BY <1>1, <2>1 DEF OwnTable
  <2>3. b.table \in 1 .. Len(ts)
    BY <1>2, <2>1
  <2> DEFINE x == [ts[b.table] EXCEPT !.of = b.code]
  <2>4. x \in Table /\ x.of = b.code
    BY <1>1, <1>2, <2>3, Zenon DEF Table
  <2>5. us = [ts EXCEPT ![b.table] = x]
    BY <2>1
  <2> HIDE DEF x
  <2>6. us \in Seq(Table) /\ Len(us) = Len(ts)
    BY <1>1, <2>3, <2>4, <2>5, ExceptSeq
  <2>7. us[b.table] = x /\ \A t \in 1 .. Len(ts) : t # b.table => us[t] = ts[t]
    BY <1>1, <2>3, <2>5
  <2>8. /\ e \in BytecodeObject /\ e.ready /\ e.code = b.code /\ e.table = b.table
        /\ e.external = b.external /\ e.hash = b.hash
    BY <1>2, <2>1, Zenon DEF BytecodeObject
  <2> HIDE DEF us, e
  <2>9. ns \in Seq(BytecodeObject) /\ Len(ns) = Len(os) /\ DOMAIN ns = DOMAIN os
        /\ ns[o] = e /\ \A p \in DOMAIN os : p # o => ns[p] = os[p]
    BY <1>1, <2>8, ExceptSeq
  <2> HIDE DEF ns
  <2>10. ASSUME NEW p \in DOMAIN os
         PROVE  ObjectSound(ns[p], us)
    <3>1. CASE p = o
      <4>1. e.table <= Len(us) /\ e.table # 0 /\ us[e.table].of = e.code
        BY <1>2, <2>1, <2>4, <2>6, <2>7, <2>8
      <4>2. e.hash \in {NoHash, e.code}
        BY <1>2, <2>8 DEF ObjectSound
      <4> QED
        BY <2>8, <2>9, <3>1, <4>1, <4>2 DEF ObjectSound
    <3>2. CASE p # o
      <4>1. os[p].table # b.table
        BY <2>2, <3>2 DEF Unshared
      <4>2. os[p].ready => os[p].table \in 1 .. Len(ts) /\ us[os[p].table] = ts[os[p].table]
        BY <1>1, <2>7, <4>1 DEF ObjectSound
      <4> QED
        BY <1>1, <2>6, <2>9, <3>2, <4>2 DEF ObjectSound
    <3> QED
      BY <3>1, <3>2
  <2>11. \A p \in DOMAIN os : ns[p].table = os[p].table /\ ns[p].external = os[p].external
    BY <2>8, <2>9
  <2>12. \A p \in DOMAIN ns : Unshared(ns, p, c1, c2)
    BY <1>1, <2>9, <2>11 DEF Unshared, OwnTable
  <2>13. ASSUME NEW d, CacheSound(d, ts), \A c \in Code : d[c] # b.table
         PROVE  CacheSound(d, us)
    <3>1. \A c \in Code : d[c] # 0 => d[c] \in 1 .. Len(ts) /\ us[d[c]] = ts[d[c]]
      BY <1>1, <2>7, <2>13 DEF CacheSound
    <3> QED
      BY <2>6, <2>13, <3>1 DEF CacheSound
  <2>14. CacheSound(c1, us) /\ CacheSound(c2, us)
    BY <2>2, <2>13 DEF TablesSound, Unshared
  <2>15. ns # <<>>
    BY <1>1, <2>9, EmptySeq
  <2>16. TablesSound(ns, us, c1, c2)
    BY <2>6, <2>9, <2>10, <2>12, <2>14, <2>15 DEF TablesSound
  <2> QED
    BY <2>8, <2>16 DEF ns, us, e
<1>5. CASE ~b.ready /\ ~Reuses(b, ts)
  <2> DEFINE x == [of |-> b.code, cap |-> TableLen[b.code]]
  <2>1. /\ e = [b EXCEPT !.ready = TRUE, !.table = Len(ts) + 1, !.external = FALSE]
        /\ us = Append(ts, x)
    BY <1>5 DEF Ensured, TablesAfter
  <2>2. x \in Table /\ x.of = b.code
    BY <1>2, BytecodeAssumption DEF Table
  <2> HIDE DEF x
  <2>3. /\ us \in Seq(Table) /\ Len(us) = Len(ts) + 1
        /\ \A t \in 1 .. Len(ts) : us[t] = ts[t]
        /\ us[Len(ts) + 1] = x
    BY <1>1, <2>1, <2>2, AppendAt
  <2>4. /\ e \in BytecodeObject /\ e.ready /\ e.code = b.code /\ e.table = Len(ts) + 1
        /\ e.hash = b.hash
    <3> DEFINE k == Len(ts) + 1
    <3>1. k \in Nat
      BY <1>1
    <3>2. e = [b EXCEPT !.ready = TRUE, !.table = k, !.external = FALSE]
      BY <2>1
    <3> HIDE DEF k, e
    <3>3. e \in BytecodeObject /\ e.ready /\ e.code = b.code /\ e.table = k /\ e.hash = b.hash
      BY <1>2, <3>1, <3>2, Zenon DEF BytecodeObject
    <3> QED
      BY <3>3 DEF k
  <2> HIDE DEF us, e
  <2>5. ns \in Seq(BytecodeObject) /\ Len(ns) = Len(os) /\ DOMAIN ns = DOMAIN os
        /\ ns[o] = e /\ \A p \in DOMAIN os : p # o => ns[p] = os[p]
    BY <1>1, <2>4, ExceptSeq
  <2> HIDE DEF ns
  <2>6. ASSUME NEW p \in DOMAIN os
        PROVE  ObjectSound(ns[p], us)
    <3>1. CASE p = o
      <4>1. e.table <= Len(us) /\ e.table # 0 /\ us[e.table].of = e.code
        BY <1>1, <2>2, <2>3, <2>4
      <4>2. e.hash \in {NoHash, e.code}
        BY <1>2, <2>4 DEF ObjectSound
      <4> QED
        BY <2>4, <2>5, <3>1, <4>1, <4>2 DEF ObjectSound
    <3>2. CASE p # o
      <4>1. os[p].ready => os[p].table \in 1 .. Len(ts) /\ us[os[p].table] = ts[os[p].table]
        BY <1>1, <2>3 DEF ObjectSound
      <4>2. os[p].table <= Len(us)
        BY <1>1, <2>3
      <4> QED
        BY <1>1, <2>5, <3>2, <4>1, <4>2 DEF ObjectSound
    <3> QED
      BY <3>1, <3>2
  <2>7. \A p \in DOMAIN os : os[p].table # Len(ts) + 1
    BY <1>1
  <2>8. \A c \in Code : c1[c] # Len(ts) + 1 /\ c2[c] # Len(ts) + 1
    <3>1. \A k \in 0 .. Len(ts) : k # Len(ts) + 1
      BY <1>1
    <3> QED
      BY <1>1, <3>1
  <2>9. ASSUME NEW p \in DOMAIN ns
        PROVE  Unshared(ns, p, c1, c2)
    <3>1. CASE p = o
      BY <2>4, <2>5, <2>7, <2>8, <3>1 DEF Unshared, OwnTable
    <3>2. CASE p # o
      <4>1. ns[p] = os[p] /\ Unshared(os, p, c1, c2) /\ os[p].table # Len(ts) + 1
        BY <1>1, <2>5, <2>7, <3>2
      <4> QED
        BY <2>4, <2>5, <4>1 DEF Unshared, OwnTable
    <3> QED
      BY <3>1, <3>2
  <2>10. ASSUME NEW d, CacheSound(d, ts)
         PROVE  CacheSound(d, us)
    <3>1. \A k \in 0 .. Len(ts) : k \in 0 .. Len(us) /\ (k # 0 => us[k] = ts[k])
      BY <1>1, <2>3
    <3>2. d \in [Code -> 0 .. Len(us)]
      BY <2>10, <3>1 DEF CacheSound
    <3>3. \A c \in Code : d[c] # 0 => us[d[c]] = ts[d[c]]
      BY <2>10, <3>1 DEF CacheSound
    <3> QED
      BY <2>10, <3>2, <3>3 DEF CacheSound
  <2>11. CacheSound(c1, us) /\ CacheSound(c2, us)
    BY <2>10 DEF TablesSound
  <2>12. ns # <<>>
    BY <1>1, <2>5, EmptySeq
  <2>13. TablesSound(ns, us, c1, c2)
    BY <2>3, <2>5, <2>6, <2>9, <2>11, <2>12 DEF TablesSound
  <2> QED
    BY <2>4, <2>13 DEF ns, us, e
<1> QED
  BY <1>3, <1>4, <1>5

\* GetJumpTable: a table that goes to the caches is marked, and never overwritten.
LEMMA HandedOutKeepsTables ==
  ASSUME NEW os, NEW ts, NEW c1, NEW c2, TablesSound(os, ts, c1, c2),
         NEW o \in DOMAIN os, os[o].ready, NEW e \in BytecodeObject, e.external,
         e.code = os[o].code, e.table = os[o].table, e.hash = os[o].hash, e.ready = os[o].ready,
         NEW d1 \in [Code -> Nat], NEW d2 \in [Code -> Nat],
         \A a \in Code : d1[a] = c1[a] \/ (a = os[o].code /\ d1[a] = os[o].table),
         \A a \in Code : d2[a] = c2[a] \/ (a = os[o].code /\ d2[a] = os[o].table)
  PROVE  TablesSound([os EXCEPT ![o] = e], ts, d1, d2)
<1> DEFINE b == os[o]
           ns == [os EXCEPT ![o] = e]
<1>1. /\ os \in Seq(BytecodeObject) /\ Len(os) \in Nat \ {0} /\ DOMAIN os = 1 .. Len(os)
      /\ Len(ts) \in Nat /\ b \in BytecodeObject /\ ObjectSound(b, ts) /\ b.table \in Nat
      /\ b.table <= Len(ts) /\ c1 \in [Code -> 0 .. Len(ts)] /\ c2 \in [Code -> 0 .. Len(ts)]
  BY TableTypes
<1>2. /\ e \in BytecodeObject /\ e.code = b.code /\ e.table = b.table /\ e.hash = b.hash
      /\ e.ready = b.ready /\ e.external
  OBVIOUS
<1>3. ns \in Seq(BytecodeObject) /\ Len(ns) = Len(os) /\ DOMAIN ns = DOMAIN os
      /\ ns[o] = e /\ \A p \in DOMAIN os : p # o => ns[p] = os[p]
  BY <1>1, <1>2, ExceptSeq
<1>4. ns # <<>>
  BY <1>1, <1>3, EmptySeq
<1> HIDE DEF ns
<1>5. ObjectSound(ns[o], ts)
  BY <1>1, <1>2, <1>3 DEF ObjectSound
<1>6. ~OwnTable(ns, o)
  BY <1>2, <1>3 DEF OwnTable
<1>7. Known(b.table, os, ns, c1, c2)
  BY <1>6 DEF Known
<1>8. ts[b.table].of = b.code
  BY <1>1 DEF ObjectSound
<1>9. ASSUME NEW c, NEW d \in [Code -> Nat], c = c1 \/ c = c2,
             \A a \in Code : d[a] = c[a] \/ (a = b.code /\ d[a] = b.table)
      PROVE  CacheSound(d, ts) /\ \A a \in Code : Known(d[a], os, ns, c1, c2)
  <2>1. CacheSound(c, ts) /\ c \in [Code -> 0 .. Len(ts)]
    BY <1>1, <1>9 DEF TablesSound
  <2>2. \A a \in Code : Known(c[a], os, ns, c1, c2)
    BY <1>9, CachesAreKnown, ZenonT(60)
  <2>3. b.table \in 0 .. Len(ts)
    BY <1>1
  <2>4. \A a \in Code : d[a] \in 0 .. Len(ts)
    BY <1>9, <2>1, <2>3
  <2>5. d \in [Code -> 0 .. Len(ts)]
    BY <1>9, <2>4
  <2>6. \A a \in Code : Known(d[a], os, ns, c1, c2)
    BY <1>7, <1>9, <2>2
  <2>7. \A a \in Code : d[a] # 0 => ts[d[a]].of = a
    BY <1>8, <1>9, <2>1 DEF CacheSound
  <2> QED
    BY <2>5, <2>6, <2>7 DEF CacheSound
<1>10. CacheSound(d1, ts) /\ \A a \in Code : Known(d1[a], os, ns, c1, c2)
  BY <1>9
<1>11. CacheSound(d2, ts) /\ \A a \in Code : Known(d2[a], os, ns, c1, c2)
  BY <1>9
<1>12. DOMAIN ns = DOMAIN os \cup {o}
  BY <1>3
<1>13. \A p \in DOMAIN os : p # o => ns[p] = os[p]
  BY <1>3
<1>14. TablesSound(ns, ts, d1, d2)
  <2>1. Known(ns[o].table, os, ns, c1, c2)
    BY <1>2, <1>3, <1>7
  <2>2. ASSUME NEW x1, NEW x2, CacheSound(x1, ts), CacheSound(x2, ts),
               \A a \in Code : Known(x1[a], os, ns, c1, c2) /\ Known(x2[a], os, ns, c1, c2)
        PROVE  TablesSound(ns, ts, x1, x2)
    BY <1>3, <1>4, <1>5, <1>6, <1>12, <1>13, <2>1, <2>2, TablesKept, SMTT(30)
  <2> QED
    BY <1>10, <1>11, <2>2
<1> QED
  BY <1>2, <1>14 DEF ns

\* The table that the caches have for a code is the table of that code.
LEMMA CachedTableIsOfCode ==
  ASSUME TablesSound(objects, tables, evmCache, globalCache), NEW c \in Code
  PROVE  /\ CachedTable(c) \in 0 .. Len(tables)
         /\ CachedTable(c) # 0 => tables[CachedTable(c)].of = c
         /\ \A ns : Known(CachedTable(c), objects, ns, evmCache, globalCache)
<1>1. CacheSound(evmCache, tables) /\ CacheSound(globalCache, tables) /\ Len(tables) \in Nat
  BY TableTypes DEF TablesSound
<1>2. CachedTable(c) \in {0, evmCache[c], globalCache[c]}
  BY DEF CachedTable
<1>3. \A t \in {0, evmCache[c], globalCache[c]} : t \in 0 .. Len(tables) /\ (t # 0 => tables[t].of = c)
  BY <1>1 DEF CacheSound
<1>4. \A ns : Known(CachedTable(c), objects, ns, evmCache, globalCache)
  BY <1>2 DEF Known
<1> QED
  BY <1>2, <1>3, <1>4

\* The object for a frame, prepared: as in Prepare.
ObjectFor(o, c, create) ==
  LET old    == IF o <= Len(objects) THEN objects[o] ELSE NewBytecode
      called == ResetWithHash(old, c)
  IN  IF create THEN Reset(old, c)
        ELSE IF CachedTable(c) # 0 THEN SetJumpTable(called, CachedTable(c)) ELSE called

\* It runs c, and its table is that of c or not ready.
LEMMA ObjectForIsSound ==
  ASSUME TablesSound(objects, tables, evmCache, globalCache), NEW c \in Code,
         NEW create, NEW o \in 1 .. Len(objects) + 1
  PROVE  LET b   == ObjectFor(o, c, create)
             old == IF o <= Len(objects) THEN objects[o] ELSE NewBytecode
         IN  /\ b \in BytecodeObject /\ b.code = c /\ ObjectSound(b, tables)
             /\ \/ b.table = old.table /\ b.external = old.external
                \/ b.external /\ b.table = CachedTable(c)
<1> DEFINE b == ObjectFor(o, c, create)
           old == IF o <= Len(objects) THEN objects[o] ELSE NewBytecode
           called == ResetWithHash(old, c)
<1>1. Len(tables) \in Nat /\ Len(objects) \in Nat /\ DOMAIN objects = 1 .. Len(objects)
  BY TableTypes
<1>2. c # NoHash
  BY BytecodeAssumption
<1>3. old \in BytecodeObject /\ ObjectSound(old, tables)
  <2>1. CASE o <= Len(objects)
    <3>1. o \in DOMAIN objects
      BY <1>1, <2>1
    <3> QED
      BY <2>1, <3>1, TableTypes
  <2>2. CASE ~(o <= Len(objects))
    <3>1. NewBytecode \in BytecodeObject /\ ObjectSound(NewBytecode, tables)
      BY <1>1 DEF NewBytecode, BytecodeObject, ObjectSound
    <3> QED
      BY <2>2, <3>1
  <2> QED
    BY <2>1, <2>2
<1>4. b = IF create THEN Reset(old, c)
            ELSE IF CachedTable(c) # 0 THEN SetJumpTable(called, CachedTable(c)) ELSE called
  BY DEF ObjectFor
<1> HIDE DEF old
<1>5. /\ Reset(old, c) \in BytecodeObject /\ Reset(old, c).code = c
      /\ ObjectSound(Reset(old, c), tables)
      /\ Reset(old, c).table = old.table /\ Reset(old, c).external = old.external
  BY <1>3, Zenon DEF Reset, BytecodeObject, ObjectSound
<1>6. /\ called \in BytecodeObject /\ called.code = c /\ ObjectSound(called, tables)
      /\ called.table = old.table /\ called.external = old.external /\ called.hash = c
  <2>1. CASE old.hash = c
    <3>1. old.code = c
      BY <1>2, <1>3, <2>1 DEF ObjectSound
    <3>2. called = [old EXCEPT !.code = c]
      BY <2>1 DEF ResetWithHash
    <3>3. called = old
      BY <1>3, <3>1, <3>2 DEF BytecodeObject
    <3> QED
      BY <1>3, <2>1, <3>1, <3>3
  <2>2. CASE old.hash # c
    BY <1>3, <2>2, Zenon DEF ResetWithHash, Reset, BytecodeObject, ObjectSound
  <2> QED
    BY <2>1, <2>2
<1> HIDE DEF called, b
<1>7. ASSUME create
      PROVE  /\ b \in BytecodeObject /\ b.code = c /\ ObjectSound(b, tables)
             /\ \/ b.table = old.table /\ b.external = old.external
                \/ b.external /\ b.table = CachedTable(c)
  BY <1>4, <1>5, <1>7
<1>8. ASSUME ~create, CachedTable(c) = 0
      PROVE  /\ b \in BytecodeObject /\ b.code = c /\ ObjectSound(b, tables)
             /\ \/ b.table = old.table /\ b.external = old.external
                \/ b.external /\ b.table = CachedTable(c)
  BY <1>4, <1>6, <1>8
<1>9. ASSUME ~create, CachedTable(c) # 0
      PROVE  /\ b \in BytecodeObject /\ b.code = c /\ ObjectSound(b, tables)
             /\ \/ b.table = old.table /\ b.external = old.external
                \/ b.external /\ b.table = CachedTable(c)
  <2> DEFINE t == CachedTable(c)
  <2>1. t \in 0 .. Len(tables) /\ t # 0 /\ tables[t].of = c /\ t \in Nat /\ t <= Len(tables)
    BY <1>1, <1>9, CachedTableIsOfCode
  <2>2. b = SetJumpTable(called, t)
    BY <1>4, <1>9
  <2> HIDE DEF t
  <2>3. /\ b \in BytecodeObject /\ b.code = c /\ b.table = t /\ b.external /\ b.hash = c /\ b.ready
    BY <1>6, <2>1, <2>2, Zenon DEF SetJumpTable, BytecodeObject
  <2>4. ObjectSound(b, tables)
    BY <2>1, <2>3 DEF ObjectSound
  <2> QED
    BY <2>3, <2>4 DEF t
<1>10. /\ b \in BytecodeObject /\ b.code = c /\ ObjectSound(b, tables)
       /\ \/ b.table = old.table /\ b.external = old.external
          \/ b.external /\ b.table = CachedTable(c)
  BY <1>7, <1>8, <1>9
<1> QED
  BY <1>10 DEF b, old

\* An object is prepared: nobody else's table is touched.
LEMMA PrepareKeepsTables ==
  ASSUME TablesSound(objects, tables, evmCache, globalCache), NEW c \in Code,
         NEW create, NEW o \in 1 .. Len(objects) + 1, Prepare(o, c, create)
  PROVE  /\ TablesSound(objects', tables', evmCache', globalCache')
         /\ DOMAIN objects' = DOMAIN objects \cup {o} /\ objects'[o].code = c
         /\ \A p \in DOMAIN objects : p # o => objects'[p] = objects[p]
         /\ free' = free \ {o}
<1> DEFINE b == ObjectFor(o, c, create)
           old == IF o <= Len(objects) THEN objects[o] ELSE NewBytecode
           ns == objects'
<1>1. /\ ns = IF o <= Len(objects) THEN [objects EXCEPT ![o] = b] ELSE Append(objects, b)
      /\ free' = free \ {o}
      /\ evmCache' = IF create THEN evmCache ELSE [evmCache EXCEPT ![c] = CachedTable(c)]
      /\ tables' = tables /\ globalCache' = globalCache
  BY DEF Prepare, ObjectFor
<1>2. /\ objects \in Seq(BytecodeObject) /\ Len(objects) \in Nat \ {0}
      /\ DOMAIN objects = 1 .. Len(objects) /\ Len(tables) \in Nat
      /\ evmCache \in [Code -> 0 .. Len(tables)]
  BY TableTypes
<1>3. /\ b \in BytecodeObject /\ b.code = c /\ ObjectSound(b, tables)
      /\ \/ b.table = old.table /\ b.external = old.external
         \/ b.external /\ b.table = CachedTable(c)
  BY ObjectForIsSound
<1> HIDE DEF b
<1>4. /\ ns \in Seq(BytecodeObject) /\ ns # <<>> /\ DOMAIN ns = DOMAIN objects \cup {o}
      /\ ns[o] = b /\ \A p \in DOMAIN objects : p # o => ns[p] = objects[p]
  <2>1. CASE o <= Len(objects)
    <3>1. o \in 1 .. Len(objects) /\ ns = [objects EXCEPT ![o] = b]
      BY <1>1, <1>2, <2>1
    <3>2. ns \in Seq(BytecodeObject) /\ Len(ns) = Len(objects)
      BY <1>2, <1>3, <3>1, ExceptSeq
    <3>3. ns # <<>>
      BY <1>2, <3>2, EmptySeq
    <3> QED
      BY <1>2, <3>1, <3>2, <3>3
  <2>2. CASE ~(o <= Len(objects))
    <3>1. o = Len(objects) + 1 /\ ns = Append(objects, b)
      BY <1>1, <1>2, <2>2
    <3>2. /\ ns \in Seq(BytecodeObject) /\ ns # <<>> /\ Len(ns) = Len(objects) + 1
          /\ \A p \in 1 .. Len(objects) : ns[p] = objects[p]
          /\ ns[o] = b
      BY <1>2, <1>3, <3>1, AppendAt
    <3>3. DOMAIN ns = 1 .. Len(objects) + 1
      BY <3>2, LenIsNat
    <3> QED
      BY <1>2, <3>1, <3>2, <3>3
  <2> QED
    BY <2>1, <2>2
<1> HIDE DEF ns
<1>5. OwnTable(ns, o) =>
        o \in DOMAIN objects /\ OwnTable(objects, o) /\ ns[o].table = objects[o].table
  <2> SUFFICES ASSUME OwnTable(ns, o)
               PROVE  o \in DOMAIN objects /\ OwnTable(objects, o) /\ ns[o].table = objects[o].table
    OBVIOUS
  <2>1. ~b.external /\ b.table # 0 /\ b.table = old.table /\ b.external = old.external
    BY <1>3, <1>4 DEF OwnTable
  <2>2. o <= Len(objects)
    BY <2>1 DEF NewBytecode
  <2>3. o \in DOMAIN objects
    BY <1>2, <2>2
  <2> QED
    BY <1>4, <2>1, <2>2, <2>3 DEF OwnTable
<1>6. ~OwnTable(ns, o) => Known(ns[o].table, objects, ns, evmCache, globalCache)
  <2> SUFFICES ASSUME ~OwnTable(ns, o)
               PROVE  Known(b.table, objects, ns, evmCache, globalCache)
    BY <1>4
  <2>1. CASE b.table = CachedTable(c)
    BY <2>1, CachedTableIsOfCode
  <2>2. CASE b.table = old.table /\ o <= Len(objects)
    <3>1. o \in DOMAIN objects
      BY <1>2, <2>2
    <3> QED
      BY <2>2, <3>1 DEF Known
  <2>3. CASE b.table = old.table /\ ~(o <= Len(objects))
    BY <2>3 DEF NewBytecode, Known
  <2> QED
    BY <1>3, <2>1, <2>2, <2>3
<1>7. /\ CacheSound(evmCache', tables)
      /\ \A a \in Code : Known(evmCache'[a], objects, ns, evmCache, globalCache)
  <2>1. CacheSound(evmCache, tables)
    BY DEF TablesSound
  <2>2. \A a \in Code : Known(evmCache[a], objects, ns, evmCache, globalCache)
    BY CachesAreKnown, Zenon
  <2>3. CASE create
    BY <1>1, <2>1, <2>2, <2>3, Zenon
  <2>4. CASE ~create
    <3> DEFINE t == CachedTable(c)
               d == [evmCache EXCEPT ![c] = t]
    <3>1. t \in 0 .. Len(tables) /\ (t # 0 => tables[t].of = c)
          /\ Known(t, objects, ns, evmCache, globalCache)
      BY CachedTableIsOfCode
    <3> HIDE DEF t
    <3>2. d \in [Code -> 0 .. Len(tables)] /\ \A a \in Code : d[a] = IF a = c THEN t ELSE evmCache[a]
      BY <1>2, <3>1
    <3> HIDE DEF d
    <3>3. CacheSound(d, tables)
      BY <2>1, <3>1, <3>2, Zenon DEF CacheSound
    <3>4. \A a \in Code : Known(d[a], objects, ns, evmCache, globalCache)
      BY <2>2, <3>1, <3>2
    <3>5. evmCache' = d
      BY <1>1, <2>4 DEF d, t
    <3> QED
      BY <3>3, <3>4, <3>5
  <2> QED
    BY <2>3, <2>4
<1>8. /\ CacheSound(globalCache, tables)
      /\ \A a \in Code : Known(globalCache[a], objects, ns, evmCache, globalCache)
  BY CachesAreKnown, Zenon DEF TablesSound
<1>9. ObjectSound(ns[o], tables)
  BY <1>3, <1>4
<1>10. TablesSound(ns, tables, evmCache', globalCache)
  <2> DEFINE d == evmCache'
  <2>1. CacheSound(d, tables) /\ \A a \in Code : Known(d[a], objects, ns, evmCache, globalCache)
    BY <1>7
  <2> HIDE DEF d
  <2>2. TablesSound(ns, tables, d, globalCache)
    BY <1>4, <1>5, <1>6, <1>8, <1>9, <2>1, TablesKept
  <2> QED
    BY <2>2 DEF d
<1> QED
  BY <1>1, <1>3, <1>4, <1>10 DEF ns

-----------------------------------------------------------------------------
(***************************************************************************)
(* Which object is whose.                                                  *)
(***************************************************************************)
\* The objects keep their code, the frames their objects.
LEMMA AssignedKept ==
  ASSUME NEW fs, NEW os, NEW fr, Assigned(fs, os, fr), NEW ns, DOMAIN ns = DOMAIN os,
         \A o \in DOMAIN os : ns[o].code = os[o].code,
         NEW gs, DOMAIN gs = DOMAIN fs,
         \A i \in DOMAIN fs : gs[i].obj = fs[i].obj /\ gs[i].code = fs[i].code
  PROVE  Assigned(gs, ns, fr)
  BY DEF Assigned, ObjectOf

\* An instruction leaves the frame its object.
LEMMA ReplacedAssigned ==
  ASSUME NEW fs, NEW os, NEW fr, Assigned(fs, os, fr), fs \in Seq(Frame), fs # <<>>,
         NEW g, g.obj = Last(fs).obj, g.code = Last(fs).code
  PROVE  Assigned(Replaced(fs, g), os, fr)
<1> DEFINE S == Frame \cup {g}
           gs == Replaced(fs, g)
<1>1. Len(fs) \in Nat \ {0} /\ DOMAIN fs = 1 .. Len(fs) /\ \A i \in 1 .. Len(fs) : fs[i] \in Frame
  BY LenIsNat, FrontAt
<1>2. fs \in [1 .. Len(fs) -> S]
  <2>1. fs = [i \in 1 .. Len(fs) |-> fs[i]]
    BY <1>1, LenProperties
  <2> QED
    BY <1>1, <2>1
<1>3. fs \in Seq(S)
  BY <1>1, <1>2, FunctionIsSeq
<1>4. /\ gs \in Seq(S) /\ Len(gs) = Len(fs)
      /\ \A i \in 1 .. Len(fs) - 1 : gs[i] = fs[i]
      /\ gs[Len(fs)] = g
  <2>1. g \in S
    OBVIOUS
  <2> HIDE DEF S
  <2> QED
    BY <1>3, <2>1, ReplacedAt
<1>5. DOMAIN gs = DOMAIN fs
  BY <1>1, <1>4, LenIsNat
<1>6. Last(fs) = fs[Len(fs)]
  BY FrontAt, Zenon
<1> HIDE DEF gs
<1>7. \A i \in 1 .. Len(fs) : i \in 1 .. Len(fs) - 1 \/ i = Len(fs)
  <2>1. \A k \in Nat \ {0} : \A i \in 1 .. k : i \in 1 .. k - 1 \/ i = k
    OBVIOUS
  <2> QED
    BY <1>1, <2>1, Zenon
<1>8. \A i \in DOMAIN fs : gs[i].obj = fs[i].obj /\ gs[i].code = fs[i].code
  BY <1>1, <1>4, <1>6, <1>7, Zenon
<1> QED
  BY <1>5, <1>8, AssignedKept DEF gs

\* A new frame gets an object nobody has.
LEMMA AppendAssigned ==
  ASSUME NEW fs, NEW os, NEW fr, Assigned(fs, os, fr), fs \in Seq(Frame), NEW ns, NEW o,
         DOMAIN ns = DOMAIN os \cup {o}, \A p \in DOMAIN os : p # o => ns[p] = os[p],
         fs = <<>> \/ o \in fr \/ o \notin DOMAIN os,
         NEW g \in Frame, g.obj = o, g.code = ns[o].code
  PROVE  Assigned(Append(fs, g), ns, fr \ {o})
<1> DEFINE gs == Append(fs, g)
<1>1. Len(fs) \in Nat /\ DOMAIN fs = 1 .. Len(fs)
  BY LenIsNat
<1>2. /\ gs \in Seq(Frame) /\ Len(gs) = Len(fs) + 1
      /\ \A i \in 1 .. Len(fs) : gs[i] = fs[i]
      /\ gs[Len(fs) + 1] = g
  BY AppendAt
<1> HIDE DEF gs
<1>3. DOMAIN gs = 1 .. Len(fs) + 1
  BY <1>2, LenIsNat
<1>4. \A i \in DOMAIN gs : (i \in DOMAIN fs /\ gs[i] = fs[i]) \/ (i = Len(fs) + 1 /\ gs[i] = g)
  BY <1>1, <1>2, <1>3
<1>5. fs = <<>> => DOMAIN fs = {}
  BY <1>1
<1>6. fr \subseteq DOMAIN os \ {1} /\ \A i \in DOMAIN fs : fs[i].obj \in DOMAIN os \ fr
  BY DEF Assigned, ObjectOf
<1>7. \A i \in DOMAIN fs : fs[i].obj # o
  BY <1>5, <1>6
<1>8. ASSUME NEW i \in DOMAIN gs
      PROVE  ObjectOf(gs, ns, fr \ {o}, i)
  <2>1. CASE i \in DOMAIN fs /\ gs[i] = fs[i]
    BY <1>6, <1>7, <2>1 DEF Assigned, ObjectOf
  <2>2. CASE i = Len(fs) + 1 /\ gs[i] = g
    BY <2>2 DEF ObjectOf
  <2> QED
    BY <1>4, <2>1, <2>2
<1>9. \A i, j \in DOMAIN gs : i # j => gs[i].obj # gs[j].obj
  BY <1>4, <1>7 DEF Assigned
<1>10. fr \ {o} \subseteq DOMAIN ns \ {1}
  BY <1>6
<1> QED
  BY <1>8, <1>9, <1>10, Zenon DEF Assigned, gs

\* The object of a frame that is over is free, but for that of the Evm.
LEMMA FrontAssigned ==
  ASSUME NEW fs, NEW os, NEW fr, Assigned(fs, os, fr), fs \in Seq(Frame), fs # <<>>,
         NEW ns, DOMAIN ns = DOMAIN os, \A o \in DOMAIN os : ns[o].code = os[o].code
  PROVE  Assigned(Front(fs), ns, IF Last(fs).obj = 1 THEN fr ELSE fr \cup {Last(fs).obj})
<1> DEFINE gs == Front(fs)
           o == Last(fs).obj
           nr == IF o = 1 THEN fr ELSE fr \cup {o}
<1>1. /\ Len(fs) \in Nat \ {0} /\ gs \in Seq(Frame) /\ Len(gs) = Len(fs) - 1
      /\ \A i \in 1 .. Len(fs) - 1 : gs[i] = fs[i]
      /\ Last(fs) = fs[Len(fs)]
  BY FrontAt
<1>2. DOMAIN fs = 1 .. Len(fs) /\ DOMAIN gs = 1 .. Len(fs) - 1
  BY <1>1, LenIsNat
<1>3. \A i \in DOMAIN gs : i \in DOMAIN fs /\ i # Len(fs) /\ gs[i] = fs[i]
  BY <1>1, <1>2
<1>4. Len(fs) \in DOMAIN fs
  BY <1>1, <1>2
<1>5. \A i \in DOMAIN gs : fs[i].obj # o
  BY <1>1, <1>3, <1>4 DEF Assigned
<1>6. o \in DOMAIN os
  BY <1>1, <1>4 DEF Assigned, ObjectOf
<1> HIDE DEF gs, o
<1>7. nr \subseteq DOMAIN ns \ {1}
  BY <1>6 DEF Assigned
<1>8. \A i \in DOMAIN gs : ObjectOf(gs, ns, nr, i)
  BY <1>3, <1>5 DEF Assigned, ObjectOf
<1>9. \A i, j \in DOMAIN gs : i # j => gs[i].obj # gs[j].obj
  BY <1>3 DEF Assigned
<1> QED
  BY <1>7, <1>8, <1>9, Zenon DEF Assigned, gs, o

-----------------------------------------------------------------------------
(***************************************************************************)
(* The steps, on objects and tables.                                       *)
(***************************************************************************)
\* The frames of the memory invariant.
LEMMA FramesAreFrames ==
  ASSUME MemoryInv
  PROVE  frames \in Seq(Frame)
  BY DEF MemoryInv, Whole

\* A step of a program on its memory: the frame keeps its object, nothing happens to objects.
LEMMA InstructionKeepsTables ==
  ASSUME MemoryInv, TableInv, UNCHANGED code, frames # <<>>, NEW g,
         frames' = Replaced(frames, g), g.obj = Last(frames).obj, g.code = Last(frames).code
  PROVE  TableInv'
<1>1. Assigned(frames', objects, free)
  BY FramesAreFrames, ReplacedAssigned DEF TableInv
<1> QED
  BY <1>1 DEF TableInv, code

\* A frame that pays for memory runs on.
LEMMA PaidRunsOn ==
  ASSUME MemoryInv, frames # <<>>, NEW k
  PROVE  /\ Last(frames) \in Frame
         /\ Paid(Last(frames), k).obj = Last(frames).obj
         /\ Paid(Last(frames), k).code = Last(frames).code
         /\ Paid(Last(frames), k).out = Last(frames).out
<1>1. Last(frames) \in Frame
  BY FramesAreFrames, FrontAt
<1> QED
  BY <1>1 DEF Paid, Frame

\* MLOAD, MSTORE and MCOPY leave objects and tables alone.
LEMMA MemoryStepsKeepTables ==
  ASSUME MemoryInv, TableInv, MemorySteps
  PROVE  TableInv'
<1>1. ASSUME NEW o \in Words, Load(o)
      PROVE  TableInv'
  BY <1>1, PaidRunsOn, InstructionKeepsTables DEF Load, Running, Top, SetTop, Replaced
<1>2. ASSUME NEW o \in Words, NEW v \in Cell, Store(o, v)
      PROVE  TableInv'
  <2> DEFINE f == Paid(Last(frames), o + 1)
             g == [f EXCEPT !.own = Written(@, o, <<v>>)]
  <2>1. frames # <<>> /\ frames' = Replaced(frames, g) /\ UNCHANGED code
    BY <1>2 DEF Store, Running, Top, SetTop, Replaced
  <2>2. g.obj = f.obj /\ g.code = f.code
    BY DEF Paid
  <2>3. f.obj = Last(frames).obj /\ f.code = Last(frames).code
    BY <2>1, PaidRunsOn
  <2> HIDE DEF f, g
  <2> QED
    BY <2>1, <2>2, <2>3, InstructionKeepsTables
<1>3. ASSUME NEW d \in Words, NEW s \in Words, MCopy(d, s, 1)
      PROVE  TableInv'
  <2> DEFINE k == 1 + IF d > s THEN d ELSE s
             f == Paid(Last(frames), k)
             g == [f EXCEPT !.own = Written(@, d, SubSeq(f.own, s + 1, s + 1))]
  <2>1. frames # <<>> /\ frames' = Replaced(frames, g) /\ UNCHANGED code
    BY <1>3 DEF MCopy, Running, Top, SetTop, Replaced
  <2>2. g.obj = f.obj /\ g.code = f.code
    BY DEF Paid
  <2>3. f.obj = Last(frames).obj /\ f.code = Last(frames).code
    BY <2>1, PaidRunsOn
  <2> HIDE DEF f, g
  <2> QED
    BY <2>1, <2>2, <2>3, InstructionKeepsTables
<1> QED
  BY <1>1, <1>2, <1>3 DEF MemorySteps

\* So does LOG.
LEMMA LogKeepsTables ==
  ASSUME MemoryInv, TableInv, NEW o \in Words, Log(o, 1)
  PROVE  TableInv'
<1>1. frames # <<>> /\ UNCHANGED code
  BY DEF Log, Running
<1>2. frames' = Replaced(frames, Paid(Last(frames), o + 1))
  BY DEF Log, Top, SetTop, Replaced
<1> QED
  BY <1>1, <1>2, PaidRunsOn, InstructionKeepsTables

\* A frame that runs has an object, with its code.
LEMMA RunsOnObject ==
  ASSUME MemoryInv, TableInv, frames # <<>>
  PROVE  LET o == Last(frames).obj
         IN  /\ o \in DOMAIN objects \ free /\ objects[o].code = Last(frames).code
             /\ objects[o].code \in Code /\ Last(frames) \in Frame
<1>1. /\ frames \in Seq(Frame) /\ Len(frames) \in Nat \ {0} /\ Last(frames) = frames[Len(frames)]
      /\ Last(frames) \in Frame
  BY FramesAreFrames, FrontAt
<1>2. Len(frames) \in DOMAIN frames
  BY <1>1, LenIsNat
<1>3. ObjectOf(frames, objects, free, Len(frames))
  BY <1>2 DEF TableInv, Assigned
<1> QED
  BY <1>1, <1>3 DEF ObjectOf, Frame

\* opJump: the analysis is done at the first jump.
LEMMA JumpKeepsTables ==
  ASSUME MemoryInv, TableInv, Jump
  PROVE  TableInv'
<1> DEFINE o == Last(frames).obj
           e == Ensured(objects[o], tables)
           ns == [objects EXCEPT ![o] = e]
<1>1. /\ frames # <<>> /\ objects' = ns /\ tables' = TablesAfter(objects[o], tables)
      /\ UNCHANGED <<frames, free, evmCache, globalCache>>
  BY DEF Jump, Running, Top
<1>2. o \in DOMAIN objects /\ objects[o].code \in Code
  BY <1>1, RunsOnObject
<1>3. TablesSound(objects, tables, evmCache, globalCache) /\ Assigned(frames, objects, free)
  BY DEF TableInv
<1>4. /\ TablesSound(ns, TablesAfter(objects[o], tables), evmCache, globalCache)
      /\ e.code = objects[o].code
  BY <1>2, <1>3, EnsuredKeepsTables
<1> HIDE DEF o, e
<1>5. DOMAIN ns = DOMAIN objects /\ \A p \in DOMAIN objects : ns[p].code = objects[p].code
  <2>1. objects \in Seq(BytecodeObject)
    BY <1>3, TableTypes
  <2>2. \A p \in DOMAIN objects : ns[p] = IF p = o THEN e ELSE objects[p]
    OBVIOUS
  <2> QED
    BY <1>4, <2>1, <2>2
<1>6. Assigned(frames, ns, free)
  BY <1>3, <1>5, AssignedKept
<1> HIDE DEF ns
<1> QED
  BY <1>1, <1>4, <1>6 DEF TableInv

\* A shared cache may lose a table at any time.
LEMMA EvictKeepsTables ==
  ASSUME TableInv, NEW c \in Code, Evict(c)
  PROVE  TableInv'
<1> DEFINE d == [globalCache EXCEPT ![c] = 0]
<1>1. globalCache' = d /\ UNCHANGED <<frames, objects, tables, free, evmCache>>
  BY DEF Evict
<1>2. /\ TablesSound(objects, tables, evmCache, globalCache) /\ Assigned(frames, objects, free)
      /\ CacheSound(globalCache, tables)
  BY DEF TableInv, TablesSound
<1>3. Len(tables) \in Nat /\ globalCache \in [Code -> 0 .. Len(tables)]
  BY <1>2, TableTypes
<1>4. d \in [Code -> 0 .. Len(tables)] /\ \A a \in Code : d[a] = IF a = c THEN 0 ELSE globalCache[a]
  <2>1. 0 \in 0 .. Len(tables)
    BY <1>3
  <2> QED
    BY <1>3, <2>1
<1> HIDE DEF d
<1>5. CacheSound(d, tables)
  BY <1>2, <1>4 DEF CacheSound
<1>6. ASSUME NEW o \in DOMAIN objects
      PROVE  Unshared(objects, o, evmCache, d)
  <2>1. Unshared(objects, o, evmCache, globalCache)
    BY <1>2 DEF TablesSound
  <2> QED
    BY <1>4, <2>1 DEF Unshared, OwnTable
<1>7. TablesSound(objects, tables, evmCache, d)
  BY <1>2, <1>5, <1>6 DEF TablesSound
<1> QED
  BY <1>1, <1>2, <1>7 DEF TableInv

\* A jump, an eviction, the switch of the shared cache.
LEMMA CodeStepsKeepTables ==
  ASSUME MemoryInv, TableInv, CodeSteps
  PROVE  TableInv'
<1>1. CASE SetCacheEnabled
  BY <1>1 DEF SetCacheEnabled, TableInv
<1> QED
  BY <1>1, JumpKeepsTables, EvictKeepsTables DEF CodeSteps

\* A frame begins: its object was nobody's.
LEMMA BeginKeepsTables ==
  ASSUME TableInv, NEW c \in Code, NEW create \in BOOLEAN, NEW fs \in Seq(Frame),
         Assigned(fs, objects, free), NEW o, Prepare(o, c, create),
         (fs = <<>> /\ o = 1) \/ o \in free \cup {Len(objects) + 1},
         NEW g \in Frame, g.obj = o, g.code = c, frames' = Append(fs, g)
  PROVE  TableInv'
<1>1. TablesSound(objects, tables, evmCache, globalCache) /\ free \subseteq DOMAIN objects \ {1}
  BY DEF TableInv, Assigned
<1>2. Len(objects) \in Nat \ {0} /\ DOMAIN objects = 1 .. Len(objects)
  BY <1>1, TableTypes
<1>3. o \in 1 .. Len(objects) + 1
  BY <1>1, <1>2
<1>4. fs = <<>> \/ o \in free \/ o \notin DOMAIN objects
  BY <1>2
<1>5. /\ TablesSound(objects', tables', evmCache', globalCache')
      /\ DOMAIN objects' = DOMAIN objects \cup {o} /\ objects'[o].code = c
      /\ \A p \in DOMAIN objects : p # o => objects'[p] = objects[p]
      /\ free' = free \ {o}
  <2>1. \A a \in 1 .. Len(objects) + 1 : Prepare(a, c, create) =>
          /\ TablesSound(objects', tables', evmCache', globalCache')
          /\ DOMAIN objects' = DOMAIN objects \cup {a} /\ objects'[a].code = c
          /\ \A p \in DOMAIN objects : p # a => objects'[p] = objects[p]
          /\ free' = free \ {a}
    BY <1>1, PrepareKeepsTables, Zenon
  <2> QED
    BY <1>3, <2>1, Zenon
<1> DEFINE ns == objects'
<1>6. /\ DOMAIN ns = DOMAIN objects \cup {o} /\ ns[o].code = c
      /\ \A p \in DOMAIN objects : p # o => ns[p] = objects[p]
  BY <1>5
<1> HIDE DEF ns
<1>7. Assigned(Append(fs, g), ns, free \ {o})
  BY <1>4, <1>6, AppendAssigned, ZenonT(60)
<1> QED
  BY <1>5, <1>7 DEF TableInv, ns

\* transact: a call at depth 0 runs on the object of the Evm, a creation on a pooled one.
LEMMA TransactKeepsTables ==
  ASSUME MemoryInv, TableInv, NEW c \in Code, NEW create \in BOOLEAN, Transact(c, create)
  PROVE  TableInv'
<1> DEFINE out == [offset |-> 0, len |-> 0]
<1>1. frames = <<>>
  BY DEF Transact, Running
<1>2. PICK o \in Objects(0, create) :
        Prepare(o, c, create) /\ frames' = <<NewFrame(c, o, create, Nothing, out)>>
  BY DEF Transact
<1> DEFINE g == NewFrame(c, o, create, Nothing, out)
<1>3. o \in Nat
  BY ObjectsAreNumbers
<1>4. Nothing \in Held /\ out \in MemoryRange
  <2>1. MemorySound(mem) /\ Disjoint(mem, pool, arena)
    BY DEF MemoryInv, Whole
  <2> QED
    BY <2>1, NothingLasts DEF MemoryRange
<1> HIDE DEF out
<1>5. g \in Frame /\ g.obj = o /\ g.code = c
  BY <1>3, <1>4, NewFrameIsFrame
<1>6. frames' = Append(frames, g)
  BY <1>1, <1>2
<1> HIDE DEF g
<1>7. (frames = <<>> /\ o = 1) \/ o \in free \cup {Len(objects) + 1}
  BY <1>1 DEF Objects
<1>8. Assigned(frames, objects, free)
  BY DEF TableInv
<1> QED
  BY <1>2, <1>5, <1>6, <1>7, <1>8, FramesAreFrames, BeginKeepsTables

\* CALL and CREATE: the sub-frame gets a free object or a new one, with the cached table.
LEMMA CallKeepsTables ==
  ASSUME MemoryInv, TableInv, MemoryInv', NEW c \in Code, NEW create \in BOOLEAN,
         NEW in \in Ranges, NEW out \in Ranges, Call(c, create, in, out)
  PROVE  TableInv'
<1> DEFINE k1 == IF in.len = 0 THEN 0 ELSE in.offset + in.len
           k2 == IF out.len = 0 THEN 0 ELSE out.offset + out.len
           f1 == Paid(Last(frames), k1)
           f2 == Paid(f1, k2)
           m1 == Expanded(mem, Last(frames), k1)
           m2 == Expanded(m1, f1, k2)
           h == [slice |-> SliceOf(m2, in.offset, in.len), is |-> SubSeq(f2.own, in.offset + 1, k1)]
           input == IF in.len = 0 THEN Nothing ELSE h
           fs == Replaced(frames, f2)
<1>1. PICK o \in Objects(Len(frames), create) :
        Prepare(o, c, create) /\ frames' = Append(fs, NewFrame(c, o, create, input, out))
  BY DEF Call, Top, SetTop, Replaced
<1>2. frames # <<>> /\ frames \in Seq(Frame)
  BY FramesAreFrames DEF Call, Running
<1>3. f2.obj = Last(frames).obj /\ f2.code = Last(frames).code
  BY DEF Paid
<1> DEFINE g == NewFrame(c, o, create, input, out)
<1>4. g.obj = o /\ g.code = c
  BY DEF NewFrame
<1>5. frames' = Append(fs, g)
  BY <1>1
<1>6. k1 \in Nat /\ k2 \in Nat
  BY WordsAreNumbers
<1> HIDE DEF k1, k2
<1>7. f2 \in Frame
  <2>1. Whole(frames, mem, pool, arena)
    BY DEF MemoryInv
  <2>2. /\ Whole(AfterPaying(frames, k1), m1, pool, arena) /\ AfterPaying(frames, k1) # <<>>
        /\ Last(AfterPaying(frames, k1)) = f1
    BY <1>2, <1>6, <2>1, PaysAndExpands
  <2> HIDE DEF f1, m1
  <2> DEFINE gs == AfterPaying(frames, k1)
  <2> HIDE DEF gs
  <2>3. \A k \in Nat : Paid(Last(gs), k) \in Frame
    BY <2>2, PaysAndExpands, Zenon DEF gs
  <2> QED
    BY <1>6, <2>2, <2>3 DEF gs
<1> HIDE DEF f2, g
<1>8. fs \in Seq(Frame) /\ Assigned(fs, objects, free)
  BY <1>2, <1>3, <1>7, ReplacedAt, ReplacedAssigned DEF TableInv
<1> HIDE DEF fs
<1>9. g \in Frame
  <2>1. frames' \in Seq(Frame)
    BY DEF MemoryInv, Whole
  <2>2. Len(fs) \in Nat
    BY <1>8, LenIsNat
  <2>3. Len(frames') = Len(fs) + 1 /\ frames'[Len(fs) + 1] = g
    BY <1>5, <1>8, AppendProperties
  <2>4. Len(fs) + 1 \in 1 .. Len(frames')
    BY <2>2, <2>3
  <2> QED
    BY <2>1, <2>3, <2>4, LenIsNat
<1>10. o \in free \cup {Len(objects) + 1}
  <2>1. Len(frames) # 0
    BY <1>2, EmptySeq
  <2> QED
    BY <2>1 DEF Objects
<1> QED
  BY <1>1, <1>4, <1>5, <1>8, <1>9, <1>10, BeginKeepsTables, Zenon

\* The table of a frame that is over goes to the caches, and its object to the pool.
LEMMA CollectedKeepsTables ==
  ASSUME MemoryInv, TableInv, frames # <<>>, Collected(Last(frames))
  PROVE  /\ TablesSound(objects', tables', evmCache', globalCache')
         /\ Assigned(Front(frames), objects', free')
<1> DEFINE f == Last(frames)
           o == f.obj
           b == objects[o]
           e == Ensured(b, tables)
           handed == GetJumpTable(b, tables)
           stores == ~f.create /\ ~f.cached
           ns == [objects EXCEPT ![o] = e]
           us == TablesAfter(b, tables)
<1>1. /\ objects' = IF stores THEN [objects EXCEPT ![o] = handed] ELSE objects
      /\ tables' = IF stores THEN us ELSE tables
      /\ evmCache' = IF stores THEN [evmCache EXCEPT ![f.code] = handed.table] ELSE evmCache
      /\ globalCache' = IF stores /\ cacheOn THEN [globalCache EXCEPT ![f.code] = handed.table]
                          ELSE globalCache
      /\ free' = IF o = 1 THEN free ELSE free \cup {o}
  BY DEF Collected
<1>2. o \in DOMAIN objects /\ b.code = f.code /\ b.code \in Code
  BY RunsOnObject
<1>3. TablesSound(objects, tables, evmCache, globalCache) /\ Assigned(frames, objects, free)
      /\ frames \in Seq(Frame)
  BY FramesAreFrames DEF TableInv
<1>4. CASE ~stores
  <2>1. Assigned(Front(frames), objects, IF o = 1 THEN free ELSE free \cup {o})
    BY <1>3, FrontAssigned, Zenon
  <2> QED
    BY <1>1, <1>3, <1>4, <2>1
<1>5. CASE stores
  <2>1. /\ TablesSound(ns, us, evmCache, globalCache) /\ e \in BytecodeObject
        /\ e.ready /\ e.code = b.code
    BY <1>2, <1>3, EnsuredKeepsTables
  <2>2. handed = [e EXCEPT !.external = TRUE]
    BY DEF GetJumpTable
  <2>3. objects \in Seq(BytecodeObject)
    BY <1>3, TableTypes
  <2> HIDE DEF e, handed, us, o
  <2>4. DOMAIN ns = DOMAIN objects /\ ns[o] = e /\ \A p \in DOMAIN objects : p # o => ns[p] = objects[p]
    BY <1>2
  <2>5. [ns EXCEPT ![o] = handed] = [objects EXCEPT ![o] = handed]
    BY <1>2, <2>3, Zenon
  <2>6. handed.table = e.table
    BY <2>1, <2>2 DEF BytecodeObject
  <2> HIDE DEF ns
  <2> DEFINE d1 == [evmCache EXCEPT ![f.code] = handed.table]
             d2 == IF cacheOn THEN [globalCache EXCEPT ![f.code] = handed.table] ELSE globalCache
  <2>7. /\ ns[o].code = f.code /\ ns[o].table = handed.table /\ ns[o].ready /\ o \in DOMAIN ns
        /\ handed \in BytecodeObject /\ handed.external /\ handed.code = ns[o].code
        /\ handed.hash = ns[o].hash /\ handed.ready = ns[o].ready
    BY <1>2, <2>1, <2>2, <2>4, Zenon DEF b, BytecodeObject
  <2>8. handed.table \in Nat
    BY <2>7 DEF BytecodeObject
  <2>9. Len(tables) \in Nat /\ evmCache \in [Code -> Nat] /\ globalCache \in [Code -> Nat]
    <3>1. /\ Len(tables) \in Nat /\ evmCache \in [Code -> 0 .. Len(tables)]
          /\ globalCache \in [Code -> 0 .. Len(tables)]
      BY <1>3, TableTypes
    <3> QED
      BY <3>1
  <2>10. /\ d1 \in [Code -> Nat] /\ d2 \in [Code -> Nat]
         /\ \A a \in Code : d1[a] = evmCache[a] \/ (a = ns[o].code /\ d1[a] = ns[o].table)
         /\ \A a \in Code : d2[a] = globalCache[a] \/ (a = ns[o].code /\ d2[a] = ns[o].table)
    BY <2>7, <2>8, <2>9, Zenon
  <2> HIDE DEF d1, d2
  <2>11. TablesSound([ns EXCEPT ![o] = handed], us, d1, d2)
    BY <2>1, <2>7, <2>10, HandedOutKeepsTables, ZenonT(60)
  <2> DEFINE xs == [objects EXCEPT ![o] = handed]
  <2>12. TablesSound(xs, us, d1, d2)
    BY <2>5, <2>11
  <2>13. DOMAIN xs = DOMAIN objects /\ \A p \in DOMAIN objects : xs[p].code = objects[p].code
    <3>1. \A p \in DOMAIN objects : xs[p] = IF p = o THEN handed ELSE objects[p]
      OBVIOUS
    <3> QED
      BY <1>2, <2>7, <3>1 DEF b
  <2> HIDE DEF xs
  <2>14. Assigned(Front(frames), xs, IF o = 1 THEN free ELSE free \cup {o})
    BY <1>3, <2>13, FrontAssigned, Zenon DEF o
  <2>15. objects' = xs /\ tables' = us /\ evmCache' = d1 /\ globalCache' = d2
    BY <1>1, <1>5 DEF xs, d1, d2
  <2> QED
    BY <1>1, <2>12, <2>14, <2>15
<1> QED
  BY <1>4, <1>5

\* The end of a frame.
LEMMA LeaveKeepsTables ==
  ASSUME MemoryInv, TableInv, frames # <<>>, NEW m, NEW output, Leave(m, output)
  PROVE  TableInv'
<1>1. /\ TablesSound(objects', tables', evmCache', globalCache')
      /\ Assigned(Front(frames), objects', free')
  BY CollectedKeepsTables DEF Leave, Top
<1>2. Front(frames) \in Seq(Frame)
  BY FramesAreFrames, FrontAt
<1>3. CASE Len(frames) = 1
  <2>1. frames' = <<>>
    BY <1>3 DEF Leave
  <2>2. Front(frames) = <<>>
    <3>1. Len(Front(frames)) = 0
      BY <1>3, FramesAreFrames, FrontAt
    <3> QED
      BY <1>2, <3>1, EmptySeq
  <2> QED
    BY <1>1, <2>1, <2>2 DEF TableInv
<1>4. CASE Len(frames) # 1
  <2> DEFINE gs == Front(frames)
             p == Last(gs)
  <2>1. gs # <<>>
    <3>1. Len(frames) \in Nat \ {0} /\ Len(gs) = Len(frames) - 1
      BY FramesAreFrames, FrontAt
    <3>2. Len(gs) # 0
      BY <1>4, <3>1
    <3> QED
      BY <3>2, EmptySeq
  <2>2. PICK g : /\ frames' = Append(Front(gs), g)
                 /\ g.obj = p.obj /\ g.code = p.code
    <3>1. PICK kept \in Kept(Last(frames), output) :
            frames' = Append(Front(gs), Delivered(Last(frames), p, ReleaseChildContext(m), output, kept).frame)
      BY <1>4 DEF Leave, Top, Below
    <3> DEFINE d == Delivered(Last(frames), p, ReleaseChildContext(m), output, kept).frame
    <3>2. d.obj = p.obj /\ d.code = p.code
      <4>1. p \in Frame
        BY <1>2, <2>1, FrontAt
      <4>2. PICK w : d = [p EXCEPT !.ret = kept, !.own = w]
        BY Zenon DEF Delivered
      <4> HIDE DEF d, p
      <4> QED
        BY <4>1, <4>2 DEF Frame
    <3> HIDE DEF d
    <3> QED
      BY <3>1, <3>2 DEF d
  <2>3. frames' = Replaced(gs, g)
    BY <2>2 DEF Replaced
  <2> HIDE DEF gs
  <2> DEFINE ns == objects'
             nr == free'
  <2>4. Assigned(gs, ns, nr) /\ gs \in Seq(Frame)
    BY <1>1, <1>2 DEF gs
  <2> HIDE DEF ns, nr
  <2>5. Assigned(Replaced(gs, g), ns, nr)
    BY <2>1, <2>2, <2>4, ReplacedAssigned
  <2> QED
    BY <1>1, <2>3, <2>5 DEF TableInv, ns, nr
<1> QED
  BY <1>3, <1>4

\* RETURN and REVERT, for objects and tables.
LEMMA ReturnKeepsTables ==
  ASSUME MemoryInv, TableInv, NEW o \in Words, NEW n \in 0 .. 1, Return(o, n)
  PROVE  TableInv'
<1>1. frames # <<>>
  BY DEF Return, Running
<1>2. CASE n = 0
  <2>1. Leave(mem, Nothing)
    BY <1>2 DEF Return
  <2> QED
    BY <1>1, <2>1, LeaveKeepsTables
<1>3. CASE n # 0
  <2>1. PICK i \in pool \cup {0} : Leave(OutputMemory(frames, mem, o, n, i), OutputOf(frames, mem, o, n, i))
    BY <1>3 DEF Return, Top, OutputOf, OutputMemory
  <2> DEFINE m == OutputMemory(frames, mem, o, n, i)
             h == OutputOf(frames, mem, o, n, i)
  <2>2. Leave(m, h)
    BY <2>1
  <2> HIDE DEF m, h
  <2> QED
    BY <1>1, <2>2, LeaveKeepsTables
<1> QED
  BY <1>2, <1>3

-----------------------------------------------------------------------------
(***************************************************************************)
(* The theorems.                                                           *)
(***************************************************************************)
ResourcesInv == MemoryInv /\ TableInv

\* The first Evm: one array, no frame, one object without a table.
LEMMA InitResources ==
  ASSUME Init
  PROVE  ResourcesInv
<1> DEFINE z == Zeros(InitCap)
           c == NewContext(0)
           h == <<z>>
           s == <<c>>
           m == [heap |-> h, arr |-> 1, len |-> 0, ctxs |-> s]
<1>1. /\ mem = NewMemory /\ frames = <<>>
      /\ objects = <<NewBytecode>> /\ tables = <<>> /\ free = {}
      /\ evmCache = [a \in Code |-> 0] /\ globalCache = [a \in Code |-> 0]
      /\ pool = {} /\ arena = {} /\ logs = <<>>
      /\ result = [held |-> <<>>, borrowed |-> FALSE]
  BY DEF Init
<1>2. z \in Seq(Cell) /\ Len(z) = InitCap /\ InitCap \in Nat
  BY MemoryAssumption, ZerosAt
<1>3. c \in Context /\ c.checkpoint = 0
  BY DEF NewContext, Context
<1>4. mem = m
  BY <1>1 DEF NewMemory
<1> HIDE DEF z, c
<1>5. /\ h \in Seq(Seq(Cell)) /\ Len(h) = 1 /\ h[1] = z /\ DOMAIN h = 1 .. 1
      /\ s \in Seq(Context) /\ Len(s) = 1 /\ s[1] = c /\ DOMAIN s = 1 .. 1 /\ s # <<>>
  BY <1>2, <1>3
<1> HIDE DEF h, s
<1>6. m \in MemoryState /\ m.heap = h /\ m.arr = 1 /\ m.len = 0 /\ m.ctxs = s
  BY <1>5 DEF MemoryState
<1> HIDE DEF m
<1>7. m.arr \in DOMAIN m.heap /\ m.len <= Len(m.heap[m.arr])
  BY <1>2, <1>5, <1>6
<1>8. m.ctxs[Len(m.ctxs)].checkpoint <= m.len
  <2>1. Len(m.ctxs) = 1 /\ m.ctxs[1] = c
    BY <1>5, <1>6
  <2> QED
    BY <1>3, <1>6, <2>1
<1>9. \A i, j \in DOMAIN m.ctxs : i <= j => m.ctxs[i].checkpoint <= m.ctxs[j].checkpoint
  <2>1. \A i \in 1 .. 1 : i = 1
    OBVIOUS
  <2> QED
    BY <1>3, <1>5, <1>6, <2>1
<1>10. \A i \in 1 .. Len(m.ctxs) - 1 :
         m.ctxs[i].hasChild /\ m.ctxs[i].child = m.ctxs[i + 1].checkpoint
  <2>1. Len(m.ctxs) = 1
    BY <1>5, <1>6
  <2> QED
    BY <2>1
<1>11. MemorySound(m)
  BY <1>5, <1>6, <1>7, <1>8, <1>9, <1>10 DEF MemorySound
<1>12. Disjoint(m, {}, {})
  BY DEF Disjoint
<1>13. Len(m.ctxs) = Len(<<>>) + 1
  BY <1>5, <1>6
<1>14. Whole(<<>>, m, {}, {})
  BY <1>11, <1>12, <1>13 DEF Whole
<1>15. LogsSound(<<>>, m, {})
  BY DEF LogsSound
<1>16. ResultSound(result, m, {}, {})
  <2>1. result.held = <<>> /\ result \in [held : Seq(Held), borrowed : BOOLEAN]
    <3> DEFINE e == <<>>
    <3>1. e \in Seq(Held)
      OBVIOUS
    <3> HIDE DEF e
    <3>2. [held |-> e, borrowed |-> FALSE] \in [held : Seq(Held), borrowed : BOOLEAN]
      BY <3>1
    <3> QED
      BY <1>1, <3>2 DEF e
  <2> QED
    BY <2>1 DEF ResultSound
<1>17. MemoryInv
  BY <1>1, <1>4, <1>14, <1>15, <1>16 DEF MemoryInv
<1>18. TableInv
  <2> DEFINE b == NewBytecode
             os == <<b>>
             ts == <<>>
             d == [a \in Code |-> 0]
  <2>1. b \in BytecodeObject /\ b.table = 0 /\ ~b.ready /\ b.hash = NoHash
    BY DEF NewBytecode, BytecodeObject
  <2> HIDE DEF b
  <2>2. os \in Seq(BytecodeObject) /\ os # <<>> /\ DOMAIN os = 1 .. 1 /\ os[1] = b
    BY <2>1
  <2>3. ts \in Seq(Table) /\ Len(ts) = 0
    OBVIOUS
  <2> HIDE DEF os, ts
  <2>4. \A o \in DOMAIN os : os[o] = b
    BY <2>2
  <2>5. \A o \in DOMAIN os : ObjectSound(os[o], ts)
    BY <2>1, <2>3, <2>4 DEF ObjectSound
  <2>6. \A o \in DOMAIN os : Unshared(os, o, d, d)
    BY <2>1, <2>4 DEF Unshared, OwnTable
  <2>7. CacheSound(d, ts)
    BY <2>3 DEF CacheSound
  <2> HIDE DEF d
  <2>8. TablesSound(os, ts, d, d)
    BY <2>2, <2>3, <2>5, <2>6, <2>7 DEF TablesSound
  <2>9. Assigned(<<>>, os, {})
    BY DEF Assigned
  <2> QED
    BY <1>1, <2>8, <2>9 DEF TableInv, os, ts, d, b
<1> QED
  BY <1>17, <1>18 DEF ResourcesInv

\* A step of anybody.
LEMMA NextKeepsResources ==
  ASSUME ResourcesInv, [Next]_vars
  PROVE  ResourcesInv'
<1>1. MemoryInv /\ TableInv
  BY DEF ResourcesInv
<1>2. ASSUME MemorySteps
      PROVE  ResourcesInv'
  <2>1. MemoryInv'
    BY <1>1, <1>2, LoadKeepsMemory, StoreKeepsMemory, CopyKeepsMemory DEF MemorySteps
  <2> QED
    BY <1>1, <1>2, <2>1, MemoryStepsKeepTables DEF ResourcesInv
<1>3. ASSUME CodeSteps
      PROVE  ResourcesInv'
  BY <1>1, <1>3, CodeStepsKeepMemory, CodeStepsKeepTables DEF ResourcesInv
<1>4. ASSUME NEW c \in Code, NEW create \in BOOLEAN, Transact(c, create)
      PROVE  ResourcesInv'
  BY <1>1, <1>4, TransactKeepsMemory, TransactKeepsTables DEF ResourcesInv
<1>5. ASSUME NEW c \in Code, NEW create \in BOOLEAN, NEW in \in Ranges, NEW out \in Ranges,
             Call(c, create, in, out)
      PROVE  ResourcesInv'
  <2>1. MemoryInv'
    BY <1>1, <1>5, CallKeepsMemory
  <2> QED
    BY <1>1, <1>5, <2>1, CallKeepsTables DEF ResourcesInv
<1>6. ASSUME NEW o \in Words, NEW n \in 0 .. 1, Return(o, n)
      PROVE  ResourcesInv'
  BY <1>1, <1>6, ReturnKeepsMemory, ReturnKeepsTables DEF ResourcesInv
<1>7. ASSUME ReleaseEvm
      PROVE  ResourcesInv'
  <2>1. TableInv'
    BY <1>1, <1>7 DEF ReleaseEvm, code, TableInv
  <2> QED
    BY <1>1, <1>7, <2>1, ReleaseKeepsMemory DEF ResourcesInv
<1>8. ASSUME NEW o \in Words, Log(o, 1)
      PROVE  ResourcesInv'
  BY <1>1, <1>8, LogKeepsMemory, LogKeepsTables DEF ResourcesInv
<1>9. CASE UNCHANGED vars
  BY <1>1, <1>9 DEF vars, ResourcesInv, MemoryInv, TableInv
<1>10. ASSUME FrameSteps
       PROVE  ResourcesInv'
  BY <1>4, <1>5, <1>6, <1>7, <1>10 DEF FrameSteps
<1> QED
  BY <1>2, <1>3, <1>8, <1>9, <1>10 DEF Next

\* Of memory, buffers, jump tables and who has what, in every reachable state
\* (memory.go:58-246; pool.go:27-103; bytecode.go:62-165; handler.go:166-262).
THEOREM ResourcesSound ==
  Spec => []ResourcesInv
<1>1. Init => ResourcesInv
  BY InitResources
<1>2. ResourcesInv /\ [Next]_vars => ResourcesInv'
  BY NextKeepsResources
<1> QED
  BY <1>1, <1>2, PTL DEF Spec

\* A program reads from its memory what it wrote and zeros, whatever other frames and earlier
\* transactions left in the shared buffer (memory.go:58-77, 217-246).
THEOREM MemoryIsPrivate ==
  Spec => []ContextsPrivate
<1>1. ResourcesInv => ContextsPrivate
  <2> SUFFICES ASSUME ResourcesInv, NEW i \in DOMAIN frames
               PROVE  SubSeq(mem.heap[mem.arr], mem.ctxs[i + 1].checkpoint + 1, End(i))
                        = frames[i].own
    BY DEF ContextsPrivate
  <2> DEFINE a == mem.heap[mem.arr]
             lo == From(mem, i)
             own == frames[i].own
  <2>1. Whole(frames, mem, pool, arena)
    BY DEF ResourcesInv, MemoryInv
  <2>2. i \in 1 .. Len(frames) /\ FrameSound(frames, mem, pool, i) /\ frames[i] \in Frame
    BY <2>1, WholeTypes
  <2>3. End(i) = Upto(frames, mem, i)
    BY DEF End, Upto
  <2>4. lo \in Nat /\ Upto(frames, mem, i) \in Nat /\ Upto(frames, mem, i) <= mem.len
    BY <2>1, <2>2, ContextsOrdered
  <2>5. own \in Seq(Cell) /\ Len(own) \in Nat
    BY <2>2, LenIsNat DEF Frame
  <2>6. Upto(frames, mem, i) = lo + Len(own) /\ Mirrors(own, mem, lo)
    BY <2>2, <2>4, <2>5 DEF FrameSound, OwnSound
  <2>7. a \in Seq(Cell) /\ mem.len <= Len(a) /\ Len(a) \in Nat /\ mem.len \in Nat
    BY <2>1, MemoryTypes, Zenon DEF Whole
  <2>8. mem.ctxs[i + 1].checkpoint = lo
    BY DEF From
  <2> HIDE DEF lo, own, a
  <2>9. lo + Len(own) <= Len(a)
    BY <2>4, <2>6, <2>7
  <2> DEFINE part == SubSeq(a, lo + 1, lo + Len(own))
  <2>10. part \in Seq(Cell) /\ Len(part) = Len(own) /\ \A j \in 1 .. Len(own) : part[j] = a[lo + j]
    <3>1. a \in Seq(Cell) /\ lo \in Nat /\ Len(own) \in Nat /\ lo + Len(own) <= Len(a)
      BY <2>4, <2>5, <2>7, <2>9
    <3>2. /\ Part(a, lo, Len(own)) \in Seq(Cell) /\ Len(Part(a, lo, Len(own))) = Len(own)
          /\ \A j \in 1 .. Len(own) : Part(a, lo, Len(own))[j] = a[lo + j]
      BY <3>1, PartAt
    <3> QED
      BY <3>2, Zenon DEF Part
  <2> HIDE DEF part
  <2>11. \A j \in 1 .. Len(own) : part[j] = own[j]
    BY <2>6, <2>10 DEF Mirrors, a
  <2>12. part = own
    BY <2>5, <2>10, <2>11, SeqEqual
  <2> QED
    BY <2>3, <2>6, <2>8, <2>12 DEF part, a, own
<1> QED
  BY <1>1, ResourcesSound, PTL

\* The input of a frame reads the same as long as the frame runs, though the buffer of memory
\* moves (inst_contract.go:301; memory.go:71-75).
THEOREM InputsAreStable ==
  Spec => []InputStable
<1>1. ResourcesInv => InputStable
  <2> SUFFICES ASSUME ResourcesInv, NEW i \in DOMAIN frames
               PROVE  View(mem, frames[i].input.slice) = frames[i].input.is
    BY DEF InputStable
  <2>1. Whole(frames, mem, pool, arena) /\ MemorySound(mem)
    BY DEF ResourcesInv, MemoryInv, Whole
  <2>2. FrameSound(frames, mem, pool, i) /\ frames[i] \in Frame
    BY <2>1, WholeTypes
  <2>3. Stands(frames[i].input, mem) /\ frames[i].input \in Held
    BY <2>2 DEF FrameSound, InputSound, Frame
  <2> QED
    BY <2>1, <2>3, ViewIsContents
<1> QED
  BY <1>1, ResourcesSound, PTL

\* Return data, logs and results keep their contents as long as they may be used
\* (pool.go:27-52; evm.go:196-214, 590-619).
THEOREM HeldDataIsStable ==
  Spec => []HeldStable
<1>1. ResourcesInv => HeldStable
  <2> SUFFICES ASSUME ResourcesInv,
                      NEW h \in {frames[i].ret : i \in DOMAIN frames} \cup {logs[i] : i \in DOMAIN logs}
                                  \cup {result.held[i] : i \in DOMAIN result.held}
               PROVE  View(mem, h.slice) = h.is
    BY DEF HeldStable
  <2>1. /\ Whole(frames, mem, pool, arena) /\ MemorySound(mem)
        /\ LogsSound(logs, mem, pool) /\ ResultSound(result, mem, pool, arena)
    BY DEF ResourcesInv, MemoryInv, Whole
  <2>2. Lasting(h, mem, pool)
    <3>1. \A i \in DOMAIN frames : Lasting(frames[i].ret, mem, pool)
      BY <2>1 DEF Whole, FrameSound
    <3>2. \A i \in DOMAIN logs : Lasting(logs[i], mem, pool)
      BY <2>1 DEF LogsSound
    <3>3. \A i \in DOMAIN result.held : Lasting(result.held[i], mem, pool)
      BY <2>1 DEF ResultSound
    <3> QED
      BY <3>1, <3>2, <3>3
  <2>3. h \in Held /\ Stands(h, mem)
    BY <2>2 DEF Lasting
  <2> QED
    BY <2>1, <2>3, ViewIsContents
<1> QED
  BY <1>1, ResourcesSound, PTL

\* A frame jumps by the table of its code, and a cached table is that of the code of its hash:
\* no bitmap that somebody reads is overwritten (bytecode.go:62-85, 135-165; handler.go:166-224).
THEOREM TablesAreOfCode ==
  Spec => []TableIsOfCode
<1>1. ResourcesInv => TableIsOfCode
  <2> SUFFICES ASSUME ResourcesInv
               PROVE  TableIsOfCode
    OBVIOUS
  <2>1. TablesSound(objects, tables, evmCache, globalCache) /\ Assigned(frames, objects, free)
    BY DEF ResourcesInv, TableInv
  <2>2. ASSUME NEW i \in DOMAIN frames
        PROVE  LET b == objects[frames[i].obj]
               IN  b.code = frames[i].code /\ (b.ready => tables[b.table].of = b.code)
    <3>1. frames[i].obj \in DOMAIN objects /\ objects[frames[i].obj].code = frames[i].code
      BY <2>1 DEF Assigned, ObjectOf
    <3>2. ObjectSound(objects[frames[i].obj], tables)
      BY <2>1, <3>1 DEF TablesSound
    <3> QED
      BY <3>1, <3>2 DEF ObjectSound
  <2>3. ASSUME NEW c \in Code, NEW t \in {evmCache[c], globalCache[c]} \ {0}
        PROVE  tables[t].of = c
    BY <2>1 DEF TablesSound, CacheSound
  <2> QED
    BY <2>2, <2>3 DEF TableIsOfCode
<1> QED
  BY <1>1, ResourcesSound, PTL
=============================================================================
