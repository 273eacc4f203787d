----------------------------- MODULE Resources -----------------------------
(***************************************************************************)
(* What frames borrow and give back: memory contexts, bytecode objects with  *)
(* their jump tables, buffers for output and logs (src/host/handler.go,      *)
(* src/vm/pool.go, src/vm/jumpdest_cache.go).  Every object is recycled with *)
(* what its last user left in it.  The heap of arrays is mem.heap, for       *)
(* memory and for buffers alike.                                            *)
(*                                                                          *)
(* Programs do what they like.  A sync.Pool may hand out any object it holds *)
(* or a new one.  Beside each slice that somebody holds stands what its      *)
(* contents ought to be, and beside each context what its program wrote.     *)
(***************************************************************************)
EXTENDS Memory, Bytecode, FiniteSets

CONSTANTS MaxWords, MaxDepth, MaxFrames, MaxTx, MaxArrays   \* bounds

ASSUME BoundsAssumption == MaxWords \in Nat

VARIABLES
  mem,          \* Evm.rootMemory, its contexts, the heap
  frames,       \* the Go frames of executeCall and executeCreate, from depth 0
  objects,      \* bytecode objects; the first is Evm.rootBytecode
  tables,       \* the heap of jump tables
  free,         \* bytecodePool: objects
  evmCache,     \* Evm.JumpTableCache: a table, or 0
  globalCache,  \* globalJumpDestCache: a table, or 0
  cacheOn,      \* jumpDestCacheOn
  pool,         \* returnBufPool: arrays
  arena,        \* Evm.ReturnAlloc: arrays
  logs,         \* Journal.Logs: the data
  result,       \* what the caller of Transact holds
  count         \* bound: transactions and frames

vars == <<mem, frames, objects, tables, free, evmCache, globalCache, cacheOn, pool, arena,
          logs, result, count>>
memory == <<mem, pool, arena>>
code == <<objects, tables, free, evmCache, globalCache, cacheOn>>

Nil == [arr |-> 1, start |-> 0, len |-> 0]
Held == [slice : Slice, is : Seq(Cell)]
Nothing == [slice |-> Nil, is |-> <<>>]
MemoryRange == [offset : Nat, len : Nat]
\* obj runs code; cached: a table came from a cache; words: gas.memory.WordsNum; out: where
\* the output goes in the caller's memory; ret: ReturnData; own: what the program made of
\* its memory.
Frame == [code : Code, obj : Nat, create : BOOLEAN, cached : BOOLEAN, words : Nat,
          input : Held, out : MemoryRange, ret : Held, own : Seq(Cell)]

Running == frames # <<>>
Top == Last(frames)
SetTop(f) == Append(Front(frames), f)
Below(fs) == Front(fs)

WithZeros(own, n) == IF n > Len(own) THEN own \o Zeros(n - Len(own)) ELSE own
Written(own, offset, data) ==
  [i \in DOMAIN own |-> IF i \in offset + 1 .. offset + Len(data) THEN data[i - offset] ELSE own[i]]

-----------------------------------------------------------------------------
(***************************************************************************)
(* Instructions on memory.  A frame that cannot pay fails (Return(0, 0))     *)
(* before anything is written.                                              *)
(***************************************************************************)
\* ResizeMemory: no expansion if the gas record says that the words are paid.
Expanded(m, f, n) == IF n <= f.words THEN m ELSE Resize(m, n)
Paid(f, n) == [f EXCEPT !.words = IF n > @ THEN n ELSE @, !.own = WithZeros(@, n)]
Fits(m) == Len(m.heap) <= MaxArrays

\* opMload
Load(offset) ==
  /\ Running
  /\ mem' = IF offset + 1 <= LenOf(mem) THEN mem ELSE Expanded(mem, Top, offset + 1)
  /\ frames' = SetTop(Paid(Top, offset + 1))
  /\ Fits(mem')
  /\ UNCHANGED <<code, pool, arena, logs, result, count>>

\* opMstore
Store(offset, v) ==
  /\ Running
  /\ LET m == IF offset + 1 <= LenOf(mem) THEN mem ELSE Expanded(mem, Top, offset + 1)
         f == Paid(Top, offset + 1)
     IN  /\ mem' = Set(m, offset, <<v>>)
         /\ frames' = SetTop([f EXCEPT !.own = Written(@, offset, <<v>>)])
  /\ Fits(mem')
  /\ UNCHANGED <<code, pool, arena, logs, result, count>>

\* opMcopy
MCopy(dst, src, n) ==
  /\ Running
  /\ LET end == n + IF dst > src THEN dst ELSE src
         f   == Paid(Top, end)
     IN  /\ mem' = Copy(Expanded(mem, Top, end), dst, src, n)
         /\ frames' = SetTop([f EXCEPT !.own = Written(@, dst, SubSeq(f.own, src + 1, src + n))])
  /\ Fits(mem')
  /\ UNCHANGED <<code, pool, arena, logs, result, count>>

\* ReturnDataArena.Alloc of a buffer that gets data: from the pool, or new.  What was
\* in the array stays behind the data.
BufCap == InitCap
Allocated(m, data, i) ==
  IF i # 0 /\ Len(m.heap[i]) >= Len(data)
    THEN [m EXCEPT !.heap[i] = data \o SubSeq(@, Len(data) + 1, Len(@))]
    ELSE [m EXCEPT !.heap = Append(@, data \o Zeros(IF Len(data) < BufCap THEN BufCap - Len(data)
                                                      ELSE 0))]
BufferOf(m, data, i) ==
  [arr |-> IF i # 0 /\ Len(m.heap[i]) >= Len(data) THEN i ELSE Len(m.heap) + 1,
   start |-> 0, len |-> Len(data)]

\* LOG; the data live in the arena.
Log(offset, n) ==
  /\ Running /\ n > 0 /\ Len(logs) < MaxFrames
  /\ \E i \in pool \cup {0} :
       LET m    == Expanded(mem, Top, offset + n)
           f    == Paid(Top, offset + n)
           data == Read(m, offset, n)
           s    == BufferOf(m, data, i)
       IN  /\ mem' = Allocated(m, data, i)
           /\ frames' = SetTop(f)
           /\ logs' = Append(logs, [slice |-> s, is |-> SubSeq(f.own, offset + 1, offset + n)])
           /\ pool' = pool \ {i} /\ arena' = arena \cup {s.arr}
  /\ Fits(mem')
  /\ UNCHANGED <<code, result, count>>

-----------------------------------------------------------------------------
(***************************************************************************)
(* Jump tables: the caches, and the object of a frame.                     *)
(***************************************************************************)
\* The table for a code, from the cache of the Evm or of the process.
CachedTable(c) ==
  IF evmCache[c] # 0 THEN evmCache[c] ELSE IF cacheOn THEN globalCache[c] ELSE 0

\* opJump
Jump ==
  /\ Running
  /\ LET b == objects[Top.obj]
     IN  /\ objects' = [objects EXCEPT ![Top.obj] = Ensured(b, tables)]
         /\ tables' = TablesAfter(b, tables)
  /\ UNCHANGED <<memory, frames, free, evmCache, globalCache, cacheOn, logs, result, count>>

\* Eviction, PurgeGlobalJumpDestCache, SetGlobalJumpDestCacheEnabled, at any time: the cache is
\* shared by the process.
Evict(c) ==
  /\ globalCache[c] # 0
  /\ globalCache' = [globalCache EXCEPT ![c] = 0]
  /\ UNCHANGED <<memory, frames, objects, tables, free, evmCache, cacheOn, logs, result, count>>
SetCacheEnabled ==
  /\ cacheOn' = ~cacheOn
  /\ UNCHANGED <<memory, frames, objects, tables, free, evmCache, globalCache, logs, result, count>>

\* The object o (a new one if it is beyond the last) is prepared for a call of c, with
\* the cached table if there is one, or for the init code c.
Prepare(o, c, create) ==
  LET old    == IF o <= Len(objects) THEN objects[o] ELSE NewBytecode
      called == ResetWithHash(old, c)
      b      == IF create THEN Reset(old, c)
                  ELSE IF CachedTable(c) # 0 THEN SetJumpTable(called, CachedTable(c)) ELSE called
  IN  /\ objects' = IF o <= Len(objects) THEN [objects EXCEPT ![o] = b] ELSE Append(objects, b)
      /\ free' = free \ {o}
      /\ evmCache' = IF create THEN evmCache ELSE [evmCache EXCEPT ![c] = CachedTable(c)]
      /\ UNCHANGED <<tables, globalCache, cacheOn>>

\* Depth 0 calls run on the object of the Evm, all others on a pooled one.
Objects(depth, create) ==
  IF depth = 0 /\ ~create THEN {1} ELSE free \cup {Len(objects) + 1}

NewFrame(c, o, create, input, out) ==
  [code |-> c, obj |-> o, create |-> create, cached |-> ~create /\ CachedTable(c) # 0, words |-> 0,
   input |-> input, out |-> out, ret |-> Nothing, own |-> <<>>]

-----------------------------------------------------------------------------
(***************************************************************************)
(* Frames.                                                                 *)
(***************************************************************************)
\* transact: InitEmbeddedMemory, then the frame at depth 0.  What a caller of
\* TransactInPlace borrowed from the transaction before is lost.
Transact(c, create) ==
  /\ ~Running /\ count.txs < MaxTx
  /\ \E o \in Objects(0, create) :
       /\ Prepare(o, c, create)
       /\ frames' = <<NewFrame(c, o, create, Nothing, [offset |-> 0, len |-> 0])>>
  /\ mem' = NewChildContext(ResetMemory(mem))
  /\ logs' = <<>> /\ result' = IF result.borrowed THEN [result EXCEPT !.held = <<>>] ELSE result
  /\ count' = [txs |-> count.txs + 1, frames |-> count.frames + 1]
  /\ UNCHANGED <<pool, arena>>

\* CALL and its kin: memory grows for input and output, the input is a slice of it.
Call(c, create, in, out) ==
  /\ Running /\ Len(frames) < MaxDepth /\ count.frames < MaxFrames
  /\ LET end(r) == IF r.len = 0 THEN 0 ELSE r.offset + r.len
         f1 == Paid(Top, end(in))
         f2 == Paid(f1, end(out))
         m  == Expanded(Expanded(mem, Top, end(in)), f1, end(out))
         input == IF in.len = 0 THEN Nothing
                    ELSE [slice |-> SliceOf(m, in.offset, in.len),
                          is |-> SubSeq(f2.own, in.offset + 1, end(in))]
     IN  /\ \E o \in Objects(Len(frames), create) :
              /\ Prepare(o, c, create)
              /\ frames' = Append(SetTop(f2), NewFrame(c, o, create, input, out))
         /\ mem' = NewChildContext(m)
  /\ Fits(mem')
  /\ count' = [count EXCEPT !.frames = @ + 1]
  /\ UNCHANGED <<pool, arena, logs, result>>

\* The table of a called contract goes to the caches; the object goes back to the pool.
Collected(f) ==
  LET b       == objects[f.obj]
      stores  == ~f.create /\ ~f.cached
      handed  == GetJumpTable(b, tables)
  IN  /\ objects' = IF stores THEN [objects EXCEPT ![f.obj] = handed] ELSE objects
      /\ tables' = IF stores THEN TablesAfter(b, tables) ELSE tables
      /\ evmCache' = IF stores THEN [evmCache EXCEPT ![f.code] = handed.table] ELSE evmCache
      /\ globalCache' = IF stores /\ cacheOn THEN [globalCache EXCEPT ![f.code] = handed.table]
                          ELSE globalCache
      /\ free' = IF f.obj = 1 THEN free ELSE free \cup {f.obj}
      /\ UNCHANGED cacheOn

\* Mutant: what the caller of Transact gets is borrowed.
HandedBorrowed(m, held, copied) == [mem |-> m, held |-> held]

\* Transact copies output and log data to arrays nobody else has.
Handed(m, held, copied) ==
  IF ~copied THEN [mem |-> m, held |-> held]
    ELSE [mem  |-> [m EXCEPT !.heap = @ \o [i \in DOMAIN held |-> View(m, held[i].slice)]],
          held |-> [i \in DOMAIN held |->
                      [slice |-> [arr |-> Len(m.heap) + i, start |-> 0, len |-> held[i].slice.len],
                       is |-> held[i].is]]]

\* handleCallReturn, handleCreateReturn: output to the parent, as much of it as fits to its
\* memory.  Of a creation only the output of a revert is kept.
Kept(f, output) == IF f.create THEN {Nothing, output} ELSE {output}
Delivered(f, parent, m, output, kept) ==
  LET n == IF f.create THEN 0
             ELSE IF f.out.len < output.slice.len THEN f.out.len ELSE output.slice.len
  IN  [frame |-> [parent EXCEPT !.ret = kept,
                    !.own = Written(@, f.out.offset, SubSeq(output.is, 1, n))],
       mem   |-> IF n = 0 THEN m
                   ELSE Set(m, f.out.offset, SubSeq(View(m, output.slice), 1, n))]

\* The frame is over with an output: everything it borrowed goes back.
Leave(m, output) ==
  LET f == Top
      released == ReleaseChildContext(m)
  IN  /\ Collected(f)
      /\ IF Len(frames) = 1
           THEN \E copied \in BOOLEAN :
                  LET handed == Handed(released, Append(logs, output), copied)
                  IN  /\ mem' = handed.mem /\ frames' = <<>>
                      /\ result' = [held |-> handed.held, borrowed |-> ~copied]
           ELSE \E kept \in Kept(f, output) :
                  LET d == Delivered(f, Last(Below(frames)), released, output, kept)
                  IN  /\ mem' = d.mem /\ frames' = Append(Below(Below(frames)), d.frame)
                      /\ UNCHANGED result
      /\ Fits(mem')
      /\ UNCHANGED <<logs, count>>

\* RETURN and REVERT copy their output to a buffer of the arena.
Return(offset, n) ==
  /\ Running
  /\ IF n = 0 THEN Leave(mem, Nothing) /\ UNCHANGED <<pool, arena>>
       ELSE \E i \in pool \cup {0} :
              LET m    == Expanded(mem, Top, offset + n)
                  own  == Paid(Top, offset + n).own
                  data == Read(m, offset, n)
                  s    == BufferOf(m, data, i)
              IN  /\ Leave(Allocated(m, data, i),
                           [slice |-> s, is |-> SubSeq(own, offset + 1, offset + n)])
                  /\ pool' = pool \ {i} /\ arena' = arena \cup {s.arr}

\* ReleaseEvm and NewEvm: the buffers go to the pool, the cache of tables stays.
ReleaseEvm ==
  /\ ~Running
  /\ pool' = pool \cup arena /\ arena' = {}
  /\ logs' = <<>> /\ result' = IF result.borrowed THEN [result EXCEPT !.held = <<>>] ELSE result
  /\ UNCHANGED <<mem, frames, code, count>>

Init ==
  /\ mem = NewMemory /\ frames = <<>>
  /\ objects = <<NewBytecode>> /\ tables = <<>> /\ free = {}
  /\ evmCache = [c \in Code |-> 0] /\ globalCache = [c \in Code |-> 0] /\ cacheOn = TRUE
  /\ pool = {} /\ arena = {} /\ logs = <<>>
  /\ result = [held |-> <<>>, borrowed |-> FALSE]
  /\ count = [txs |-> 0, frames |-> 0]

Ranges == [offset : 0 .. MaxWords - 1, len : 0 .. 1]
Words == 0 .. MaxWords - 1

MemorySteps ==
  \/ \E o \in Words : Load(o)
  \/ \E o \in Words, v \in Cell : Store(o, v)
  \/ \E d, s \in Words : MCopy(d, s, 1)
CodeSteps == Jump \/ SetCacheEnabled \/ \E c \in Code : Evict(c)
FrameSteps ==
  \/ \E c \in Code, create \in BOOLEAN : Transact(c, create)
  \/ \E c \in Code, create \in BOOLEAN, in, out \in Ranges : Call(c, create, in, out)
  \/ \E o \in Words, n \in 0 .. 1 : Return(o, n)
  \/ ReleaseEvm
Next == MemorySteps \/ CodeSteps \/ FrameSteps \/ \E o \in Words : Log(o, 1)

Spec == Init /\ [][Next]_vars

-----------------------------------------------------------------------------
(***************************************************************************)
(* What must hold.                                                         *)
(***************************************************************************)
\* What a program reads from its memory is what it wrote, and zeros elsewhere: no byte of a
\* sub-frame, of the caller or of an earlier transaction, whatever became of the buffer
\* (memory.go:58-77, 217-246).
End(i) == IF i = Len(frames) THEN mem.len ELSE mem.ctxs[i + 2].checkpoint
ContextsPrivate ==
  \A i \in DOMAIN frames :
    SubSeq(mem.heap[mem.arr], mem.ctxs[i + 1].checkpoint + 1, End(i)) = frames[i].own

\* The input of a frame is a slice of its caller's memory; it reads the same as long as
\* the frame runs, though the buffer may move (inst_contract.go:301; memory.go:71-75).
InputStable == \A i \in DOMAIN frames : View(mem, frames[i].input.slice) = frames[i].input.is

\* The table that decides where a frame may jump was computed from the code it runs, and a
\* cached one from the code of its hash: a shared bitmap is never overwritten
\* (bytecode.go:62-85, 135-165; handler.go:166-224).
TableIsOfCode ==
  /\ \A i \in DOMAIN frames :
       LET b == objects[frames[i].obj]
       IN  b.code = frames[i].code /\ (b.ready => tables[b.table].of = b.code)
  /\ \A c \in Code : \A t \in {evmCache[c], globalCache[c]} \ {0} : tables[t].of = c

\* Return data, log data and results keep their contents for as long as they may be used: to
\* the end of the frame or the transaction, and for good if Transact copied them
\* (pool.go:27-52; evm.go:196-214, 590-619).
HeldStable ==
  \A h \in {frames[i].ret : i \in DOMAIN frames} \cup {logs[i] : i \in DOMAIN logs}
           \cup {result.held[i] : i \in DOMAIN result.held} :
    View(mem, h.slice) = h.is
=============================================================================
