------------------------------- MODULE Memory -------------------------------
(***************************************************************************)
(* vm.Memory (src/vm/memory.go): the contexts of all open frames share one  *)
(* buffer.  Go's slices are made explicit: a buffer is the first len cells  *)
(* of an array of the heap, and an array keeps what was written to it when  *)
(* the buffer gets shorter.  A cell stands for a 32-byte word, zero until    *)
(* it is written.                                                           *)
(***************************************************************************)
EXTENDS Integers, Sequences, SequencesExt

CONSTANTS Cell,     \* 0 and what a program writes
          InitCap   \* capacity of a new buffer: 4096 bytes in the code

ASSUME MemoryAssumption == 0 \in Cell /\ InitCap \in Nat

Context == [checkpoint : Nat, child : Nat, hasChild : BOOLEAN]
\* The arrays, the buffer, the contexts from the root to the running frame.
MemoryState == [heap : Seq(Seq(Cell)), arr : Nat, len : Nat, ctxs : Seq(Context)]
\* A slice: part of an array, whatever becomes of the buffer.
Slice == [arr : Nat, start : Nat, len : Nat]

Zeros(n) == [i \in 1 .. n |-> 0]
NewContext(checkpoint) == [checkpoint |-> checkpoint, child |-> 0, hasChild |-> FALSE]
NewMemory == [heap |-> <<Zeros(InitCap)>>, arr |-> 1, len |-> 0, ctxs |-> <<NewContext(0)>>]

\* The capacity and the dirty array stay.
ResetMemory(m) == [m EXCEPT !.len = 0, !.ctxs = <<NewContext(0)>>]

Checkpoint(m) == Last(m.ctxs).checkpoint
LenOf(m) == m.len - Checkpoint(m)
View(m, s) == SubSeq(m.heap[s.arr], s.start + 1, s.start + s.len)

\* Mutant: the part of the array that the buffer grows into is not cleared.
ResizeDirty(m, size) ==
  LET target == Checkpoint(m) + size
      old    == m.heap[m.arr]
  IN  IF target <= m.len THEN m
        ELSE IF target <= Len(old) THEN [m EXCEPT !.len = target]
        ELSE [m EXCEPT !.len = target, !.arr = Len(m.heap) + 1,
                       !.heap = Append(@, SubSeq(old, 1, m.len) \o Zeros(2 * target - m.len))]

\* A buffer that does not fit moves to a new array, twice as large as needed.
Resize(m, size) ==
  LET target == Checkpoint(m) + size
      old    == m.heap[m.arr]
  IN  IF target <= m.len THEN m
        ELSE IF target <= Len(old)
          THEN [m EXCEPT !.len = target,
                         !.heap[m.arr] = [i \in DOMAIN old |->
                                            IF i \in m.len + 1 .. target THEN 0 ELSE old[i]]]
        ELSE [m EXCEPT !.len = target, !.arr = Len(m.heap) + 1,
                       !.heap = Append(@, SubSeq(old, 1, m.len) \o Zeros(2 * target - m.len))]

\* A slice outside of the buffer reads zeros: a new array.
SliceOf(m, offset, size) ==
  [arr |-> m.arr, start |-> Checkpoint(m) + offset, len |-> size]
Read(m, offset, size) ==
  IF Checkpoint(m) + offset + size > m.len THEN Zeros(size)
    ELSE View(m, SliceOf(m, offset, size))

\* Set; a range outside of the buffer is not written.
Set(m, offset, data) ==
  LET start == Checkpoint(m) + offset
  IN  IF start + Len(data) > m.len THEN m
        ELSE [m EXCEPT !.heap[m.arr] =
                [i \in DOMAIN @ |-> IF i \in start + 1 .. start + Len(data)
                                      THEN data[i - start] ELSE @[i]]]

Copy(m, dst, src, size) ==
  IF dst + size > LenOf(m) \/ src + size > LenOf(m) THEN m ELSE Set(m, dst, Read(m, src, size))

\* Mutant: the context of a sub-frame starts where its parent's does.
NewChildContextShared(m) ==
  LET parent == [Last(m.ctxs) EXCEPT !.hasChild = TRUE, !.child = m.len]
  IN  [m EXCEPT !.ctxs = Append(Append(Front(@), parent), NewContext(parent.checkpoint))]

\* The context of a sub-frame starts where the buffer ends.
NewChildContext(m) ==
  LET parent == [Last(m.ctxs) EXCEPT !.hasChild = TRUE, !.child = m.len]
  IN  [m EXCEPT !.ctxs = Append(Append(Front(@), parent), NewContext(m.len))]

\* FreeChildContext, and the child's record goes back to its pool.
ReleaseChildContext(m) ==
  LET parent == m.ctxs[Len(m.ctxs) - 1]
  IN  [m EXCEPT !.ctxs = Append(Front(Front(@)), [parent EXCEPT !.hasChild = FALSE]),
                !.len = IF parent.hasChild THEN parent.child ELSE @]
=============================================================================
