------------------------------ MODULE Bytecode ------------------------------
(***************************************************************************)
(* vm.Bytecode (src/vm/bytecode.go): a recycled object with the code that    *)
(* runs and its jump table, a slice that may be shared with the caches.      *)
(* tables is the heap of bitmaps: the code a bitmap was computed from and    *)
(* its capacity.  The hash of a code is the code.                           *)
(***************************************************************************)
EXTENDS Integers, Sequences

CONSTANTS Code, TableLen,   \* TableLen[c]: bytes of the jump table of c
          NoHash            \* nil

ASSUME BytecodeAssumption == TableLen \in [Code -> Nat] /\ NoHash \notin Code

Table == [of : Code \cup {NoHash}, cap : Nat]
BytecodeObject == [code : Code \cup {NoHash}, hash : Code \cup {NoHash}, table : Nat,
                   ready : BOOLEAN, external : BOOLEAN]

NewBytecode == [code |-> NoHash, hash |-> NoHash, table |-> 0, ready |-> FALSE, external |-> FALSE]

\* The analysis is left to the first jump.
Reset(b, c) == [b EXCEPT !.code = c, !.hash = NoHash, !.ready = FALSE]

\* The table stays if the object last ran the same code.
ResetWithHash(b, c) == IF b.hash = c THEN [b EXCEPT !.code = c] ELSE [Reset(b, c) EXCEPT !.hash = c]

SetJumpTable(b, t) == [b EXCEPT !.table = t, !.ready = TRUE, !.external = TRUE]

\* ensureJumpTable: the object's own table is overwritten if it is large enough.
Reuses(b, tables) == ~b.external /\ b.table # 0 /\ tables[b.table].cap >= TableLen[b.code]
Ensured(b, tables) ==
  IF b.ready THEN b
    ELSE IF Reuses(b, tables) THEN [b EXCEPT !.ready = TRUE]
    ELSE [b EXCEPT !.ready = TRUE, !.table = Len(tables) + 1, !.external = FALSE]
TablesAfter(b, tables) ==
  IF b.ready THEN tables
    ELSE IF Reuses(b, tables) THEN [tables EXCEPT ![b.table].of = b.code]
    ELSE Append(tables, [of |-> b.code, cap |-> TableLen[b.code]])

\* Mutant: the table that is handed out is not marked.
GetJumpTableUnmarked(b, tables) == Ensured(b, tables)

\* GetJumpTable: a table that is handed out is never overwritten.
GetJumpTable(b, tables) == [Ensured(b, tables) EXCEPT !.external = TRUE]
=============================================================================
