--------------------------- MODULE JournalProofs ---------------------------
(***************************************************************************)
(* Proofs about the journal, for every value of the constants: the types,  *)
(* and the nesting of the checkpoints of the open frames.  Each method of  *)
(* the journal is shown to yield a journal of the right type with at least *)
(* the entries it was given; a revert cuts them to the checkpoint's.       *)
(*                                                                         *)
(* The second part is about the undo log: what a revert to a checkpoint    *)
(* restores, on which the proofs about the methods' entries rest.  The     *)
(* third is the safety of the journal: its invariants, step by step.       *)
(***************************************************************************)
EXTENDS JournalRefinement, WellFoundedInduction, TLAPS

(***************************************************************************)
(* Journals of the right type with the same entries as j, or no fewer.     *)
(***************************************************************************)
Same(j) == {k \in JournalRec : k.entries = j.entries}
Grown(j) == {k \in JournalRec : Len(j.entries) <= Len(k.entries)}

\* A set of naturals with 0 that is closed under successor has them all.
LEMMA SetInduction ==
  ASSUME NEW S \in SUBSET Nat, 0 \in S, \A n \in S : n + 1 \in S
  PROVE  S = Nat
<1> DEFINE T == Nat \ S
<1>1. SUFFICES ASSUME T # {} PROVE FALSE
  BY Zenon
<1>2. PICK x \in T : \A y \in T : ~(<<y, x>> \in OpToRel(<, Nat))
  <2>1. T \subseteq Nat
    OBVIOUS
  <2> HIDE DEF T
  <2> QED BY <1>1, <2>1, NatLessThanWellFounded, WFMin, Zenon
<1>3. \A y \in T : ~(y < x)
  BY <1>2, Zenon DEF OpToRel
<1>4. x \in Nat /\ x \notin S
  OBVIOUS
<1>5. x # 0 /\ x - 1 \in Nat
  <2> HIDE DEF T
  <2> QED BY <1>4
<1>6. x - 1 \in S
  BY <1>3, <1>5
<1>7. (x - 1) + 1 \in S
  BY <1>6
<1> HIDE DEF T
<1> QED BY <1>7, <1>4

-----------------------------------------------------------------------------
(***************************************************************************)
(* The primitive updates.                                                  *)
(***************************************************************************)

\* uint256 addition and subtraction stay in the range.
LEMMA WrapType ==
  ASSUME NEW x \in Balance, NEW y \in Balance
  PROVE  Plus(x, y) \in Balance /\ Minus(x, y) \in Balance
BY ConstantsOK DEF Balance, Plus, Minus

\* Replacing one account keeps the type and the entries.
LEMMA AcctUpdate ==
  ASSUME NEW j \in JournalRec, NEW a \in Addr, NEW x \in Account
  PROVE  [j EXCEPT !.acct[a] = x] \in Same(j)
BY Zenon DEF Same, JournalRec

\* The flags, the balance, the nonce and the code of an account.
LEMMA FieldUpdates ==
  ASSUME NEW j \in JournalRec, NEW a \in Addr
  PROVE  /\ \A F \in SUBSET Flag : Mark(j, a, F) \in Same(j) /\ Unmark(j, a, F) \in Same(j)
         /\ \A v \in Balance : /\ SetBalance(j, a, v) \in Same(j)
                               /\ Credit(j, a, v) \in Same(j)
                               /\ Debit(j, a, v) \in Same(j)
         /\ \A n \in Nonce : SetNonce(j, a, n) \in Same(j)
         /\ \A c \in Code : SetCode(j, a, c) \in Same(j)
<1>0. j.acct[a] \in Account
  BY DEF JournalRec
<1>1. ASSUME NEW F \in SUBSET Flag
      PROVE  Mark(j, a, F) \in Same(j) /\ Unmark(j, a, F) \in Same(j)
  <2>1. [j.acct[a] EXCEPT !.status = @ \cup F] \in Account
    BY <1>0 DEF Account
  <2>2. [j.acct[a] EXCEPT !.status = @ \ F] \in Account
    BY <1>0 DEF Account
  <2> QED BY <2>1, <2>2, AcctUpdate, Zenon DEF Mark, Unmark
<1>2. ASSUME NEW v \in Balance
      PROVE  /\ SetBalance(j, a, v) \in Same(j)
             /\ Credit(j, a, v) \in Same(j)
             /\ Debit(j, a, v) \in Same(j)
  <2>1. \A w \in Balance : [j.acct[a] EXCEPT !.bal = w] \in Account
    BY <1>0 DEF Account
  <2>2. j.acct[a].bal \in Balance
    BY <1>0 DEF Account
  <2>3. \A w \in Balance : [j EXCEPT !.acct[a].bal = w] \in Same(j)
    BY <2>1, AcctUpdate, Zenon
  <2> QED BY <2>2, <2>3, WrapType DEF SetBalance, Credit, Debit
<1>3. ASSUME NEW n \in Nonce PROVE SetNonce(j, a, n) \in Same(j)
  <2>1. [j.acct[a] EXCEPT !.nonce = n] \in Account
    BY <1>0 DEF Account
  <2> QED BY <2>1, AcctUpdate DEF SetNonce
<1>4. ASSUME NEW c \in Code PROVE SetCode(j, a, c) \in Same(j)
  <2>1. [j.acct[a] EXCEPT !.code = c] \in Account
    BY <1>0 DEF Account
  <2> QED BY <2>1, AcctUpdate DEF SetCode
<1> QED BY <1>1, <1>2, <1>3, <1>4

\* Replacing one slot or one transient value keeps the type and the entries.
LEMMA SlotUpdate ==
  ASSUME NEW j \in JournalRec, NEW a \in Addr, NEW k \in Key
  PROVE  /\ \A s \in Slot : [j EXCEPT !.slot[a][k] = s] \in Same(j)
         /\ \A v \in Value : [j EXCEPT !.transient[a][k] = v] \in Same(j)
<1>1. ASSUME NEW s \in Slot PROVE [j EXCEPT !.slot[a][k] = s] \in Same(j)
  <2>1. [j.slot[a] EXCEPT ![k] = s] \in [Key -> Slot]
    BY DEF JournalRec
  <2>2. \A t \in [Key -> Slot] : [j EXCEPT !.slot[a] = t] \in Same(j)
    BY Zenon DEF Same, JournalRec
  <2> QED BY <2>1, <2>2, Zenon
<1>2. ASSUME NEW v \in Value PROVE [j EXCEPT !.transient[a][k] = v] \in Same(j)
  <2>1. [j.transient[a] EXCEPT ![k] = v] \in [Key -> Value]
    BY DEF JournalRec
  <2>2. \A t \in [Key -> Value] : [j EXCEPT !.transient[a] = t] \in Same(j)
    BY Zenon DEF Same, JournalRec
  <2> QED BY <2>1, <2>2, Zenon
<1> QED BY <1>1, <1>2

\* The fields of a slot that are written one by one.
LEMMA SlotFields ==
  ASSUME NEW j \in JournalRec, NEW a \in Addr, NEW k \in Key
  PROVE  /\ [j EXCEPT !.slot[a][k].cold = TRUE] \in Same(j)
         /\ \A v \in Value : [j EXCEPT !.slot[a][k].present = v] \in Same(j)
<1>1. j.slot[a][k] \in Slot
  BY DEF JournalRec
<1>2. [j.slot[a][k] EXCEPT !.cold = TRUE] \in Slot
  BY <1>1, Zenon DEF Slot
<1>3. \A v \in Value : [j.slot[a][k] EXCEPT !.present = v] \in Slot
  BY <1>1 DEF Slot
<1>4. \A s \in Slot : [j EXCEPT !.slot[a][k] = s] \in Same(j)
  BY SlotUpdate
<1> QED BY <1>2, <1>3, <1>4, Zenon

\* Deleting an account.
LEMMA WipeType ==
  ASSUME NEW j \in JournalRec, NEW a \in Addr
  PROVE  Wipe(j, a) \in Same(j)
<1>1. NoStorage \in [Key -> Slot]
  BY ConstantsOK DEF NoStorage, NoSlot, Slot
<1>2. j.acct[a] \in Account
  BY DEF JournalRec
<1>3. 0 \in Balance /\ 0 \in Nonce /\ NoCode \in Code /\ "StorageCleared" \in Flag
  BY ConstantsOK DEF Balance, Nonce, Flag
<1>4. Emptied(j.acct[a]) \in Account
  BY <1>2, <1>3, Zenon DEF Account, Emptied
<1> QED BY <1>1, <1>4, Zenon DEF Wipe, Same, JournalRec

\* Appending an entry.
LEMMA RecordType ==
  ASSUME NEW j \in JournalRec, NEW e \in Entry
  PROVE  Record(j, e) \in Grown(j)
<1>1. Append(j.entries, e) \in Seq(Entry) /\ Len(Append(j.entries, e)) = Len(j.entries) + 1
  BY DEF JournalRec
<1>2. Len(j.entries) \in Nat
  BY DEF JournalRec
<1>3. \A es \in Seq(Entry) : [j EXCEPT !.entries = es] \in JournalRec
  BY Zenon DEF JournalRec
<1>4. Record(j, e).entries = Append(j.entries, e)
  BY DEF Record, JournalRec
<1>5. Record(j, e) \in JournalRec
  BY <1>1, <1>3, Zenon DEF Record
<1> QED BY <1>1, <1>2, <1>4, <1>5 DEF Grown

\* What is the same, or has grown from what has grown, has grown.
LEMMA GrownTrans ==
  ASSUME NEW j \in JournalRec
  PROVE  /\ j \in Grown(j) /\ j \in Same(j)
         /\ \A k \in Same(j) : k \in Grown(j) /\ k \in JournalRec
         /\ \A k \in Grown(j) : /\ k \in JournalRec
                                /\ \A m \in Grown(k) : m \in Grown(j)
                                /\ \A m \in Same(k) : m \in Grown(j)
<1>1. \A k \in JournalRec : Len(k.entries) \in Nat
  BY DEF JournalRec
<1> QED BY <1>1 DEF Same, Grown

\* Each kind of entry carries the fields its Revert reads.
LEMMA EntryFields ==
  ASSUME NEW e \in Entry
  PROVE  /\ e.addr \in Addr
         /\ e.kind = "AccountDestroyed" =>
              e.target \in Addr /\ e.bal \in Balance /\ e.status \in RevertStatus
         /\ e.kind = "BalanceTransfer" => e.target \in Addr /\ e.bal \in Balance
         /\ e.kind = "BalanceChange" => e.bal \in Balance
         /\ e.kind = "NonceChange" => e.nonce \in Nonce
         /\ e.kind = "StorageWarmed" => e.key \in Key
         /\ e.kind \in {"StorageChanged", "TransientChange"} =>
              e.key \in Key /\ e.had \in Value
         /\ e.kind = "CodeChange" => e.code \in Code
         /\ e.kind \in {"AccountWarmed", "AccountTouched", "AccountDestroyed",
                        "BalanceChange", "BalanceTransfer", "NonceChange",
                        "AccountCreated", "StorageWarmed", "StorageChanged",
                        "TransientChange", "CodeChange", "SelfdestructCleared"}
BY DEF Entry

\* JournalEntry.Revert yields a journal of the right type.
LEMMA UndoType ==
  ASSUME NEW j \in JournalRec, NEW e \in Entry
  PROVE  Undo(j, e) \in Same(j)
<1>0. \A k \in Same(j) : k \in JournalRec /\ Same(k) = Same(j)
  BY DEF Same
<1>1. CASE e.kind = "AccountWarmed"
  <2>1. {"Cold"} \in SUBSET Flag
    BY DEF Flag
  <2> QED BY <1>1, <2>1, EntryFields, FieldUpdates DEF Undo
<1>2. CASE e.kind = "AccountTouched"
  <2>1. {"Touched"} \in SUBSET Flag
    BY DEF Flag
  <2> QED BY <1>2, <2>1, EntryFields, FieldUpdates, GrownTrans DEF Undo, UndoTouch
<1>3. CASE e.kind = "AccountDestroyed"
  <2> DEFINE F == CASE e.status = "Global"   -> {"SelfDestructed", "SelfDestructLocal"}
                    [] e.status = "Local"    -> {"SelfDestructLocal"}
                    [] e.status = "Repeated" -> {}
             k == Unmark(j, e.addr, F)
             m == Credit(k, e.addr, e.bal)
  <2>1. F \in SUBSET Flag
    BY <1>3, EntryFields DEF Flag, RevertStatus
  <2>2. k \in Same(j)
    <3> HIDE DEF F
    <3> QED BY <1>3, <2>1, EntryFields, FieldUpdates
  <2>3. m \in Same(j)
    <3> HIDE DEF k
    <3> QED BY <1>0, <1>3, <2>2, EntryFields, FieldUpdates
  <2>4. Debit(m, e.target, e.bal) \in Same(j)
    <3> HIDE DEF m
    <3> QED BY <1>0, <1>3, <2>3, EntryFields, FieldUpdates
  <2>5. Undo(j, e) = IF e.addr # e.target THEN Debit(m, e.target, e.bal) ELSE m
    BY <1>3, Zenon DEF Undo, UndoDestroyed
  <2> HIDE DEF m
  <2> QED BY <2>3, <2>4, <2>5
<1>4. CASE e.kind = "BalanceChange"
  BY <1>4, EntryFields, FieldUpdates DEF Undo
<1>5. CASE e.kind = "BalanceTransfer"
  <2> DEFINE k == Credit(j, e.addr, e.bal)
  <2>1. k \in Same(j)
    BY <1>5, EntryFields, FieldUpdates
  <2>2. Undo(j, e) = Debit(k, e.target, e.bal)
    BY <1>5 DEF Undo
  <2> HIDE DEF k
  <2> QED BY <1>0, <1>5, <2>1, <2>2, EntryFields, FieldUpdates
<1>6. CASE e.kind = "NonceChange"
  BY <1>6, EntryFields, FieldUpdates DEF Undo
<1>7. CASE e.kind = "AccountCreated"
  <2> DEFINE F == {"CreatedLocal"} \cup (IF e.global THEN {"Created"} ELSE {})
             k == Unmark(j, e.addr, F)
  <2>1. F \in SUBSET Flag
    BY DEF Flag
  <2>2. k \in Same(j)
    <3> HIDE DEF F
    <3> QED BY <2>1, EntryFields, FieldUpdates
  <2>3. Undo(j, e) = SetNonce(k, e.addr, 0)
    BY <1>7 DEF Undo, UndoCreated
  <2>4. 0 \in Nonce
    BY ConstantsOK DEF Nonce
  <2> HIDE DEF k
  <2> QED BY <1>0, <2>2, <2>3, <2>4, EntryFields, FieldUpdates
<1>8. CASE e.kind = "StorageWarmed"
  BY <1>8, EntryFields, SlotFields, Zenon DEF Undo
<1>9. CASE e.kind = "StorageChanged"
  BY <1>9, EntryFields, SlotFields, Zenon DEF Undo
<1>10. CASE e.kind = "TransientChange"
  BY <1>10, EntryFields, SlotUpdate DEF Undo
<1>11. CASE e.kind = "CodeChange"
  BY <1>11, EntryFields, FieldUpdates DEF Undo
<1>12. CASE e.kind = "SelfdestructCleared"
  <2>1. {"SelfDestructed"} \in SUBSET Flag
    BY DEF Flag
  <2> QED BY <1>12, <2>1, EntryFields, FieldUpdates DEF Undo
<1> QED
  BY <1>1, <1>2, <1>3, <1>4, <1>5, <1>6, <1>7, <1>8, <1>9, <1>10, <1>11, <1>12,
     EntryFields

-----------------------------------------------------------------------------
(***************************************************************************)
(* Reverting entries.  Unwound(j) is a recursive function; it exists by    *)
(* induction on the number of entries undone.                              *)
(***************************************************************************)

\* What Unwound computes: each step undoes the entry before the last undone.
LEMMA UnwoundDef ==
  ASSUME NEW j \in JournalRec
  PROVE  \A i \in 0 .. Len(j.entries) :
           Unwound(j)[i] = IF i = 0 THEN j
                             ELSE Undo(Unwound(j)[i-1], j.entries[Len(j.entries) - i + 1])
<1> DEFINE n == Len(j.entries)
           Step(g, i) == Undo(g[i-1], j.entries[n - i + 1])
           Ok(m, g) == /\ DOMAIN g = 0 .. m
                       /\ g = [i \in 0 .. m |-> g[i]]
                       /\ \A i \in 0 .. m : g[i] = IF i = 0 THEN j ELSE Step(g, i)
           S == {m \in Nat : \E g : Ok(m, g)}
<1>1. n \in Nat
  BY DEF JournalRec
<1>2. 0 \in S
  <2>1. Ok(0, [i \in 0 .. 0 |-> j])
    OBVIOUS
  <2> QED BY <2>1, Zenon
<1>3. ASSUME NEW m \in S PROVE m + 1 \in S
  <2>1. m \in Nat
    OBVIOUS
  <2>2. PICK g : Ok(m, g)
    BY <1>3
  <2> DEFINE h == [i \in 0 .. (m + 1) |-> IF i = m + 1 THEN Step(g, m + 1) ELSE g[i]]
  <2>3. DOMAIN h = 0 .. (m + 1) /\ h = [i \in 0 .. (m + 1) |-> h[i]]
    OBVIOUS
  <2>4. \A i \in 0 .. m : h[i] = g[i] /\ i \in 0 .. (m + 1)
    BY <2>1
  <2>5. h[m + 1] = Step(g, m + 1)
    BY <2>1
  <2> HIDE DEF h
  <2>6. ASSUME NEW i \in 0 .. (m + 1) PROVE h[i] = IF i = 0 THEN j ELSE Step(h, i)
    <3>1. CASE i = 0
      <4>1. h[0] = g[0] /\ 0 \in 0 .. m
        BY <2>1, <2>4
      <4> QED BY <4>1, <3>1, <2>2
    <3>2. CASE i \in 1 .. m
      <4>1. i \in 0 .. m /\ i - 1 \in 0 .. m /\ i # 0
        BY <2>1, <3>2
      <4>2. h[i] = g[i] /\ h[i-1] = g[i-1]
        BY <4>1, <2>4
      <4>3. g[i] = Step(g, i)
        BY <4>1, <2>2, Zenon
      <4> QED BY <4>1, <4>2, <4>3
    <3>3. CASE i = m + 1
      <4>1. (m + 1) - 1 = m /\ m \in 0 .. m /\ m + 1 # 0
        BY <2>1
      <4>2. h[m] = g[m]
        BY <4>1, <2>4
      <4> QED BY <4>1, <4>2, <2>5, <3>3
    <3>4. i = 0 \/ i \in 1 .. m \/ i = m + 1
      BY <2>1
    <3> QED BY <3>1, <3>2, <3>3, <3>4
  <2>7. Ok(m + 1, h)
    BY <2>3, <2>6
  <2>8. m + 1 \in Nat
    BY <2>1
  <2> QED BY <2>7, <2>8, Zenon
<1>4. S = Nat
  <2>1. S \in SUBSET Nat
    OBVIOUS
  <2> HIDE DEF S
  <2> QED BY <1>2, <1>3, <2>1, SetInduction
<1>5. PICK g : Ok(n, g)
  BY <1>1, <1>4
<1>6. g = [i \in 0 .. n |-> IF i = 0 THEN j ELSE Undo(g[i-1], j.entries[n - i + 1])]
  BY <1>5, Zenon
<1> DEFINE R == Unwound(j)
<1>7. R = [i \in 0 .. n |-> IF i = 0 THEN j ELSE Undo(R[i-1], j.entries[n - i + 1])]
  BY <1>6, Zenon DEF Unwound
<1> HIDE DEF R
<1>8. \A i \in 0 .. n : R[i] = IF i = 0 THEN j ELSE Undo(R[i-1], j.entries[n - i + 1])
  BY <1>7, Zenon
<1> QED BY <1>8 DEF R

\* Every stage of a revert is a journal of the right type with the same entries.
LEMMA UnwoundType ==
  ASSUME NEW j \in JournalRec
  PROVE  \A i \in 0 .. Len(j.entries) : Unwound(j)[i] \in Same(j)
<1> DEFINE n == Len(j.entries)
           R == Unwound(j)
           S == {m \in Nat : m <= n => R[m] \in Same(j)}
<1>1. n \in Nat /\ j.entries \in Seq(Entry)
  BY DEF JournalRec
<1>2. \A i \in 0 .. n : R[i] = IF i = 0 THEN j ELSE Undo(R[i-1], j.entries[n - i + 1])
  BY UnwoundDef
<1> HIDE DEF R
<1>3. 0 \in S
  BY <1>1, <1>2, GrownTrans
<1>4. ASSUME NEW m \in S PROVE m + 1 \in S
  <2>1. SUFFICES ASSUME m + 1 <= n PROVE R[m + 1] \in Same(j)
    OBVIOUS
  <2>2. /\ m + 1 \in 0 .. n /\ m + 1 # 0 /\ (m + 1) - 1 = m
        /\ n - (m + 1) + 1 = n - m /\ n - m \in 1 .. n /\ m <= n
    BY <1>1, <2>1
  <2>3. R[m + 1] = Undo(R[m], j.entries[n - m])
    BY <1>2, <2>2
  <2>4. R[m] \in Same(j)
    BY <2>2
  <2>5. j.entries[n - m] \in Entry
    BY <1>1, <2>2
  <2>6. R[m] \in JournalRec /\ Same(R[m]) = Same(j)
    BY <2>4 DEF Same
  <2> QED BY <2>3, <2>5, <2>6, UndoType
<1>5. S = Nat
  <2>1. S \in SUBSET Nat
    OBVIOUS
  <2> HIDE DEF S
  <2> QED BY <1>3, <1>4, <2>1, SetInduction
<1>6. \A i \in 0 .. n : R[i] \in Same(j)
  BY <1>1, <1>5
<1> QED BY <1>6 DEF R

\* A revert keeps exactly the first n entries.
LEMMA RevertToType ==
  ASSUME NEW j \in JournalRec, NEW n \in 0 .. Len(j.entries)
  PROVE  /\ RevertTo(j, n) \in JournalRec
         /\ Len(RevertTo(j, n).entries) = n
<1> DEFINE k == Unwound(j)[Len(j.entries) - n]
<1>1. Len(j.entries) \in Nat /\ Len(j.entries) - n \in 0 .. Len(j.entries)
  BY DEF JournalRec
<1>2. k \in JournalRec /\ k.entries = j.entries
  BY <1>1, UnwoundType DEF Same
<1>3. SubSeq(j.entries, 1, n) \in Seq(Entry) /\ Len(SubSeq(j.entries, 1, n)) = n
  BY DEF JournalRec
<1>4. RevertTo(j, n) = [k EXCEPT !.entries = SubSeq(k.entries, 1, n)]
  BY DEF RevertTo
<1> HIDE DEF k
<1> QED BY <1>2, <1>3, <1>4, Zenon DEF JournalRec

-----------------------------------------------------------------------------
(***************************************************************************)
(* The methods: none removes an entry.                                     *)
(***************************************************************************)

\* touchAccount and its parts.
LEMMA TouchType ==
  ASSUME NEW j \in JournalRec, NEW a \in Addr
  PROVE  MarkTouched(j, a) \in Grown(j) /\ TouchAccount(j, a) \in Grown(j)
<1>1. ASSUME NEW k \in JournalRec PROVE MarkTouched(k, a) \in Grown(k)
  <2> DEFINE e == [kind |-> "AccountTouched", addr |-> a]
  <2>1. e \in Entry
    BY DEF Entry
  <2>2. Record(k, e) \in Grown(k)
    BY <2>1, RecordType
  <2>3. {"Touched"} \in SUBSET Flag
    BY DEF Flag
  <2>4. Mark(Record(k, e), a, {"Touched"}) \in Grown(k)
    BY <2>2, <2>3, FieldUpdates, GrownTrans
  <2> QED BY <2>4, GrownTrans DEF MarkTouched
<1>2. Revive(j, a) \in Grown(j)
  <2> DEFINE e == [kind |-> "SelfdestructCleared", addr |-> a]
  <2>1. e \in Entry
    BY DEF Entry
  <2>2. Record(j, e) \in Grown(j)
    BY <2>1, RecordType
  <2>3. {"SelfDestructed"} \in SUBSET Flag
    BY DEF Flag
  <2>4. Unmark(Record(j, e), a, {"SelfDestructed"}) \in Grown(j)
    BY <2>2, <2>3, FieldUpdates, GrownTrans
  <2> QED BY <2>4, GrownTrans DEF Revive
<1>3. TouchAccount(j, a) \in Grown(j)
  BY <1>1, <1>2, GrownTrans DEF TouchAccount
<1> QED BY <1>1, <1>3

\* loadAccountMutInternal.
LEMMA LoadType ==
  ASSUME NEW j \in JournalRec, NEW a \in Addr, txid \in Nat
  PROVE  Load(j, a) \in Grown(j) /\ LoadIfAbsent(j, a) \in Grown(j)
<1>1. AccountWarmed(a) \in Entry
  BY DEF AccountWarmed, Entry
<1>2. Insert(j, a) \in Grown(j)
  <2> DEFINE st == IF DBInfo[a].exists THEN {} ELSE {"LoadedAsNotExist"}
             acc == [j.acct[a] EXCEPT !.loaded = TRUE, !.tx = txid, !.status = st]
             in == [j EXCEPT !.acct[a] = acc]
  <2>1. st \in SUBSET Flag
    BY DEF Flag
  <2>2. acc \in Account
    <3>1. j.acct[a] \in Account
      BY DEF JournalRec
    <3> HIDE DEF st
    <3> QED BY <2>1, <3>1, Zenon DEF Account
  <2>3. in \in Same(j)
    <3> HIDE DEF acc
    <3> QED BY <2>2, AcctUpdate
  <2>4. Insert(j, a) = IF IsWarm(a) THEN in ELSE Record(in, AccountWarmed(a))
    BY DEF Insert
  <2> HIDE DEF in
  <2>5. Record(in, AccountWarmed(a)) \in Grown(in) /\ in \in Grown(j)
    BY <1>1, <2>3, RecordType, GrownTrans
  <2> QED BY <2>4, <2>5, GrownTrans
<1>3. Rewarm(j, a) \in Grown(j)
  <2> DEFINE clean == IF Has(j, a, "SelfDestructLocal") THEN Wipe(j, a) ELSE j
             acc == [clean.acct[a] EXCEPT
                       !.tx = txid,
                       !.status = @ \ {"Cold", "SelfDestructLocal", "CreatedLocal"}]
             warm == [clean EXCEPT !.acct[a] = acc]
  <2>1. clean \in Same(j)
    BY WipeType, GrownTrans
  <2>2. acc \in Account
    <3>1. clean.acct[a] \in Account
      <4> HIDE DEF clean
      <4> QED BY <2>1 DEF Same, JournalRec
    <3> HIDE DEF clean
    <3> QED BY <3>1, Zenon DEF Account
  <2>3. warm \in Same(clean)
    <3> HIDE DEF clean, acc
    <3> QED BY <2>1, <2>2, AcctUpdate, GrownTrans
  <2>4. Rewarm(j, a) = Record(warm, AccountWarmed(a))
    BY DEF Rewarm
  <2> HIDE DEF clean, warm
  <2>5. warm \in Grown(j)
    BY <2>1, <2>3, GrownTrans
  <2> QED BY <1>1, <2>4, <2>5, RecordType, GrownTrans
<1>4. Load(j, a) \in Grown(j)
  BY <1>2, <1>3, GrownTrans DEF Load
<1> QED BY <1>4, GrownTrans DEF LoadIfAbsent

\* SLoadInto after the account is loaded.
LEMMA WarmSlotType ==
  ASSUME NEW j \in JournalRec, NEW a \in Addr, NEW k \in Key, txid \in Nat
  PROVE  WarmSlot(j, a, k) \in Grown(j)
<1> DEFINE s    == j.slot[a][k]
           v    == InitialValue(j, a, k)
           warm == IF ~s.loaded
                     THEN [loaded |-> TRUE, present |-> v, orig |-> v,
                           tx |-> txid, cold |-> FALSE]
                     ELSE [s EXCEPT !.orig = IF SlotColdInTx(j, a, k) THEN s.present ELSE @,
                                    !.tx = txid, !.cold = FALSE]
           put  == [j EXCEPT !.slot[a][k] = warm]
           e    == [kind |-> "StorageWarmed", addr |-> a, key |-> k]
<1>1. s \in Slot
  BY DEF JournalRec
<1>2. v \in Value
  BY ConstantsOK DEF InitialValue
<1>3. warm \in Slot
  <2>1. [loaded |-> TRUE, present |-> v, orig |-> v, tx |-> txid, cold |-> FALSE] \in Slot
    <3> HIDE DEF v
    <3> QED BY <1>2 DEF Slot
  <2>2. [s EXCEPT !.orig = IF SlotColdInTx(j, a, k) THEN s.present ELSE @,
                  !.tx = txid, !.cold = FALSE] \in Slot
    <3> HIDE DEF s
    <3> QED BY <1>1, Zenon DEF Slot
  <2> QED BY <2>1, <2>2
<1>4. put \in Same(j)
  <2> HIDE DEF warm
  <2> QED BY <1>3, SlotUpdate
<1>5. WarmSlot(j, a, k) = IF (~s.loaded \/ SlotColdInTx(j, a, k)) /\ ~IsStorageWarm(a, k)
                            THEN Record(put, e) ELSE put
  BY DEF WarmSlot
<1>6. e \in Entry
  BY DEF Entry
<1> HIDE DEF put, e
<1>7. put \in Grown(j) /\ Record(put, e) \in Grown(put)
  BY <1>4, <1>6, RecordType, GrownTrans
<1> QED BY <1>5, <1>7, GrownTrans

\* SLoadInto, sstoreInner and TStore.
LEMMA StorageType ==
  ASSUME NEW j \in JournalRec, NEW a \in Addr, NEW k \in Key, NEW v \in Value, txid \in Nat
  PROVE  /\ SLoadSlot(j, a, k) \in Grown(j)
         /\ SStoreSlot(j, a, k, v) \in Grown(j)
         /\ TStoreSlot(j, a, k, v) \in Grown(j)
<1>1. SLoadSlot(j, a, k) \in Grown(j)
  BY LoadType, WarmSlotType, GrownTrans DEF SLoadSlot
<1>2. SStoreSlot(j, a, k, v) \in Grown(j)
  <2> DEFINE w   == WarmSlot(MarkTouched(LoadIfAbsent(j, a), a), a, k)
             old == w.slot[a][k].present
             set == [w EXCEPT !.slot[a][k].present = v]
             e   == [kind |-> "StorageChanged", addr |-> a, key |-> k, had |-> old]
  <2>1. w \in Grown(j)
    BY LoadType, TouchType, WarmSlotType, GrownTrans
  <2>2. w \in JournalRec
    BY <2>1, GrownTrans
  <2>3. SStoreSlot(j, a, k, v) = IF old = v THEN w ELSE Record(set, e)
    BY DEF SStoreSlot
  <2> HIDE DEF w
  <2>4. old \in Value
    BY <2>2 DEF JournalRec, Slot
  <2>5. set \in Same(w)
    BY <2>2, SlotFields, Zenon
  <2> HIDE DEF old, set
  <2>6. e \in Entry
    BY <2>4 DEF Entry
  <2> HIDE DEF e
  <2>7. Record(set, e) \in Grown(set) /\ set \in Grown(w)
    BY <2>2, <2>5, <2>6, RecordType, GrownTrans
  <2> QED BY <2>1, <2>2, <2>3, <2>7, GrownTrans
<1>3. TStoreSlot(j, a, k, v) \in Grown(j)
  <2> DEFINE old == j.transient[a][k]
             set == [j EXCEPT !.transient[a][k] = v]
             e   == [kind |-> "TransientChange", addr |-> a, key |-> k, had |-> old]
  <2>1. old \in Value
    BY DEF JournalRec
  <2>2. set \in Same(j)
    BY SlotUpdate
  <2>3. TStoreSlot(j, a, k, v) = IF old = v THEN j ELSE Record(set, e)
    BY DEF TStoreSlot
  <2> HIDE DEF old, set
  <2>4. e \in Entry
    BY <2>1 DEF Entry
  <2> HIDE DEF e
  <2>5. Record(set, e) \in Grown(set) /\ set \in Grown(j)
    BY <2>2, <2>4, RecordType, GrownTrans
  <2> QED BY <2>3, <2>5, GrownTrans
<1> QED BY <1>1, <1>2, <1>3

\* Transfer and BalanceIncr.
LEMMA BalanceType ==
  ASSUME NEW j \in JournalRec, NEW a \in Addr, NEW b \in Addr, NEW v \in Balance,
         txid \in Nat
  PROVE  TransferBalance(j, a, b, v) \in Grown(j) /\ IncrBalance(j, a, v) \in Grown(j)
<1>1. ASSUME NEW k \in JournalRec PROVE TransferLoaded(k, a, b, v) \in Grown(k)
  <2> DEFINE sender  == TouchAccount(k, a)
             paid    == Debit(sender, a, v)
             debited == TouchAccount(paid, b)
             done    == Credit(debited, b, v)
             e       == BalanceTransfer(a, b, v)
  <2>1. sender \in Grown(k)
    BY TouchType
  <2>2. TransferLoaded(k, a, b, v) =
          IF a = b THEN k
            ELSE IF v = 0 THEN TouchAccount(k, b)
            ELSE IF v > sender.acct[a].bal THEN sender
            ELSE IF debited.acct[b].bal + v > MaxBalance THEN debited
            ELSE Record(done, e)
    BY DEF TransferLoaded
  <2> HIDE DEF sender
  <2>3. paid \in Grown(k)
    BY <2>1, FieldUpdates, GrownTrans
  <2> HIDE DEF paid
  <2>4. debited \in Grown(k)
    BY <2>3, TouchType, GrownTrans
  <2> HIDE DEF debited
  <2>5. done \in Grown(k)
    BY <2>4, FieldUpdates, GrownTrans
  <2> HIDE DEF done
  <2>6. e \in Entry
    BY DEF BalanceTransfer, Entry
  <2> HIDE DEF e
  <2>7. Record(done, e) \in Grown(k)
    BY <2>5, <2>6, RecordType, GrownTrans
  <2>8. TouchAccount(k, b) \in Grown(k) /\ k \in Grown(k)
    BY TouchType, GrownTrans
  <2> QED BY <2>1, <2>2, <2>4, <2>7, <2>8
<1>2. TransferBalance(j, a, b, v) \in Grown(j)
  <2>1. Load(Load(j, a), b) \in Grown(j)
    BY LoadType, GrownTrans
  <2> QED BY <1>1, <2>1, GrownTrans DEF TransferBalance
<1>3. IncrBalance(j, a, v) \in Grown(j)
  <2> DEFINE t   == TouchAccount(Load(j, a), a)
             old == t.acct[a].bal
             new == Credit(t, a, v)
             e   == [kind |-> "BalanceChange", addr |-> a, bal |-> old]
  <2>1. t \in Grown(j) /\ t \in JournalRec
    BY LoadType, TouchType, GrownTrans
  <2>2. IncrBalance(j, a, v) = IF new.acct[a].bal = old THEN new ELSE Record(new, e)
    BY DEF IncrBalance
  <2> HIDE DEF t
  <2>3. old \in Balance
    BY <2>1 DEF JournalRec, Account
  <2>4. new \in Grown(j)
    BY <2>1, FieldUpdates, GrownTrans
  <2> HIDE DEF old, new
  <2>5. e \in Entry
    BY <2>3 DEF Entry
  <2> HIDE DEF e
  <2>6. Record(new, e) \in Grown(j)
    BY <2>4, <2>5, RecordType, GrownTrans
  <2> QED BY <2>2, <2>4, <2>6
<1> QED BY <1>2, <1>3

\* Selfdestruct.
LEMMA DestroyType ==
  ASSUME NEW j \in JournalRec, NEW a \in Addr, NEW b \in Addr, txid \in Nat
  PROVE  Destroy(j, a, b) \in Grown(j)
<1> DEFINE p    == PayBeneficiary(j, a, b)
           bal  == p.acct[a].bal
           F    == {"SelfDestructed", "SelfDestructLocal"}
           mark == SetBalance(Mark(p, a, F), a, 0)
           zero == SetBalance(p, a, 0)
           e1   == [kind |-> "AccountDestroyed", addr |-> a, target |-> b,
                    status |-> DestroyStatus(p, a), bal |-> bal]
           e2   == BalanceTransfer(a, b, bal)
<1>1. p \in Grown(j) /\ p \in JournalRec
  <2> DEFINE l == Load(j, b)
             t == TouchAccount(l, b)
  <2>1. l \in Grown(j) /\ l \in JournalRec
    BY LoadType, GrownTrans
  <2>2. p = IF a = b THEN l ELSE Credit(t, b, l.acct[a].bal)
    BY DEF PayBeneficiary
  <2> HIDE DEF l, p
  <2>3. l.acct[a].bal \in Balance
    BY <2>1 DEF JournalRec, Account
  <2>4. t \in Grown(j)
    BY <2>1, TouchType, GrownTrans
  <2> HIDE DEF t
  <2>5. Credit(t, b, l.acct[a].bal) \in Grown(j)
    BY <2>3, <2>4, FieldUpdates, GrownTrans
  <2> QED BY <2>1, <2>2, <2>5, GrownTrans
<1>2. Destroy(j, a, b) = IF MayDestroy(p, a) THEN Record(mark, e1)
                           ELSE IF a # b THEN Record(zero, e2) ELSE p
  BY DEF Destroy
<1> HIDE DEF p
<1>3. bal \in Balance /\ 0 \in Balance
  BY <1>1, ConstantsOK DEF JournalRec, Account, Balance
<1>4. F \in SUBSET Flag
  BY DEF Flag
<1> HIDE DEF bal, F
<1>5. Mark(p, a, F) \in Grown(p)
  BY <1>1, <1>4, FieldUpdates, GrownTrans
<1>6. mark \in Grown(p) /\ zero \in Grown(p)
  BY <1>1, <1>3, <1>5, FieldUpdates, GrownTrans
<1> HIDE DEF mark, zero
<1>7. DestroyStatus(p, a) \in RevertStatus
  BY DEF DestroyStatus, RevertStatus
<1>8. e1 \in Entry /\ e2 \in Entry
  BY <1>3, <1>7 DEF Entry, BalanceTransfer
<1> HIDE DEF e1, e2
<1>9. Record(mark, e1) \in Grown(p) /\ Record(zero, e2) \in Grown(p)
  BY <1>1, <1>6, <1>8, RecordType, GrownTrans
<1> QED BY <1>1, <1>2, <1>9, GrownTrans

\* CreateAccountCheckpoint and SetCodeWithHash.
LEMMA CreateType ==
  ASSUME NEW j \in JournalRec, NEW a \in Addr
  PROVE  /\ NewAccount(j, a) \in Grown(j)
         /\ \A b \in Addr, v \in Balance : Endow(j, b, a, v) \in Grown(j)
         /\ \A c \in Code : DeployCode(j, a, c) \in Grown(j)
<1>1. NewAccount(j, a) \in Grown(j)
  <2> DEFINE e    == [kind |-> "AccountCreated", addr |-> a, global |-> ~Has(j, a, "Created")]
             r    == Record(j, e)
             made == Mark(r, a, {"Created", "CreatedLocal"})
             k    == IF SpuriousDragon THEN SetNonce(made, a, 1) ELSE made
  <2>1. e \in Entry
    BY DEF Entry, Has
  <2>2. NewAccount(j, a) = TouchAccount(k, a)
    BY DEF NewAccount
  <2> HIDE DEF e
  <2>3. r \in Grown(j)
    BY <2>1, RecordType
  <2> HIDE DEF r
  <2>4. {"Created", "CreatedLocal"} \in SUBSET Flag
    BY DEF Flag
  <2>5. made \in Grown(j)
    BY <2>3, <2>4, FieldUpdates, GrownTrans
  <2> HIDE DEF made
  <2>6. 1 \in Nonce
    BY ConstantsOK DEF Nonce
  <2>7. k \in Grown(j)
    BY <2>5, <2>6, FieldUpdates, GrownTrans
  <2> HIDE DEF k
  <2> QED BY <2>2, <2>7, TouchType, GrownTrans
<1>2. ASSUME NEW b \in Addr, NEW v \in Balance PROVE Endow(j, b, a, v) \in Grown(j)
  <2> DEFINE k == Debit(Credit(j, a, v), b, v)
             e == BalanceTransfer(b, a, v)
  <2>1. Credit(j, a, v) \in Grown(j)
    BY FieldUpdates, GrownTrans
  <2>2. k \in Grown(j)
    BY <2>1, FieldUpdates, GrownTrans
  <2>3. Endow(j, b, a, v) = IF v = 0 THEN j ELSE Record(k, e)
    BY DEF Endow
  <2> HIDE DEF k
  <2>4. e \in Entry
    BY DEF BalanceTransfer, Entry
  <2> HIDE DEF e
  <2>5. Record(k, e) \in Grown(j)
    BY <2>2, <2>4, RecordType, GrownTrans
  <2> QED BY <2>3, <2>5, GrownTrans
<1>3. ASSUME NEW c \in Code PROVE DeployCode(j, a, c) \in Grown(j)
  <2> DEFINE t == TouchAccount(j, a)
             e == [kind |-> "CodeChange", addr |-> a, code |-> t.acct[a].code]
  <2>1. t \in Grown(j) /\ t \in JournalRec
    BY TouchType, GrownTrans
  <2>2. DeployCode(j, a, c) = SetCode(Record(t, e), a, c)
    BY DEF DeployCode
  <2> HIDE DEF t
  <2>3. t.acct[a].code \in Code
    BY <2>1 DEF JournalRec, Account
  <2>4. e \in Entry
    BY <2>3 DEF Entry
  <2> HIDE DEF e
  <2>5. Record(t, e) \in Grown(j)
    BY <2>1, <2>4, RecordType, GrownTrans
  <2> QED BY <2>2, <2>5, FieldUpdates, GrownTrans
<1> QED BY <1>1, <1>2, <1>3

\* What CommitTx does to the accounts.
LEMMA EndTxType ==
  ASSUME NEW j \in JournalRec
  PROVE  Finalized(j) \in JournalRec /\ NoTransient(j) \in JournalRec
<1>1. Finalized(j) \in JournalRec
  <2> DEFINE gone == {a \in Addr : /\ Has(j, a, "SelfDestructLocal")
                                   /\ \E i \in DOMAIN doomed : doomed[i] = a}
             A == [a \in Addr |->
                     IF a \in gone THEN Unmark(Wipe(j, a), a, {"SelfDestructLocal"}).acct[a]
                                   ELSE j.acct[a]]
             T == [a \in Addr |-> IF a \in gone THEN NoStorage ELSE j.slot[a]]
  <2>1. ASSUME NEW a \in Addr
        PROVE  Unmark(Wipe(j, a), a, {"SelfDestructLocal"}).acct[a] \in Account
    <3>1. {"SelfDestructLocal"} \in SUBSET Flag
      BY DEF Flag
    <3>2. Unmark(Wipe(j, a), a, {"SelfDestructLocal"}) \in JournalRec
      BY <3>1, WipeType, FieldUpdates, GrownTrans DEF Same
    <3> QED BY <3>2 DEF JournalRec
  <2>2. NoStorage \in [Key -> Slot]
    BY ConstantsOK DEF NoStorage, NoSlot, Slot
  <2>3. A \in [Addr -> Account]
    <3> HIDE DEF gone
    <3> QED BY <2>1 DEF JournalRec
  <2>4. T \in [Addr -> [Key -> Slot]]
    <3> HIDE DEF gone
    <3> QED BY <2>2 DEF JournalRec
  <2>5. Finalized(j) = [j EXCEPT !.acct = A, !.slot = T]
    BY DEF Finalized
  <2> HIDE DEF A, T
  <2> QED BY <2>3, <2>4, <2>5, Zenon DEF JournalRec
<1>2. NoTransient(j) \in JournalRec
  <2>1. [a \in Addr |-> [k \in Key |-> 0]] \in [Addr -> [Key -> Value]]
    BY ConstantsOK
  <2>2. <<>> \in Seq(Entry)
    OBVIOUS
  <2> QED BY <2>1, <2>2, Zenon DEF NoTransient, JournalRec
<1> QED BY <1>1, <1>2

-----------------------------------------------------------------------------
(***************************************************************************)
(* The checkpoints of the open frames.  CheckpointsNested is preserved     *)
(* whenever the three lists keep what the innermost frame would keep.      *)
(***************************************************************************)
Inv == TypeOK /\ CheckpointsNested

\* The lists are not cut, and no frame is entered or left.
NoCut ==
  /\ Len(journal.entries) <= Len(journal'.entries)
  /\ Len(logs) <= Len(logs')
  /\ Len(doomed) <= Len(doomed')

\* The lengths and indexes that nesting compares are naturals.
LEMMA Lengths ==
  ASSUME TypeOK
  PROVE  /\ Len(journal.entries) \in Nat /\ Len(logs) \in Nat /\ Len(doomed) \in Nat
         /\ Len(checkpoints) \in Nat
         /\ \A i \in 1 .. Len(checkpoints) :
              /\ checkpoints[i] \in Checkpoint
              /\ checkpoints[i].logI \in Nat
              /\ checkpoints[i].journalI \in Nat
              /\ checkpoints[i].doomedI \in Nat
              /\ checkpoints[i].created \in Addr \cup {None}
<1>1. Len(journal.entries) \in Nat /\ Len(logs) \in Nat /\ Len(doomed) \in Nat
      /\ Len(checkpoints) \in Nat
  BY DEF TypeOK, JournalRec
<1>2. \A i \in 1 .. Len(checkpoints) : checkpoints[i] \in Checkpoint
  BY DEF TypeOK
<1> QED BY <1>1, <1>2 DEF Checkpoint

\* A method that runs inside the innermost frame.
LEMMA NestedStay ==
  ASSUME Inv, TypeOK', NoCut, UNCHANGED <<depth, checkpoints>>
  PROVE  CheckpointsNested'
<1>1. TypeOK /\ CheckpointsNested
  BY DEF Inv
<1>2. /\ Len(journal'.entries) \in Nat /\ Len(logs') \in Nat /\ Len(doomed') \in Nat
  BY DEF TypeOK, JournalRec
<1> QED BY <1>1, <1>2, Lengths, SMTT(30) DEF CheckpointsNested, NoCut

\* A frame is entered: its checkpoint is the end of the lists.
LEMMA NestedEnter ==
  ASSUME Inv, TypeOK', NoCut, NEW c, Enter(c)
  PROVE  CheckpointsNested'
<1> DEFINE n == Len(checkpoints)
           new == [logI |-> Len(logs), journalI |-> Len(journal.entries),
                   doomedI |-> Len(doomed), created |-> c]
<1>1. TypeOK /\ CheckpointsNested
  BY DEF Inv
<1>2. n \in Nat /\ checkpoints \in Seq(Checkpoint) /\ depth = n
  BY <1>1, Lengths DEF TypeOK, CheckpointsNested
<1>3. checkpoints' = Append(checkpoints, new) /\ depth' = n + 1
  BY <1>2 DEF Enter
<1>4. /\ Len(checkpoints') = n + 1
      /\ checkpoints'[n + 1] = new
      /\ \A i \in 1 .. n : checkpoints'[i] = checkpoints[i]
  BY <1>2, <1>3
<1>5. /\ Len(journal'.entries) \in Nat /\ Len(logs') \in Nat /\ Len(doomed') \in Nat
  BY DEF TypeOK, JournalRec
<1>6. ASSUME NEW i \in 1 .. (n + 1)
      PROVE  LET up == IF i = n + 1
                         THEN [logI |-> Len(logs'), journalI |-> Len(journal'.entries),
                               doomedI |-> Len(doomed')]
                         ELSE checkpoints'[i + 1]
             IN  /\ checkpoints'[i].logI <= up.logI
                 /\ checkpoints'[i].journalI <= up.journalI
                 /\ checkpoints'[i].doomedI <= up.doomedI
  <2>1. CASE i = n + 1
    BY <1>4, <2>1 DEF NoCut
  <2>2. CASE i = n
    <3>1. i \in 1 .. n /\ i # n + 1 /\ checkpoints'[i + 1] = new
      BY <1>2, <1>4, <2>2
    <3> QED BY <1>1, <1>4, <2>2, <3>1 DEF CheckpointsNested
  <2>3. CASE i < n
    <3>1. /\ i \in 1 .. n /\ i + 1 \in 1 .. n /\ i # n /\ i # n + 1
      BY <1>2, <2>3
    <3>2. checkpoints'[i] = checkpoints[i] /\ checkpoints'[i + 1] = checkpoints[i + 1]
      BY <1>4, <3>1
    <3> HIDE <1>4
    <3> QED BY <1>1, <3>1, <3>2 DEF CheckpointsNested
  <2> QED BY <1>2, <2>1, <2>2, <2>3
<1> QED BY <1>3, <1>4, <1>6 DEF CheckpointsNested

\* A frame is left, and the lists keep at least what its checkpoint says.
LEMMA NestedLeave ==
  ASSUME Inv, TypeOK', FrameOpen, Leave,
         Top.journalI <= Len(journal'.entries),
         Top.logI <= Len(logs'),
         Top.doomedI <= Len(doomed')
  PROVE  CheckpointsNested'
<1> DEFINE n == Len(checkpoints)
<1>1. TypeOK /\ CheckpointsNested
  BY DEF Inv
<1>2. n \in Nat \ {0} /\ checkpoints \in Seq(Checkpoint) /\ depth = n
  BY <1>1, Lengths DEF TypeOK, CheckpointsNested, FrameOpen
<1>3. checkpoints' = SubSeq(checkpoints, 1, n - 1) /\ depth' = n - 1
  BY <1>2 DEF Leave, Pop
<1>4. /\ Len(checkpoints') = n - 1
      /\ \A i \in 1 .. n - 1 : checkpoints'[i] = checkpoints[i]
  BY <1>2, <1>3
<1>5. ASSUME NEW i \in 1 .. (n - 1)
      PROVE  LET up == IF i = n - 1
                         THEN [logI |-> Len(logs'), journalI |-> Len(journal'.entries),
                               doomedI |-> Len(doomed')]
                         ELSE checkpoints'[i + 1]
             IN  /\ checkpoints'[i].logI <= up.logI
                 /\ checkpoints'[i].journalI <= up.journalI
                 /\ checkpoints'[i].doomedI <= up.doomedI
  <2>1. i \in 1 .. n /\ i # n /\ i + 1 \in 1 .. n
    BY <1>2
  <2>2. /\ checkpoints[i].logI <= checkpoints[i + 1].logI
        /\ checkpoints[i].journalI <= checkpoints[i + 1].journalI
        /\ checkpoints[i].doomedI <= checkpoints[i + 1].doomedI
    BY <1>1, <2>1 DEF CheckpointsNested
  <2>3. checkpoints'[i] = checkpoints[i]
    BY <1>4
  <2>4. CASE i = n - 1
    <3>1. checkpoints[i + 1] = Top
      BY <1>2, <2>4 DEF Top
    <3>2. /\ checkpoints[i].logI \in Nat /\ Top.logI \in Nat /\ Len(logs') \in Nat
          /\ checkpoints[i].journalI \in Nat /\ Top.journalI \in Nat
          /\ Len(journal'.entries) \in Nat
          /\ checkpoints[i].doomedI \in Nat /\ Top.doomedI \in Nat /\ Len(doomed') \in Nat
      <4>1. Len(logs') \in Nat /\ Len(journal'.entries) \in Nat /\ Len(doomed') \in Nat
        BY DEF TypeOK, JournalRec
      <4> QED BY <1>1, <2>1, <3>1, <4>1, Lengths, Zenon
    <3>3. /\ checkpoints[i].logI <= Top.logI /\ checkpoints[i].journalI <= Top.journalI
          /\ checkpoints[i].doomedI <= Top.doomedI
      BY <2>2, <3>1
    <3>4. \A a, b, c \in Nat : a <= b /\ b <= c => a <= c
      OBVIOUS
    <3>5. checkpoints[i].logI <= Len(logs')
      BY <3>2, <3>3, <3>4, Zenon
    <3>6. checkpoints[i].journalI <= Len(journal'.entries)
      BY <3>2, <3>3, <3>4, Zenon
    <3>7. checkpoints[i].doomedI <= Len(doomed')
      BY <3>2, <3>3, <3>4, Zenon
    <3> QED BY <2>3, <2>4, <3>5, <3>6, <3>7
  <2>5. CASE i # n - 1
    <3>1. i + 1 \in 1 .. n - 1
      BY <1>2, <2>5
    <3> QED BY <1>4, <2>2, <2>3, <2>5, <3>1
  <2> QED BY <2>4, <2>5
<1> QED BY <1>3, <1>4, <1>5 DEF CheckpointsNested

\* A step that only grows the journal.
LEMMA JournalStep ==
  ASSUME Inv, journal' \in Grown(journal), OnlyJournal
  PROVE  Inv'
<1>1. TypeOK'
  BY GrownTrans DEF Inv, TypeOK, OnlyJournal, Grown
<1>2. NoCut
  BY Lengths DEF Inv, NoCut, Grown, OnlyJournal
<1>3. UNCHANGED <<depth, checkpoints>>
  BY DEF OnlyJournal
<1> QED BY <1>1, <1>2, <1>3, NestedStay DEF Inv

\* The checkpoint of the innermost frame is within the lists.
LEMMA TopBounds ==
  ASSUME Inv, FrameOpen
  PROVE  /\ Top.journalI \in 0 .. Len(journal.entries)
         /\ Top.logI \in 0 .. Len(logs)
         /\ Top.doomedI \in 0 .. Len(doomed)
         /\ Top.created \in Addr \cup {None}
<1>1. Len(checkpoints) \in 1 .. Len(checkpoints)
  BY DEF Inv, TypeOK, FrameOpen
<1>2. TypeOK /\ CheckpointsNested
  BY DEF Inv
<1>3. /\ Top.journalI \in Nat /\ Top.logI \in Nat /\ Top.doomedI \in Nat
      /\ Top.created \in Addr \cup {None}
  BY <1>1, <1>2, Lengths DEF Top
<1>4. /\ Top.journalI <= Len(journal.entries)
      /\ Top.logI <= Len(logs)
      /\ Top.doomedI <= Len(doomed)
  BY <1>1, <1>2 DEF CheckpointsNested, Top
<1> QED BY <1>2, <1>3, <1>4, Lengths

\* What entering and leaving a frame do to the types.
LEMMA FrameTypes ==
  ASSUME TypeOK
  PROVE  /\ \A c \in Addr \cup {None} : Enter(c) =>
              depth' \in Nat /\ checkpoints' \in Seq(Checkpoint)
         /\ FrameOpen /\ Leave => depth' \in Nat /\ checkpoints' \in Seq(Checkpoint)
<1>1. ASSUME NEW c \in Addr \cup {None}, Enter(c)
      PROVE  depth' \in Nat /\ checkpoints' \in Seq(Checkpoint)
  <2>1. [logI |-> Len(logs), journalI |-> Len(journal.entries),
         doomedI |-> Len(doomed), created |-> c] \in Checkpoint
    BY Lengths DEF Checkpoint
  <2> QED BY <1>1, <2>1 DEF Enter, TypeOK
<1>2. ASSUME FrameOpen, Leave
      PROVE  depth' \in Nat /\ checkpoints' \in Seq(Checkpoint)
  <2>1. depth' \in Nat
    BY <1>2 DEF Leave, TypeOK
  <2>2. Len(checkpoints) - 1 \in Nat
    BY <1>2 DEF FrameOpen, TypeOK
  <2>3. checkpoints' = SubSeq(checkpoints, 1, Len(checkpoints) - 1)
    BY <1>2 DEF Leave, Pop
  <2>4. SubSeq(checkpoints, 1, Len(checkpoints) - 1) \in Seq(Checkpoint)
    BY <2>2 DEF TypeOK
  <2> QED BY <2>1, <2>3, <2>4
<1> QED BY <1>1, <1>2

-----------------------------------------------------------------------------
(***************************************************************************)
(* The invariant.                                                          *)
(***************************************************************************)
\* Nothing is open and nothing is recorded in the journal as it is made.
LEMMA InitInv == Init => Inv
<1> SUFFICES ASSUME Init PROVE Inv
  OBVIOUS
<1>1. journal \in JournalRec
  <2> DEFINE A == [a \in Addr |->
                    [loaded |-> FALSE, bal |-> DBInfo[a].bal, nonce |-> DBInfo[a].nonce,
                     code |-> DBInfo[a].code, tx |-> 0, status |-> {}]]
             S == [a \in Addr |-> NoStorage]
             T == [a \in Addr |-> [k \in Key |-> 0]]
  <2>1. A \in [Addr -> Account]
    BY ConstantsOK DEF Account, Info
  <2>2. NoStorage \in [Key -> Slot]
    BY ConstantsOK DEF NoStorage, NoSlot, Slot
  <2>3. T \in [Addr -> [Key -> Value]]
    BY ConstantsOK
  <2>4. <<>> \in Seq(Entry)
    OBVIOUS
  <2>5. journal = [acct |-> A, slot |-> S, transient |-> T, entries |-> <<>>]
    BY DEF Init
  <2>6. S \in [Addr -> [Key -> Slot]]
    BY <2>2
  <2> HIDE DEF A, S, T
  <2> QED BY <2>1, <2>3, <2>4, <2>5, <2>6 DEF JournalRec
<1>2. TypeOK
  BY <1>1 DEF Init, TypeOK, NoWarmList, AccessList
<1>3. CheckpointsNested
  BY DEF Init, CheckpointsNested
<1> QED BY <1>2, <1>3 DEF Inv

\* Checkpoint, CheckpointCommit and CheckpointRevert.
LEMMA FrameInv == Inv /\ FrameSteps => Inv'
<1> SUFFICES ASSUME Inv, FrameSteps PROVE Inv'
  OBVIOUS
<1>0. TypeOK
  BY DEF Inv
<1>1. CASE Checkpt
  <2>1. Enter(None) /\ UNCHANGED <<journal, txid, warmList, logs, doomed>>
    BY <1>1 DEF Checkpt
  <2>2. TypeOK'
    BY <1>0, <2>1, FrameTypes DEF TypeOK
  <2>3. NoCut
    BY <1>0, <2>1, Lengths DEF NoCut
  <2> QED BY <2>1, <2>2, <2>3, NestedEnter DEF Inv
<1>2. CASE CheckpointCommit
  <2>1. FrameOpen /\ Leave /\ UNCHANGED <<journal, txid, warmList, logs, doomed>>
    BY <1>2 DEF CheckpointCommit
  <2>2. TypeOK'
    BY <1>0, <2>1, FrameTypes DEF TypeOK
  <2>3. /\ Top.journalI <= Len(journal'.entries) /\ Top.logI <= Len(logs')
        /\ Top.doomedI <= Len(doomed')
    BY <2>1, TopBounds
  <2> QED BY <2>1, <2>2, <2>3, NestedLeave DEF Inv
<1>3. CASE CheckpointRevert
  <2>1. /\ FrameOpen /\ Leave /\ UNCHANGED <<txid, warmList>>
        /\ journal' = RevertTo(journal, Top.journalI)
        /\ logs' = SubSeq(logs, 1, Top.logI)
        /\ doomed' = SubSeq(doomed, 1, Top.doomedI)
    BY <1>3 DEF CheckpointRevert
  <2>2. /\ Top.journalI \in 0 .. Len(journal.entries)
        /\ Top.logI \in 0 .. Len(logs) /\ Top.doomedI \in 0 .. Len(doomed)
    BY <2>1, TopBounds
  <2>3. journal' \in JournalRec /\ Len(journal'.entries) = Top.journalI
    BY <1>0, <2>1, <2>2, RevertToType, Zenon DEF TypeOK
  <2>4. /\ logs' \in Seq(Addr) /\ Len(logs') = Top.logI
        /\ doomed' \in Seq(Addr) /\ Len(doomed') = Top.doomedI
    BY <1>0, <2>1, <2>2, SMTT(30) DEF TypeOK
  <2>5. TypeOK'
    BY <1>0, <2>1, <2>3, <2>4, FrameTypes, Zenon DEF TypeOK
  <2>6. /\ Top.journalI <= Len(journal'.entries) /\ Top.logI <= Len(logs')
        /\ Top.doomedI <= Len(doomed')
    BY <2>2, <2>3, <2>4
  <2> QED BY <2>1, <2>5, <2>6, NestedLeave, Zenon DEF Inv
<1> QED BY <1>1, <1>2, <1>3 DEF FrameSteps

\* The access list, CommitTx and DiscardTx: no frame is open.
LEMMA TxInv == Inv /\ TxSteps => Inv'
<1> SUFFICES ASSUME Inv, TxSteps PROVE Inv'
  OBVIOUS
<1>0. TypeOK
  BY DEF Inv
<1>1. ASSUME NEW l \in AccessLists, WarmAccessList(l) PROVE Inv'
  <2>1. warmList' = l /\ UNCHANGED <<journal, txid, logs, doomed, depth, checkpoints>>
    BY <1>1 DEF WarmAccessList
  <2>2. l \in AccessList
    BY ConstantsOK
  <2>3. TypeOK'
    BY <1>0, <2>1, <2>2 DEF TypeOK
  <2>4. NoCut
    BY <1>0, <2>1, Lengths DEF NoCut
  <2> QED BY <2>1, <2>3, <2>4, NestedStay DEF Inv
<1>2. ASSUME NextTx, journal' \in JournalRec PROVE Inv'
  <2>1. /\ checkpoints = <<>> /\ checkpoints' = <<>> /\ depth' = 0
        /\ txid' = txid + 1 /\ warmList' = NoWarmList /\ logs' = <<>> /\ doomed' = <<>>
    BY <1>2 DEF NextTx, FrameOpen
  <2>2. TypeOK'
    BY <1>0, <1>2, <2>1 DEF TypeOK, NoWarmList, AccessList
  <2>3. CheckpointsNested'
    BY <2>1 DEF CheckpointsNested
  <2> QED BY <2>2, <2>3 DEF Inv
<1>3. CASE CommitTx
  <2>1. Finalized(journal) \in JournalRec
    BY <1>0, EndTxType DEF TypeOK
  <2>2. NoTransient(Finalized(journal)) \in JournalRec
    BY <2>1, EndTxType
  <2> QED BY <1>2, <1>3, <2>2 DEF CommitTx
<1>4. CASE DiscardTx
  <2>1. 0 \in 0 .. Len(journal.entries) /\ journal \in JournalRec
    BY <1>0, Lengths DEF TypeOK
  <2>2. RevertTo(journal, 0) \in JournalRec
    BY <2>1, RevertToType
  <2>3. NoTransient(RevertTo(journal, 0)) \in JournalRec
    BY <2>2, EndTxType
  <2> QED BY <1>2, <1>4, <2>3 DEF DiscardTx
<1> QED BY <1>1, <1>3, <1>4 DEF TxSteps

\* Loads, touches, logs and nonces add entries or logs at the end only.
LEMMA AccountInv == Inv /\ AccountSteps => Inv'
<1> SUFFICES ASSUME Inv, NEW a \in Addr,
                    LoadAccount(a) \/ Touch(a) \/ AppendLog(a) \/ BumpNonce(a)
             PROVE  Inv'
  BY DEF AccountSteps
<1>0. TypeOK /\ journal \in JournalRec /\ txid \in Nat
  BY DEF Inv, TypeOK
<1>1. CASE LoadAccount(a)
  BY <1>0, <1>1, LoadType, JournalStep DEF LoadAccount
<1>2. CASE Touch(a)
  BY <1>0, <1>2, TouchType, JournalStep DEF Touch
<1>3. CASE AppendLog(a)
  <2>1. /\ logs' = Append(logs, a)
        /\ UNCHANGED <<journal, txid, warmList, doomed, depth, checkpoints>>
    BY <1>3 DEF AppendLog
  <2>2. logs' \in Seq(Addr) /\ Len(logs') = Len(logs) + 1
    BY <1>0, <2>1 DEF TypeOK
  <2>3. TypeOK'
    BY <1>0, <2>1, <2>2 DEF TypeOK
  <2>4. NoCut
    BY <1>0, <2>1, <2>2, Lengths DEF NoCut
  <2> QED BY <2>1, <2>3, <2>4, NestedStay DEF Inv
<1>4. CASE BumpNonce(a)
  <2> DEFINE n == journal.acct[a].nonce
             k == SetNonce(journal, a, n + 1)
             e == [kind |-> "NonceChange", addr |-> a, nonce |-> n]
  <2>1. n \in Nonce
    BY <1>0 DEF JournalRec, Account
  <2>2. n < MaxNonce /\ journal' = Record(k, e) /\ OnlyJournal
    BY <1>4 DEF BumpNonce
  <2> HIDE DEF n
  <2>3. n + 1 \in Nonce
    BY <2>1, <2>2, ConstantsOK DEF Nonce
  <2>4. k \in Grown(journal)
    BY <1>0, <2>3, FieldUpdates, GrownTrans
  <2>5. e \in Entry
    BY <2>1 DEF Entry
  <2> HIDE DEF k, e
  <2>6. Record(k, e) \in Grown(journal)
    BY <1>0, <2>4, <2>5, RecordType, GrownTrans
  <2> QED BY <2>2, <2>6, JournalStep
<1> QED BY <1>1, <1>2, <1>3, <1>4

\* So do the methods on slots.
LEMMA StorageInv == Inv /\ StorageSteps => Inv'
<1> SUFFICES ASSUME Inv, NEW a \in Addr, NEW k \in Key,
                    SLoad(a, k) \/ \E v \in Value : SStore(a, k, v) \/ TStore(a, k, v)
             PROVE  Inv'
  BY DEF StorageSteps
<1>0. journal \in JournalRec /\ txid \in Nat
  BY DEF Inv, TypeOK
<1>1. CASE SLoad(a, k)
  <2>1. 0 \in Value
    BY ConstantsOK
  <2> QED BY <1>0, <1>1, <2>1, StorageType, JournalStep DEF SLoad
<1>2. ASSUME NEW v \in Value, SStore(a, k, v) PROVE Inv'
  BY <1>0, <1>2, StorageType, JournalStep DEF SStore
<1>3. ASSUME NEW v \in Value, TStore(a, k, v) PROVE Inv'
  BY <1>0, <1>3, StorageType, JournalStep DEF TStore
<1> QED BY <1>1, <1>2, <1>3

\* So do those on balances; what they compute stays below 2^256.
LEMMA BalanceInv == Inv /\ BalanceSteps => Inv'
<1> SUFFICES ASSUME Inv, NEW a \in Addr, NEW v \in Amount,
                    BalanceIncr(a, v) \/ \E b \in Addr : Transfer(a, b, v)
             PROVE  Inv'
  BY DEF BalanceSteps
<1>0. journal \in JournalRec /\ txid \in Nat /\ v \in Balance
  BY ConstantsOK DEF Inv, TypeOK
<1>1. CASE BalanceIncr(a, v)
  BY <1>0, <1>1, BalanceType, JournalStep DEF BalanceIncr
<1>2. ASSUME NEW b \in Addr, Transfer(a, b, v) PROVE Inv'
  BY <1>0, <1>2, BalanceType, JournalStep DEF Transfer
<1> QED BY <1>1, <1>2

\* Creation opens or closes a frame, destruction may lengthen the list of the doomed.
LEMMA LifecycleInv == Inv /\ LifecycleSteps => Inv'
<1> SUFFICES ASSUME Inv, LifecycleSteps PROVE Inv'
  OBVIOUS
<1>0. TypeOK /\ journal \in JournalRec /\ txid \in Nat
  BY DEF Inv, TypeOK
<1>1. ASSUME NEW a \in Addr, NEW b \in Addr, Selfdestruct(a, b) PROVE Inv'
  <2>1. /\ doomed' = doomed \/ doomed' = Append(doomed, a)
        /\ journal' = Destroy(journal, a, b)
        /\ UNCHANGED <<txid, warmList, logs, depth, checkpoints>>
    BY <1>1 DEF Selfdestruct
  <2>2. journal' \in Grown(journal)
    BY <1>0, <2>1, DestroyType
  <2>3. doomed' \in Seq(Addr) /\ Len(doomed) <= Len(doomed')
    BY <1>0, <2>1, SMTT(30) DEF TypeOK
  <2>4. TypeOK'
    BY <1>0, <2>1, <2>2, <2>3 DEF TypeOK, Grown
  <2>5. NoCut
    BY <1>0, <2>1, <2>2, <2>3, Lengths DEF NoCut, Grown
  <2> QED BY <2>1, <2>4, <2>5, NestedStay DEF Inv
<1>2. ASSUME NEW c \in Addr, NEW a \in Addr, NEW v \in Amount,
             CreateAccountCheckpoint(c, a, v)
      PROVE  Inv'
  <2> DEFINE made == NewAccount(journal, a)
  <2>1. /\ \/ /\ journal' = RevertTo(made, Len(journal.entries))
              /\ UNCHANGED <<depth, checkpoints>>
           \/ journal' = Endow(made, c, a, v) /\ Enter(a)
        /\ UNCHANGED <<txid, warmList, logs, doomed>>
    BY <1>2 DEF CreateAccountCheckpoint
  <2>2. made \in Grown(journal) /\ made \in JournalRec
    BY <1>0, CreateType, GrownTrans
  <2> HIDE DEF made
  <2>3. CASE /\ journal' = RevertTo(made, Len(journal.entries))
             /\ UNCHANGED <<depth, checkpoints>>
    <3>1. Len(journal.entries) \in 0 .. Len(made.entries)
      <4>1. Len(made.entries) \in Nat /\ Len(journal.entries) \in Nat
        BY <1>0, <2>2 DEF JournalRec
      <4> QED BY <2>2, <4>1 DEF Grown
    <3>2. journal' \in JournalRec /\ Len(journal'.entries) = Len(journal.entries)
      BY <2>2, <2>3, <3>1, RevertToType
    <3>3. TypeOK'
      BY <1>0, <2>1, <2>3, <3>2 DEF TypeOK
    <3>4. NoCut
      BY <1>0, <2>1, <3>2, Lengths DEF NoCut
    <3> QED BY <2>3, <3>3, <3>4, NestedStay DEF Inv
  <2>4. CASE journal' = Endow(made, c, a, v) /\ Enter(a)
    <3>1. v \in Balance
      BY ConstantsOK
    <3>2. journal' \in Grown(journal)
      BY <1>0, <2>2, <2>4, <3>1, CreateType, GrownTrans
    <3>3. TypeOK'
      BY <1>0, <2>1, <2>4, <3>2, FrameTypes DEF TypeOK, Grown
    <3>4. NoCut
      BY <1>0, <2>1, <3>2, Lengths DEF NoCut, Grown
    <3> QED BY <2>4, <3>3, <3>4, NestedEnter DEF Inv
  <2> QED BY <2>1, <2>3, <2>4
<1>3. ASSUME NEW c \in Code, NEW byOpcode \in BOOLEAN, FinishCreate(c, byOpcode) PROVE Inv'
  <2> DEFINE a    == Top.created
             F    == {"SelfDestructed", "SelfDestructLocal"}
             kept == IF byOpcode THEN journal ELSE Unmark(journal, a, F)
  <2>1. /\ FrameOpen /\ Leave /\ a # None
        /\ journal' = IF c = NoCode THEN kept ELSE DeployCode(kept, a, c)
        /\ UNCHANGED <<txid, warmList, logs, doomed>>
    BY <1>3 DEF FinishCreate
  <2>2. a \in Addr
    BY <2>1, TopBounds
  <2>3. F \in SUBSET Flag
    BY DEF Flag
  <2> HIDE DEF a, F
  <2>4. kept \in Grown(journal)
    BY <1>0, <2>2, <2>3, FieldUpdates, GrownTrans
  <2> HIDE DEF kept
  <2>5. journal' \in Grown(journal)
    BY <1>0, <2>1, <2>2, <2>4, CreateType, GrownTrans
  <2>6. TypeOK'
    BY <1>0, <2>1, <2>5, FrameTypes DEF TypeOK, Grown
  <2>7. /\ Top.journalI <= Len(journal'.entries) /\ Top.logI <= Len(logs')
        /\ Top.doomedI <= Len(doomed')
    <3>1. /\ Len(journal.entries) <= Len(journal'.entries)
          /\ Len(journal.entries) \in Nat /\ Len(journal'.entries) \in Nat
      BY <1>0, <2>5 DEF Grown, JournalRec
    <3> QED BY <2>1, <3>1, TopBounds
  <2> QED BY <2>1, <2>6, <2>7, NestedLeave DEF Inv
<1> QED BY <1>1, <1>2, <1>3 DEF LifecycleSteps

\* The invariant is inductive.
LEMMA NextInv == Inv /\ [Next]_vars => Inv'
<1> SUFFICES ASSUME Inv, [Next]_vars PROVE Inv'
  OBVIOUS
<1>1. CASE UNCHANGED vars
  BY <1>1 DEF vars, Inv, TypeOK, CheckpointsNested
<1>2. CASE Next
  BY <1>2, FrameInv, TxInv, AccountInv, StorageInv, BalanceInv, LifecycleInv DEF Next
<1> QED BY <1>1, <1>2

\* It holds of every behaviour.
LEMMA InvAlways == Spec => []Inv
BY InitInv, NextInv, PTL DEF Spec

\* Every method keeps accounts, slots, entries and checkpoints well formed: balances
\* and nonces in range, every entry with the fields its Revert reads.
THEOREM TypeCorrect == Spec => []TypeOK
<1>1. Inv => TypeOK
  BY DEF Inv
<1> QED BY <1>1, InvAlways, PTL

\* Checkpoint, CheckpointCommit and CheckpointRevert keep the frames' checkpoints
\* nested in the entries, the logs and the selfdestruct list, and Depth exact.
THEOREM CheckpointsAlwaysNested == Spec => []CheckpointsNested
<1>1. Inv => CheckpointsNested
  BY DEF Inv
<1> QED BY <1>1, InvAlways, PTL

-----------------------------------------------------------------------------
(***************************************************************************)
(* How the undo log reverts.  The journal methods are not inverted exactly *)
(* by journalRevert: loading is not undone (the account stays in the map,  *)
(* cold), and the touch of address 3 stays.  Keeps(B, j, k) says what is   *)
(* undone: the journals j and k agree on all that a transaction can        *)
(* observe, up to what a load may add; B says whether balances count too   *)
(* (transfer wraps when a balance would pass 2^256 - 1, and without a      *)
(* bound on the supply its entry does not then say what it did).           *)
(*                                                                         *)
(* Undoing one entry preserves Keeps (KeepsUndo), hence so does a revert   *)
(* to any checkpoint (KeepsRevert).  Reverts(B, j, k) says that k extends  *)
(* the log of j and reverts, at every point of it, to what j would.  Two   *)
(* lemmas then do the work of every method: a change that is kept needs no *)
(* entry (StepUnrecorded), and one that is not needs an entry that undoes  *)
(* it (StepRecorded).                                                      *)
(***************************************************************************)
\* Flags that say what happened to an account, whatever the transaction.
Lasting == {"Created", "SelfDestructed", "SelfDestructLocal", "StorageCleared"}

\* Warm, or created, in the current transaction.
WarmNow(x) == x.loaded /\ x.tx = txid /\ "Cold" \notin x.status
CreatedNow(x) == "CreatedLocal" \in x.status /\ x.tx = txid /\ "Cold" \notin x.status
SlotWarm(s) == s.loaded /\ s.tx = txid /\ ~s.cold

\* The value an SLOAD would see.
SlotValue(x, s, a, k) ==
  IF s.loaded THEN s.present
    ELSE IF "StorageCleared" \in x.status THEN 0 ELSE DBStorage[a][k]

\* The account x became y: nothing a transaction observes changed, except that it may
\* be loaded now, and warm if it was in the access list.
SameAcct(B, x, y, a) ==
  /\ B => x.bal = y.bal
  /\ x.nonce = y.nonce /\ x.code = y.code
  /\ \A f \in Lasting : f \in x.status <=> f \in y.status
  /\ a \in Sticky \/ ("Touched" \in x.status <=> "Touched" \in y.status)
  /\ CreatedNow(x) <=> CreatedNow(y)
  /\ x.loaded => y.loaded
  /\ y.loaded \/ x.status = y.status
  /\ WarmNow(x) => WarmNow(y)
  /\ WarmNow(y) => WarmNow(x) \/ IsWarm(a)

\* The same of the slot s of account x, and t of y.
SameSlot(x, y, s, t, a, k) ==
  /\ SlotValue(x, s, a, k) = SlotValue(y, t, a, k)
  /\ s.loaded => t.loaded
  /\ SlotWarm(s) => SlotWarm(t)
  /\ SlotWarm(t) => SlotWarm(s) \/ IsStorageWarm(a, k)

Keeps(B, j, k) ==
  /\ \A a \in Addr : SameAcct(B, j.acct[a], k.acct[a], a)
  /\ \A a \in Addr, q \in Key :
       SameSlot(j.acct[a], k.acct[a], j.slot[a][q], k.slot[a][q], a, q)
  /\ j.transient = k.transient

\* Replacing one account, one slot.
PutAcct(j, a, x) == [j EXCEPT !.acct[a] = x]
PutSlot(j, a, q, s) == [j EXCEPT !.slot[a][q] = s]

\* Replacing an account leaves the rest.
LEMMA PutAcctFields ==
  ASSUME NEW j \in JournalRec, NEW a \in Addr, NEW x \in Account
  PROVE  /\ PutAcct(j, a, x) \in Same(j)
         /\ PutAcct(j, a, x).acct[a] = x
         /\ \A b \in Addr : b # a => PutAcct(j, a, x).acct[b] = j.acct[b]
         /\ PutAcct(j, a, x).slot = j.slot
         /\ PutAcct(j, a, x).transient = j.transient
         /\ PutAcct(j, a, x).entries = j.entries
<1>1. PutAcct(j, a, x) \in Same(j)
  BY AcctUpdate DEF PutAcct
<1> QED BY <1>1 DEF PutAcct, JournalRec

\* Replacing a slot leaves the rest.
LEMMA PutSlotFields ==
  ASSUME NEW j \in JournalRec, NEW a \in Addr, NEW q \in Key, NEW s \in Slot
  PROVE  /\ PutSlot(j, a, q, s) \in Same(j)
         /\ PutSlot(j, a, q, s).slot[a][q] = s
         /\ \A b \in Addr, r \in Key : b # a \/ r # q => PutSlot(j, a, q, s).slot[b][r] = j.slot[b][r]
         /\ PutSlot(j, a, q, s).acct = j.acct
         /\ PutSlot(j, a, q, s).transient = j.transient
         /\ PutSlot(j, a, q, s).entries = j.entries
<1>1. PutSlot(j, a, q, s) \in Same(j)
  BY SlotUpdate DEF PutSlot
<1> QED BY <1>1 DEF PutSlot, JournalRec

\* Replacing alike accounts in alike journals leaves them alike.
LEMMA AcctStep ==
  ASSUME NEW B \in BOOLEAN, NEW j \in JournalRec, NEW k \in JournalRec, Keeps(B, j, k),
         NEW a \in Addr, NEW x \in Account, NEW y \in Account,
         SameAcct(B, x, y, a),
         "StorageCleared" \in x.status <=> "StorageCleared" \in j.acct[a].status
  PROVE  Keeps(B, PutAcct(j, a, x), PutAcct(k, a, y))
<1> DEFINE u == PutAcct(j, a, x)
           v == PutAcct(k, a, y)
<1>1. /\ u.acct[a] = x /\ v.acct[a] = y
      /\ \A b \in Addr : b # a => u.acct[b] = j.acct[b] /\ v.acct[b] = k.acct[b]
      /\ u.slot = j.slot /\ v.slot = k.slot
      /\ u.transient = j.transient /\ v.transient = k.transient
  BY PutAcctFields
<1> HIDE DEF u, v
<1>2. \A b \in Addr : SameAcct(B, u.acct[b], v.acct[b], b)
  <2>1. SUFFICES ASSUME NEW b \in Addr PROVE SameAcct(B, u.acct[b], v.acct[b], b)
    OBVIOUS
  <2>2. CASE b = a
    BY <1>1, <2>2
  <2>3. CASE b # a
    BY <1>1, <2>3 DEF Keeps
  <2> QED BY <2>2, <2>3
<1>3. ASSUME NEW b \in Addr, NEW q \in Key
      PROVE  SameSlot(u.acct[b], v.acct[b], u.slot[b][q], v.slot[b][q], b, q)
  <2>1. SameSlot(j.acct[b], k.acct[b], j.slot[b][q], k.slot[b][q], b, q)
    BY DEF Keeps
  <2>2. CASE b = a
    <3>1. SameAcct(B, j.acct[a], k.acct[a], a)
      BY DEF Keeps
    <3>2. "StorageCleared" \in Lasting
      BY DEF Lasting
    <3>3. "StorageCleared" \in y.status <=> "StorageCleared" \in k.acct[a].status
      BY <3>1, <3>2 DEF SameAcct
    <3> QED BY <1>1, <2>1, <2>2, <3>3 DEF SameSlot, SlotValue
  <2>3. CASE b # a
    BY <1>1, <2>1, <2>3
  <2> QED BY <2>2, <2>3
<1>4. u.transient = v.transient
  BY <1>1 DEF Keeps
<1>5. Keeps(B, u, v)
  BY <1>2, <1>3, <1>4 DEF Keeps
<1> QED BY <1>5 DEF u, v

\* Replacing alike slots in alike journals leaves them alike.
LEMMA SlotStep ==
  ASSUME NEW B \in BOOLEAN, NEW j \in JournalRec, NEW k \in JournalRec, Keeps(B, j, k),
         NEW a \in Addr, NEW q \in Key, NEW s \in Slot, NEW t \in Slot,
         SameSlot(j.acct[a], k.acct[a], s, t, a, q)
  PROVE  Keeps(B, PutSlot(j, a, q, s), PutSlot(k, a, q, t))
<1> DEFINE u == PutSlot(j, a, q, s)
           v == PutSlot(k, a, q, t)
<1>1. /\ u.slot[a][q] = s /\ v.slot[a][q] = t
      /\ \A b \in Addr, r \in Key : b # a \/ r # q =>
           u.slot[b][r] = j.slot[b][r] /\ v.slot[b][r] = k.slot[b][r]
      /\ u.acct = j.acct /\ v.acct = k.acct
      /\ u.transient = j.transient /\ v.transient = k.transient
  BY PutSlotFields
<1> HIDE DEF u, v
<1>3. ASSUME NEW b \in Addr, NEW r \in Key
      PROVE  SameSlot(u.acct[b], v.acct[b], u.slot[b][r], v.slot[b][r], b, r)
  <2>1. SameSlot(j.acct[b], k.acct[b], j.slot[b][r], k.slot[b][r], b, r)
    BY DEF Keeps
  <2>2. CASE b = a /\ r = q
    BY <1>1, <2>2
  <2>3. CASE b # a \/ r # q
    BY <1>1, <2>1, <2>3
  <2> QED BY <2>2, <2>3
<1>4. Keeps(B, u, v)
  BY <1>1, <1>3 DEF Keeps
<1> QED BY <1>4 DEF u, v

\* The updates of an account keep its type.
LEMMA AccountOps ==
  ASSUME NEW x \in Account
  PROVE  /\ \A F \in SUBSET Flag : /\ [x EXCEPT !.status = @ \cup F] \in Account
                                   /\ [x EXCEPT !.status = @ \ F] \in Account
         /\ \A v \in Balance : /\ [x EXCEPT !.bal = v] \in Account
                               /\ [x EXCEPT !.bal = Plus(@, v)] \in Account
                               /\ [x EXCEPT !.bal = Minus(@, v)] \in Account
         /\ \A n \in Nonce : [x EXCEPT !.nonce = n] \in Account
         /\ \A c \in Code : [x EXCEPT !.code = c] \in Account
<1>1. x.bal \in Balance
  BY DEF Account
<1>2. \A v \in Balance : Plus(x.bal, v) \in Balance /\ Minus(x.bal, v) \in Balance
  BY <1>1, WrapType
<1>3. \A v \in Balance : [x EXCEPT !.bal = v] \in Account
  BY DEF Account
<1> QED BY <1>2, <1>3 DEF Account

\* What changes both accounts of a pair alike keeps them alike.
LEMMA SameAcctOps ==
  ASSUME NEW B \in BOOLEAN, NEW x \in Account, NEW y \in Account, NEW a \in Addr,
         SameAcct(B, x, y, a)
  PROVE  /\ SameAcct(B, [x EXCEPT !.status = @ \cup {"Cold"}],
                         [y EXCEPT !.status = @ \cup {"Cold"}], a)
         /\ SameAcct(B, [x EXCEPT !.status = @ \ {"Touched"}],
                         [y EXCEPT !.status = @ \ {"Touched"}], a)
         /\ \A F \in SUBSET {"SelfDestructed", "SelfDestructLocal", "Created", "CreatedLocal"} :
               /\ SameAcct(B, [x EXCEPT !.status = @ \ F], [y EXCEPT !.status = @ \ F], a)
         /\ SameAcct(B, [x EXCEPT !.status = @ \cup {"SelfDestructed"}],
                         [y EXCEPT !.status = @ \cup {"SelfDestructed"}], a)
         /\ \A v : /\ SameAcct(B, [x EXCEPT !.bal = v], [y EXCEPT !.bal = v], a)
                   /\ SameAcct(B, [x EXCEPT !.bal = Plus(@, v)], [y EXCEPT !.bal = Plus(@, v)], a)
                   /\ SameAcct(B, [x EXCEPT !.bal = Minus(@, v)], [y EXCEPT !.bal = Minus(@, v)], a)
                   /\ SameAcct(B, [x EXCEPT !.nonce = v], [y EXCEPT !.nonce = v], a)
                   /\ SameAcct(B, [x EXCEPT !.code = v], [y EXCEPT !.code = v], a)
<1>1. /\ SameAcct(B, [x EXCEPT !.status = @ \cup {"Cold"}], [y EXCEPT !.status = @ \cup {"Cold"}], a)
      /\ SameAcct(B, [x EXCEPT !.status = @ \ {"Touched"}], [y EXCEPT !.status = @ \ {"Touched"}], a)
      /\ SameAcct(B, [x EXCEPT !.status = @ \cup {"SelfDestructed"}],
                      [y EXCEPT !.status = @ \cup {"SelfDestructed"}], a)
  BY DEF SameAcct, Account, Lasting, WarmNow, CreatedNow
<1>2. ASSUME NEW F \in SUBSET {"SelfDestructed", "SelfDestructLocal", "Created", "CreatedLocal"}
      PROVE  SameAcct(B, [x EXCEPT !.status = @ \ F], [y EXCEPT !.status = @ \ F], a)
  BY DEF SameAcct, Account, Lasting, WarmNow, CreatedNow
<1>3. ASSUME NEW v
      PROVE  /\ SameAcct(B, [x EXCEPT !.bal = v], [y EXCEPT !.bal = v], a)
             /\ SameAcct(B, [x EXCEPT !.bal = Plus(@, v)], [y EXCEPT !.bal = Plus(@, v)], a)
             /\ SameAcct(B, [x EXCEPT !.bal = Minus(@, v)], [y EXCEPT !.bal = Minus(@, v)], a)
             /\ SameAcct(B, [x EXCEPT !.nonce = v], [y EXCEPT !.nonce = v], a)
             /\ SameAcct(B, [x EXCEPT !.code = v], [y EXCEPT !.code = v], a)
  BY DEF SameAcct, Account, WarmNow, CreatedNow
<1> QED BY <1>1, <1>2, <1>3, Zenon

\* The entry names an account, and a slot, that are in the maps.
Named(j, e) ==
  /\ j.acct[e.addr].loaded
  /\ e.kind \in {"AccountDestroyed", "BalanceTransfer"} => j.acct[e.target].loaded
  /\ e.kind \in {"StorageWarmed", "StorageChanged"} => j.slot[e.addr][e.key].loaded

\* What journalRevert does to an account preserves Keeps.
LEMMA KeepsUpdates ==
  ASSUME NEW B \in BOOLEAN, NEW j \in JournalRec, NEW k \in JournalRec, Keeps(B, j, k),
         NEW a \in Addr
  PROVE  /\ Keeps(B, Mark(j, a, {"Cold"}), Mark(k, a, {"Cold"}))
         /\ Keeps(B, Unmark(j, a, {"Touched"}), Unmark(k, a, {"Touched"}))
         /\ Keeps(B, Mark(j, a, {"SelfDestructed"}), Mark(k, a, {"SelfDestructed"}))
         /\ \A F \in SUBSET {"SelfDestructed", "SelfDestructLocal", "Created", "CreatedLocal"} :
              Keeps(B, Unmark(j, a, F), Unmark(k, a, F))
         /\ \A v \in Balance : /\ Keeps(B, SetBalance(j, a, v), SetBalance(k, a, v))
                               /\ Keeps(B, Credit(j, a, v), Credit(k, a, v))
                               /\ Keeps(B, Debit(j, a, v), Debit(k, a, v))
         /\ \A n \in Nonce : Keeps(B, SetNonce(j, a, n), SetNonce(k, a, n))
         /\ \A c \in Code : Keeps(B, SetCode(j, a, c), SetCode(k, a, c))
<1> DEFINE x == j.acct[a]
           y == k.acct[a]
<1>1. x \in Account /\ y \in Account
  BY DEF JournalRec
<1>2. SameAcct(B, x, y, a)
  BY DEF Keeps
<1>3. \A u, v \in Account :
        SameAcct(B, u, v, a) /\ ("StorageCleared" \in u.status <=> "StorageCleared" \in x.status)
          => Keeps(B, PutAcct(j, a, u), PutAcct(k, a, v))
  BY AcctStep
<1>4. x.status \in SUBSET Flag /\ y.status \in SUBSET Flag
  BY <1>1 DEF Account
<1> HIDE DEF x, y
<1>5. ASSUME NEW F \in SUBSET Flag,
             SameAcct(B, [x EXCEPT !.status = @ \cup F], [y EXCEPT !.status = @ \cup F], a),
             "StorageCleared" \notin F
      PROVE  Keeps(B, Mark(j, a, F), Mark(k, a, F))
  <2>1. /\ [x EXCEPT !.status = @ \cup F] \in Account /\ [y EXCEPT !.status = @ \cup F] \in Account
        /\ "StorageCleared" \in [x EXCEPT !.status = @ \cup F].status <=> "StorageCleared" \in x.status
    BY <1>1, <1>5 DEF Account
  <2>2. Keeps(B, PutAcct(j, a, [x EXCEPT !.status = @ \cup F]),
                 PutAcct(k, a, [y EXCEPT !.status = @ \cup F]))
    BY <1>3, <1>5, <2>1, Zenon
  <2>3. /\ Mark(j, a, F) = PutAcct(j, a, [x EXCEPT !.status = @ \cup F])
        /\ Mark(k, a, F) = PutAcct(k, a, [y EXCEPT !.status = @ \cup F])
    BY Zenon DEF Mark, PutAcct, x, y
  <2> QED BY <2>2, <2>3, Zenon
<1>6. ASSUME NEW F \in SUBSET Flag,
             SameAcct(B, [x EXCEPT !.status = @ \ F], [y EXCEPT !.status = @ \ F], a),
             "StorageCleared" \notin F
      PROVE  Keeps(B, Unmark(j, a, F), Unmark(k, a, F))
  <2>1. /\ [x EXCEPT !.status = @ \ F] \in Account /\ [y EXCEPT !.status = @ \ F] \in Account
        /\ "StorageCleared" \in [x EXCEPT !.status = @ \ F].status <=> "StorageCleared" \in x.status
    BY <1>1, <1>6 DEF Account
  <2>2. Keeps(B, PutAcct(j, a, [x EXCEPT !.status = @ \ F]),
                 PutAcct(k, a, [y EXCEPT !.status = @ \ F]))
    BY <1>3, <1>6, <2>1, Zenon
  <2>3. /\ Unmark(j, a, F) = PutAcct(j, a, [x EXCEPT !.status = @ \ F])
        /\ Unmark(k, a, F) = PutAcct(k, a, [y EXCEPT !.status = @ \ F])
    BY Zenon DEF Unmark, PutAcct, x, y
  <2> QED BY <2>2, <2>3, Zenon
<1>7. ASSUME NEW v \in Balance
      PROVE  /\ Keeps(B, SetBalance(j, a, v), SetBalance(k, a, v))
             /\ Keeps(B, Credit(j, a, v), Credit(k, a, v))
             /\ Keeps(B, Debit(j, a, v), Debit(k, a, v))
  <2>1. /\ [x EXCEPT !.bal = v] \in Account /\ [y EXCEPT !.bal = v] \in Account
        /\ [x EXCEPT !.bal = v].status = x.status
        /\ [x EXCEPT !.bal = Plus(@, v)] \in Account /\ [y EXCEPT !.bal = Plus(@, v)] \in Account
        /\ [x EXCEPT !.bal = Plus(@, v)].status = x.status
        /\ [x EXCEPT !.bal = Minus(@, v)] \in Account /\ [y EXCEPT !.bal = Minus(@, v)] \in Account
        /\ [x EXCEPT !.bal = Minus(@, v)].status = x.status
    BY <1>1, AccountOps, Zenon DEF Account
  <2>2. /\ SameAcct(B, [x EXCEPT !.bal = v], [y EXCEPT !.bal = v], a)
        /\ SameAcct(B, [x EXCEPT !.bal = Plus(@, v)], [y EXCEPT !.bal = Plus(@, v)], a)
        /\ SameAcct(B, [x EXCEPT !.bal = Minus(@, v)], [y EXCEPT !.bal = Minus(@, v)], a)
    BY <1>1, <1>2, SameAcctOps, Zenon
  <2>3. /\ Keeps(B, PutAcct(j, a, [x EXCEPT !.bal = v]), PutAcct(k, a, [y EXCEPT !.bal = v]))
        /\ Keeps(B, PutAcct(j, a, [x EXCEPT !.bal = Plus(@, v)]),
                    PutAcct(k, a, [y EXCEPT !.bal = Plus(@, v)]))
        /\ Keeps(B, PutAcct(j, a, [x EXCEPT !.bal = Minus(@, v)]),
                    PutAcct(k, a, [y EXCEPT !.bal = Minus(@, v)]))
    BY <1>3, <2>1, <2>2, Zenon
  <2>4. /\ SetBalance(j, a, v) = PutAcct(j, a, [x EXCEPT !.bal = v])
        /\ SetBalance(k, a, v) = PutAcct(k, a, [y EXCEPT !.bal = v])
        /\ Credit(j, a, v) = PutAcct(j, a, [x EXCEPT !.bal = Plus(@, v)])
        /\ Credit(k, a, v) = PutAcct(k, a, [y EXCEPT !.bal = Plus(@, v)])
        /\ Debit(j, a, v) = PutAcct(j, a, [x EXCEPT !.bal = Minus(@, v)])
        /\ Debit(k, a, v) = PutAcct(k, a, [y EXCEPT !.bal = Minus(@, v)])
    BY Zenon DEF SetBalance, Credit, Debit, PutAcct, x, y
  <2> QED BY <2>3, <2>4, Zenon
<1>8. ASSUME NEW n \in Nonce PROVE Keeps(B, SetNonce(j, a, n), SetNonce(k, a, n))
  <2>1. /\ [x EXCEPT !.nonce = n] \in Account /\ [y EXCEPT !.nonce = n] \in Account
        /\ [x EXCEPT !.nonce = n].status = x.status
    BY <1>1, AccountOps, Zenon DEF Account
  <2>2. SameAcct(B, [x EXCEPT !.nonce = n], [y EXCEPT !.nonce = n], a)
    BY <1>1, <1>2, SameAcctOps, Zenon
  <2>3. Keeps(B, PutAcct(j, a, [x EXCEPT !.nonce = n]), PutAcct(k, a, [y EXCEPT !.nonce = n]))
    BY <1>3, <2>1, <2>2, Zenon
  <2>4. /\ SetNonce(j, a, n) = PutAcct(j, a, [x EXCEPT !.nonce = n])
        /\ SetNonce(k, a, n) = PutAcct(k, a, [y EXCEPT !.nonce = n])
    BY Zenon DEF SetNonce, PutAcct, x, y
  <2> QED BY <2>3, <2>4, Zenon
<1>9. ASSUME NEW c \in Code PROVE Keeps(B, SetCode(j, a, c), SetCode(k, a, c))
  <2>1. /\ [x EXCEPT !.code = c] \in Account /\ [y EXCEPT !.code = c] \in Account
        /\ [x EXCEPT !.code = c].status = x.status
    BY <1>1, AccountOps, Zenon DEF Account
  <2>2. SameAcct(B, [x EXCEPT !.code = c], [y EXCEPT !.code = c], a)
    BY <1>1, <1>2, SameAcctOps, Zenon
  <2>3. Keeps(B, PutAcct(j, a, [x EXCEPT !.code = c]), PutAcct(k, a, [y EXCEPT !.code = c]))
    BY <1>3, <2>1, <2>2, Zenon
  <2>4. /\ SetCode(j, a, c) = PutAcct(j, a, [x EXCEPT !.code = c])
        /\ SetCode(k, a, c) = PutAcct(k, a, [y EXCEPT !.code = c])
    BY Zenon DEF SetCode, PutAcct, x, y
  <2> QED BY <2>3, <2>4, Zenon
<1>10. /\ Keeps(B, Mark(j, a, {"Cold"}), Mark(k, a, {"Cold"}))
       /\ Keeps(B, Unmark(j, a, {"Touched"}), Unmark(k, a, {"Touched"}))
       /\ Keeps(B, Mark(j, a, {"SelfDestructed"}), Mark(k, a, {"SelfDestructed"}))
  <2>1. /\ {"Cold"} \in SUBSET Flag /\ {"Touched"} \in SUBSET Flag
        /\ {"SelfDestructed"} \in SUBSET Flag
    BY DEF Flag
  <2>2. /\ SameAcct(B, [x EXCEPT !.status = @ \cup {"Cold"}], [y EXCEPT !.status = @ \cup {"Cold"}], a)
        /\ SameAcct(B, [x EXCEPT !.status = @ \ {"Touched"}], [y EXCEPT !.status = @ \ {"Touched"}], a)
        /\ SameAcct(B, [x EXCEPT !.status = @ \cup {"SelfDestructed"}],
                        [y EXCEPT !.status = @ \cup {"SelfDestructed"}], a)
    BY <1>1, <1>2, SameAcctOps, Zenon
  <2> QED BY <1>5, <1>6, <2>1, <2>2, Zenon
<1>11. ASSUME NEW F \in SUBSET {"SelfDestructed", "SelfDestructLocal", "Created", "CreatedLocal"}
       PROVE  Keeps(B, Unmark(j, a, F), Unmark(k, a, F))
  <2>1. F \in SUBSET Flag /\ "StorageCleared" \notin F
    BY DEF Flag
  <2>2. SameAcct(B, [x EXCEPT !.status = @ \ F], [y EXCEPT !.status = @ \ F], a)
    BY <1>1, <1>2, SameAcctOps, Zenon
  <2> QED BY <1>6, <2>1, <2>2
<1> QED BY <1>7, <1>8, <1>9, <1>10, <1>11

\* Undoing the same entry in two journals that agree leaves them agreeing.
LEMMA KeepsUndo ==
  ASSUME NEW B \in BOOLEAN, NEW j \in JournalRec, NEW k \in JournalRec, Keeps(B, j, k),
         NEW e \in Entry, Named(j, e)
  PROVE  Keeps(B, Undo(j, e), Undo(k, e))
<1> DEFINE F4 == {"SelfDestructed", "SelfDestructLocal", "Created", "CreatedLocal"}
<1>0. e.addr \in Addr
  BY EntryFields
<1>1. CASE e.kind = "AccountWarmed"
  BY <1>0, <1>1, KeepsUpdates DEF Undo
<1>2. CASE e.kind = "AccountTouched"
  BY <1>0, <1>2, KeepsUpdates DEF Undo, UndoTouch
<1>3. CASE e.kind = "AccountDestroyed"
  <2> DEFINE F == CASE e.status = "Global"   -> {"SelfDestructed", "SelfDestructLocal"}
                    [] e.status = "Local"    -> {"SelfDestructLocal"}
                    [] e.status = "Repeated" -> {}
             j1 == Unmark(j, e.addr, F)
             k1 == Unmark(k, e.addr, F)
             j2 == Credit(j1, e.addr, e.bal)
             k2 == Credit(k1, e.addr, e.bal)
  <2>1. F \in SUBSET F4 /\ F \in SUBSET Flag /\ e.target \in Addr /\ e.bal \in Balance
    BY <1>3, EntryFields DEF Flag, RevertStatus
  <2>2. /\ Undo(j, e) = IF e.addr # e.target THEN Debit(j2, e.target, e.bal) ELSE j2
        /\ Undo(k, e) = IF e.addr # e.target THEN Debit(k2, e.target, e.bal) ELSE k2
    BY <1>3, Zenon DEF Undo, UndoDestroyed
  <2> HIDE DEF F
  <2>3. Keeps(B, j1, k1) /\ j1 \in JournalRec /\ k1 \in JournalRec
    BY <1>0, <2>1, KeepsUpdates, FieldUpdates, GrownTrans, Zenon
  <2> HIDE DEF j1, k1
  <2>4. Keeps(B, j2, k2) /\ j2 \in JournalRec /\ k2 \in JournalRec
    BY <1>0, <2>1, <2>3, KeepsUpdates, FieldUpdates, GrownTrans, Zenon
  <2> HIDE DEF j2, k2
  <2> QED BY <2>1, <2>2, <2>4, KeepsUpdates
<1>4. CASE e.kind = "BalanceChange"
  BY <1>0, <1>4, KeepsUpdates, EntryFields DEF Undo
<1>5. CASE e.kind = "BalanceTransfer"
  <2> DEFINE j1 == Credit(j, e.addr, e.bal)
             k1 == Credit(k, e.addr, e.bal)
  <2>1. e.target \in Addr /\ e.bal \in Balance
    BY <1>5, EntryFields
  <2>2. Undo(j, e) = Debit(j1, e.target, e.bal) /\ Undo(k, e) = Debit(k1, e.target, e.bal)
    BY <1>5 DEF Undo
  <2>3. Keeps(B, j1, k1) /\ j1 \in JournalRec /\ k1 \in JournalRec
    BY <1>0, <2>1, KeepsUpdates, FieldUpdates, GrownTrans, Zenon
  <2> HIDE DEF j1, k1
  <2> QED BY <2>1, <2>2, <2>3, KeepsUpdates
<1>6. CASE e.kind = "NonceChange"
  BY <1>0, <1>6, KeepsUpdates, EntryFields DEF Undo
<1>7. CASE e.kind = "AccountCreated"
  <2> DEFINE F == {"CreatedLocal"} \cup (IF e.global THEN {"Created"} ELSE {})
             j1 == Unmark(j, e.addr, F)
             k1 == Unmark(k, e.addr, F)
  <2>1. F \in SUBSET F4 /\ F \in SUBSET Flag /\ 0 \in Nonce
    BY ConstantsOK DEF Flag, Nonce
  <2>2. Undo(j, e) = SetNonce(j1, e.addr, 0) /\ Undo(k, e) = SetNonce(k1, e.addr, 0)
    BY <1>7 DEF Undo, UndoCreated
  <2> HIDE DEF F
  <2>3. Keeps(B, j1, k1) /\ j1 \in JournalRec /\ k1 \in JournalRec
    BY <1>0, <2>1, KeepsUpdates, FieldUpdates, GrownTrans
  <2> HIDE DEF j1, k1
  <2> QED BY <1>0, <2>1, <2>2, <2>3, KeepsUpdates
<1>8. CASE e.kind = "StorageWarmed"
  <2> DEFINE s == [j.slot[e.addr][e.key] EXCEPT !.cold = TRUE]
             t == [k.slot[e.addr][e.key] EXCEPT !.cold = TRUE]
  <2>1. e.key \in Key
    BY <1>8, EntryFields
  <2>2. Undo(j, e) = PutSlot(j, e.addr, e.key, s) /\ Undo(k, e) = PutSlot(k, e.addr, e.key, t)
    BY <1>8 DEF Undo, PutSlot
  <2>3. j.slot[e.addr][e.key] \in Slot /\ k.slot[e.addr][e.key] \in Slot
    BY <1>0, <2>1 DEF JournalRec
  <2>4. s \in Slot /\ t \in Slot
    BY <2>3, Zenon DEF Slot
  <2>5. SameSlot(j.acct[e.addr], k.acct[e.addr], j.slot[e.addr][e.key], k.slot[e.addr][e.key],
                 e.addr, e.key)
    BY <1>0, <2>1, Zenon DEF Keeps
  <2>6. SameSlot(j.acct[e.addr], k.acct[e.addr], s, t, e.addr, e.key)
    BY <2>3, <2>5, ZenonT(30) DEF SameSlot, SlotValue, SlotWarm, Slot
  <2> HIDE DEF s, t
  <2> QED BY <1>0, <2>1, <2>2, <2>4, <2>6, SlotStep
<1>9. CASE e.kind = "StorageChanged"
  <2> DEFINE s == [j.slot[e.addr][e.key] EXCEPT !.present = e.had]
             t == [k.slot[e.addr][e.key] EXCEPT !.present = e.had]
  <2>1. e.key \in Key /\ e.had \in Value /\ j.slot[e.addr][e.key].loaded
    BY <1>9, EntryFields DEF Named
  <2>2. Undo(j, e) = PutSlot(j, e.addr, e.key, s) /\ Undo(k, e) = PutSlot(k, e.addr, e.key, t)
    BY <1>9 DEF Undo, PutSlot
  <2>3. j.slot[e.addr][e.key] \in Slot /\ k.slot[e.addr][e.key] \in Slot
    BY <1>0, <2>1, SMTT(30) DEF JournalRec
  <2>4. s \in Slot /\ t \in Slot
    BY <2>1, <2>3, Zenon DEF Slot
  <2>5. SameSlot(j.acct[e.addr], k.acct[e.addr], j.slot[e.addr][e.key], k.slot[e.addr][e.key],
                 e.addr, e.key)
    BY <1>0, <2>1 DEF Keeps
  <2>6. SameSlot(j.acct[e.addr], k.acct[e.addr], s, t, e.addr, e.key)
    BY <2>1, <2>3, <2>5, ZenonT(30) DEF SameSlot, SlotValue, SlotWarm, Slot
  <2> HIDE DEF s, t
  <2> QED BY <1>0, <2>1, <2>2, <2>4, <2>6, SlotStep
<1>10. CASE e.kind = "TransientChange"
  <2>1. /\ Undo(j, e) = [j EXCEPT !.transient[e.addr][e.key] = e.had]
        /\ Undo(k, e) = [k EXCEPT !.transient[e.addr][e.key] = e.had]
    BY <1>10 DEF Undo
  <2> QED BY <2>1 DEF Keeps, JournalRec
<1>11. CASE e.kind = "CodeChange"
  BY <1>0, <1>11, KeepsUpdates, EntryFields DEF Undo
<1>12. CASE e.kind = "SelfdestructCleared"
  BY <1>0, <1>12, KeepsUpdates DEF Undo
<1> QED
  BY <1>1, <1>2, <1>3, <1>4, <1>5, <1>6, <1>7, <1>8, <1>9, <1>10, <1>11, <1>12, EntryFields

-----------------------------------------------------------------------------
(***************************************************************************)
(* Reverting entry by entry.                                               *)
(***************************************************************************)

WithEntries(j, es) == [j EXCEPT !.entries = es]

\* The log is independent of the rest of the journal.
LEMMA WithEntriesFields ==
  ASSUME NEW j \in JournalRec, NEW es \in Seq(Entry)
  PROVE  /\ WithEntries(j, es) \in JournalRec
         /\ WithEntries(j, es).acct = j.acct /\ WithEntries(j, es).slot = j.slot
         /\ WithEntries(j, es).transient = j.transient /\ WithEntries(j, es).entries = es
         /\ \A fs : WithEntries(WithEntries(j, es), fs) = WithEntries(j, fs)
BY Zenon DEF WithEntries, JournalRec

\* An entry is reverted alike whatever the other entries are.
LEMMA UndoWithEntries ==
  ASSUME NEW j \in JournalRec, NEW es \in Seq(Entry), NEW e \in Entry
  PROVE  Undo(WithEntries(j, es), e) = WithEntries(Undo(j, e), es)
<1> DEFINE W(i) == WithEntries(i, es)
<1>0. e.addr \in Addr
  BY EntryFields
<1>1. ASSUME NEW i \in JournalRec, NEW a \in Addr
      PROVE  /\ \A F : Mark(W(i), a, F) = W(Mark(i, a, F)) /\ Unmark(W(i), a, F) = W(Unmark(i, a, F))
             /\ \A v : /\ SetBalance(W(i), a, v) = W(SetBalance(i, a, v))
                       /\ Credit(W(i), a, v) = W(Credit(i, a, v))
                       /\ Debit(W(i), a, v) = W(Debit(i, a, v))
                       /\ SetNonce(W(i), a, v) = W(SetNonce(i, a, v))
                       /\ SetCode(W(i), a, v) = W(SetCode(i, a, v))
  <2>1. W(i).acct = i.acct
    BY WithEntriesFields
  <2> QED BY <2>1, ZenonT(60) DEF Mark, Unmark, SetBalance, Credit, Debit, SetNonce, SetCode,
                      WithEntries, JournalRec
<1>2. ASSUME NEW q \in Key
      PROVE  /\ [W(j) EXCEPT !.slot[e.addr][q].cold = TRUE]
                  = W([j EXCEPT !.slot[e.addr][q].cold = TRUE])
             /\ \A v : [W(j) EXCEPT !.slot[e.addr][q].present = v]
                         = W([j EXCEPT !.slot[e.addr][q].present = v])
             /\ \A v : [W(j) EXCEPT !.transient[e.addr][q] = v]
                         = W([j EXCEPT !.transient[e.addr][q] = v])
  BY <1>0, Zenon DEF WithEntries, JournalRec
<1>3. CASE e.kind = "AccountDestroyed"
  <2> DEFINE F == CASE e.status = "Global"   -> {"SelfDestructed", "SelfDestructLocal"}
                    [] e.status = "Local"    -> {"SelfDestructLocal"}
                    [] e.status = "Repeated" -> {}
             j1 == Unmark(j, e.addr, F)
             j2 == Credit(j1, e.addr, e.bal)
  <2>1. F \in SUBSET Flag /\ e.target \in Addr /\ e.bal \in Balance
    BY <1>3, EntryFields DEF Flag, RevertStatus
  <2>2. Undo(j, e) = IF e.addr # e.target THEN Debit(j2, e.target, e.bal) ELSE j2
    BY <1>3, Zenon DEF Undo, UndoDestroyed
  <2>3. Undo(W(j), e) = IF e.addr # e.target
                          THEN Debit(Credit(Unmark(W(j), e.addr, F), e.addr, e.bal), e.target, e.bal)
                          ELSE Credit(Unmark(W(j), e.addr, F), e.addr, e.bal)
    BY <1>3, Zenon DEF Undo, UndoDestroyed
  <2> HIDE DEF F, W
  <2>4. j1 \in JournalRec
    BY <1>0, <2>1, FieldUpdates, GrownTrans
  <2>5. Unmark(W(j), e.addr, F) = W(j1)
    BY <1>0, <1>1
  <2> HIDE DEF j1
  <2>6. j2 \in JournalRec
    BY <1>0, <2>1, <2>4, FieldUpdates, GrownTrans
  <2>7. Credit(W(j1), e.addr, e.bal) = W(j2)
    BY <1>0, <1>1, <2>4
  <2> HIDE DEF j2
  <2>8. Debit(W(j2), e.target, e.bal) = W(Debit(j2, e.target, e.bal))
    BY <1>1, <2>1, <2>6
  <2>9. Undo(W(j), e) = W(Undo(j, e))
    BY <2>2, <2>3, <2>5, <2>7, <2>8
  <2> QED BY <2>9 DEF W
<1>4. CASE e.kind = "BalanceTransfer"
  <2> DEFINE j1 == Credit(j, e.addr, e.bal)
  <2>1. e.target \in Addr /\ e.bal \in Balance
    BY <1>4, EntryFields
  <2>2. Undo(j, e) = Debit(j1, e.target, e.bal)
    BY <1>4 DEF Undo
  <2>3. Undo(W(j), e) = Debit(Credit(W(j), e.addr, e.bal), e.target, e.bal)
    BY <1>4 DEF Undo
  <2> HIDE DEF W
  <2>4. j1 \in JournalRec
    BY <1>0, <2>1, FieldUpdates, GrownTrans
  <2>5. Credit(W(j), e.addr, e.bal) = W(j1)
    BY <1>0, <1>1
  <2> HIDE DEF j1
  <2>6. Debit(W(j1), e.target, e.bal) = W(Debit(j1, e.target, e.bal))
    BY <1>1, <2>1, <2>4
  <2>7. Undo(W(j), e) = W(Undo(j, e))
    BY <2>2, <2>3, <2>5, <2>6
  <2> QED BY <2>7 DEF W
<1>5. CASE e.kind = "AccountCreated"
  <2> DEFINE F == {"CreatedLocal"} \cup (IF e.global THEN {"Created"} ELSE {})
             j1 == Unmark(j, e.addr, F)
  <2>1. F \in SUBSET Flag /\ 0 \in Nonce
    BY ConstantsOK DEF Flag, Nonce
  <2>2. Undo(j, e) = SetNonce(j1, e.addr, 0)
    BY <1>5 DEF Undo, UndoCreated
  <2>3. Undo(W(j), e) = SetNonce(Unmark(W(j), e.addr, F), e.addr, 0)
    BY <1>5 DEF Undo, UndoCreated
  <2> HIDE DEF F, W
  <2>4. j1 \in JournalRec
    BY <1>0, <2>1, FieldUpdates, GrownTrans
  <2>5. Unmark(W(j), e.addr, F) = W(j1)
    BY <1>0, <1>1
  <2> HIDE DEF j1
  <2>6. SetNonce(W(j1), e.addr, 0) = W(SetNonce(j1, e.addr, 0))
    BY <1>0, <1>1, <2>4
  <2>7. Undo(W(j), e) = W(Undo(j, e))
    BY <2>2, <2>3, <2>5, <2>6
  <2> QED BY <2>7 DEF W
<1>6. CASE e.kind \in {"StorageWarmed", "StorageChanged", "TransientChange"}
  <2>1. e.key \in Key
    BY <1>6, EntryFields
  <2> HIDE DEF W
  <2>2. Undo(W(j), e) = W(Undo(j, e))
    BY <1>2, <1>6, <2>1, ZenonT(60) DEF Undo
  <2> QED BY <2>2 DEF W
<1>7. CASE e.kind \in {"AccountWarmed", "AccountTouched", "BalanceChange", "NonceChange",
                       "CodeChange", "SelfdestructCleared"}
  <2> HIDE DEF W
  <2>2. Undo(W(j), e) = W(Undo(j, e))
    BY <1>0, <1>1, <1>7, ZenonT(60) DEF Undo, UndoTouch
  <2> QED BY <2>2 DEF W
<1> QED BY <1>3, <1>4, <1>5, <1>6, <1>7, EntryFields

\* A revert neither loads nor drops an account or a slot, and can only cool a slot.
Cools(j, u) ==
  /\ \A a \in Addr : u.acct[a].loaded = j.acct[a].loaded /\ u.acct[a].tx = j.acct[a].tx
  /\ \A a \in Addr, q \in Key :
       /\ u.slot[a][q].loaded = j.slot[a][q].loaded /\ u.slot[a][q].tx = j.slot[a][q].tx
       /\ u.slot[a][q].orig = j.slot[a][q].orig
       /\ j.slot[a][q].cold => u.slot[a][q].cold

\* Cools is a preorder.
LEMMA CoolsTrans ==
  ASSUME NEW i \in JournalRec, NEW j \in JournalRec, NEW k \in JournalRec
  PROVE  /\ Cools(i, i)
         /\ Cools(i, j) /\ Cools(j, k) => Cools(i, k)
BY DEF Cools

\* The updates of an account cool nothing but the account.
LEMMA CoolsUpdates ==
  ASSUME NEW j \in JournalRec, NEW a \in Addr
  PROVE  /\ \A F : Cools(j, Mark(j, a, F)) /\ Cools(j, Unmark(j, a, F))
         /\ \A v : /\ Cools(j, SetBalance(j, a, v)) /\ Cools(j, Credit(j, a, v))
                   /\ Cools(j, Debit(j, a, v)) /\ Cools(j, SetNonce(j, a, v))
                   /\ Cools(j, SetCode(j, a, v))
BY DEF Cools, JournalRec, Account, Slot,
       Mark, Unmark, SetBalance, Credit, Debit, SetNonce, SetCode

\* Undoing an entry only cools.
LEMMA UndoCools ==
  ASSUME NEW j \in JournalRec, NEW e \in Entry
  PROVE  Cools(j, Undo(j, e))
<1>0. e.addr \in Addr
  BY EntryFields
<1>1. Cools(j, j)
  BY CoolsTrans
<1>2. ASSUME NEW q \in Key
      PROVE  /\ Cools(j, [j EXCEPT !.slot[e.addr][q].cold = TRUE])
             /\ \A v \in Value : Cools(j, [j EXCEPT !.slot[e.addr][q].present = v])
             /\ \A v \in Value : Cools(j, [j EXCEPT !.transient[e.addr][q] = v])
  <2> DEFINE s == j.slot[e.addr][q]
  <2>1. s \in Slot
    BY <1>0, ZenonT(60) DEF JournalRec
  <2>2. ASSUME NEW t \in Slot, t.loaded = s.loaded, t.tx = s.tx, t.orig = s.orig, s.cold => t.cold
        PROVE  Cools(j, PutSlot(j, e.addr, q, t))
    <3> DEFINE u == PutSlot(j, e.addr, q, t)
    <3>1. u.acct = j.acct /\ u.slot[e.addr][q] = t
      BY <1>0, <2>2, PutSlotFields
    <3>2. \A b \in Addr, r \in Key : b # e.addr \/ r # q => u.slot[b][r] = j.slot[b][r]
      BY <1>0, <2>2, PutSlotFields
    <3> HIDE DEF u
    <3>3. ASSUME NEW b \in Addr, NEW r \in Key
          PROVE  /\ u.slot[b][r].loaded = j.slot[b][r].loaded /\ u.slot[b][r].tx = j.slot[b][r].tx
                 /\ u.slot[b][r].orig = j.slot[b][r].orig
                 /\ j.slot[b][r].cold => u.slot[b][r].cold
      <4>1. CASE b = e.addr /\ r = q
        BY <2>2, <3>1, <4>1
      <4>2. CASE b # e.addr \/ r # q
        BY <3>2, <4>2
      <4> QED BY <4>1, <4>2
    <3>4. Cools(j, u)
      BY <3>1, <3>3, Zenon DEF Cools
    <3> QED BY <3>4 DEF u
  <2>3. Cools(j, PutSlot(j, e.addr, q, [s EXCEPT !.cold = TRUE]))
    BY <2>1, <2>2, Zenon DEF Slot
  <2>4. ASSUME NEW v \in Value PROVE Cools(j, PutSlot(j, e.addr, q, [s EXCEPT !.present = v]))
    BY <2>1, <2>2 DEF Slot
  <2>5. ASSUME NEW v \in Value PROVE Cools(j, [j EXCEPT !.transient[e.addr][q] = v])
    BY <1>0 DEF Cools, JournalRec
  <2> QED BY <2>3, <2>4, <2>5, Zenon DEF PutSlot
<1>3. CASE e.kind = "AccountDestroyed"
  <2> DEFINE F == CASE e.status = "Global"   -> {"SelfDestructed", "SelfDestructLocal"}
                    [] e.status = "Local"    -> {"SelfDestructLocal"}
                    [] e.status = "Repeated" -> {}
             j1 == Unmark(j, e.addr, F)
             j2 == Credit(j1, e.addr, e.bal)
  <2>1. F \in SUBSET Flag /\ e.target \in Addr /\ e.bal \in Balance
    BY <1>3, EntryFields DEF Flag, RevertStatus
  <2>2. Undo(j, e) = IF e.addr # e.target THEN Debit(j2, e.target, e.bal) ELSE j2
    BY <1>3, Zenon DEF Undo, UndoDestroyed
  <2> HIDE DEF F
  <2>4. j1 \in JournalRec /\ Cools(j, j1)
    BY <1>0, <2>1, FieldUpdates, GrownTrans, CoolsUpdates
  <2> HIDE DEF j1
  <2>6. j2 \in JournalRec /\ Cools(j1, j2)
    BY <1>0, <2>1, <2>4, FieldUpdates, GrownTrans, CoolsUpdates, Zenon
  <2> HIDE DEF j2
  <2>7. Debit(j2, e.target, e.bal) \in JournalRec /\ Cools(j2, Debit(j2, e.target, e.bal))
    BY <2>1, <2>6, FieldUpdates, GrownTrans, CoolsUpdates
  <2> QED BY <2>2, <2>4, <2>6, <2>7, CoolsTrans
<1>4. CASE e.kind = "BalanceTransfer"
  <2> DEFINE j1 == Credit(j, e.addr, e.bal)
  <2>1. e.target \in Addr /\ e.bal \in Balance
    BY <1>4, EntryFields
  <2>2. Undo(j, e) = Debit(j1, e.target, e.bal)
    BY <1>4 DEF Undo
  <2>4. j1 \in JournalRec /\ Cools(j, j1)
    BY <1>0, <2>1, FieldUpdates, GrownTrans, CoolsUpdates
  <2> HIDE DEF j1
  <2>5. Debit(j1, e.target, e.bal) \in JournalRec /\ Cools(j1, Debit(j1, e.target, e.bal))
    BY <2>1, <2>4, FieldUpdates, GrownTrans, CoolsUpdates
  <2> QED BY <2>2, <2>4, <2>5, CoolsTrans
<1>5. CASE e.kind = "AccountCreated"
  <2> DEFINE F == {"CreatedLocal"} \cup (IF e.global THEN {"Created"} ELSE {})
             j1 == Unmark(j, e.addr, F)
  <2>1. F \in SUBSET Flag /\ 0 \in Nonce
    BY ConstantsOK DEF Flag, Nonce
  <2>2. Undo(j, e) = SetNonce(j1, e.addr, 0)
    BY <1>5 DEF Undo, UndoCreated
  <2> HIDE DEF F
  <2>4. j1 \in JournalRec /\ Cools(j, j1)
    BY <1>0, <2>1, FieldUpdates, GrownTrans, CoolsUpdates
  <2> HIDE DEF j1
  <2>5. SetNonce(j1, e.addr, 0) \in JournalRec /\ Cools(j1, SetNonce(j1, e.addr, 0))
    BY <1>0, <2>1, <2>4, FieldUpdates, GrownTrans, CoolsUpdates
  <2> QED BY <2>2, <2>4, <2>5, CoolsTrans
<1>6. CASE e.kind \in {"StorageWarmed", "StorageChanged", "TransientChange"}
  BY <1>2, <1>6, EntryFields, Zenon DEF Undo
<1>7. CASE e.kind \in {"AccountWarmed", "AccountTouched", "BalanceChange", "NonceChange",
                       "CodeChange", "SelfdestructCleared"}
  BY <1>0, <1>1, <1>7, CoolsUpdates DEF Undo, UndoTouch
<1> QED BY <1>3, <1>4, <1>5, <1>6, <1>7, EntryFields

\* The journal after its last entry has been reverted.
Last(j) == j.entries[Len(j.entries)]
Back(j) == WithEntries(Undo(j, Last(j)), SubSeq(j.entries, 1, Len(j.entries) - 1))

\* The journal with its last entry undone.
LEMMA BackType ==
  ASSUME NEW j \in JournalRec, Len(j.entries) # 0
  PROVE  /\ Back(j) \in JournalRec /\ Last(j) \in Entry
         /\ Len(Back(j).entries) = Len(j.entries) - 1
         /\ \A i \in 1 .. Len(j.entries) - 1 : Back(j).entries[i] = j.entries[i]
         /\ Back(j).acct = Undo(j, Last(j)).acct
         /\ Back(j).slot = Undo(j, Last(j)).slot
         /\ Back(j).transient = Undo(j, Last(j)).transient
<1> DEFINE n == Len(j.entries)
           es == SubSeq(j.entries, 1, n - 1)
<1>1. j.entries \in Seq(Entry) /\ n \in Nat \ {0}
  BY DEF JournalRec
<1>2. Last(j) \in Entry
  BY <1>1 DEF Last
<1>3. es \in Seq(Entry) /\ Len(es) = n - 1 /\ \A i \in 1 .. n - 1 : es[i] = j.entries[i]
  BY <1>1
<1>4. Undo(j, Last(j)) \in JournalRec
  BY <1>2, UndoType, GrownTrans
<1>5. Back(j) = WithEntries(Undo(j, Last(j)), es)
  BY DEF Back
<1> HIDE DEF es, n
<1>6. /\ Back(j) \in JournalRec /\ Back(j).entries = es
      /\ Back(j).acct = Undo(j, Last(j)).acct
      /\ Back(j).slot = Undo(j, Last(j)).slot
      /\ Back(j).transient = Undo(j, Last(j)).transient
  BY <1>3, <1>4, <1>5, WithEntriesFields
<1> QED BY <1>2, <1>3, <1>6 DEF n

\* To revert to n entries is to revert one entry, and then to revert to n.
LEMMA RevertStep ==
  ASSUME NEW j \in JournalRec
  PROVE  /\ RevertTo(j, Len(j.entries)) = j
         /\ \A n \in Nat : n < Len(j.entries) => RevertTo(j, n) = RevertTo(Back(j), n)
<1> DEFINE N == Len(j.entries)
           k == Back(j)
           U == Unwound(j)
           V == Unwound(k)
<1>1. N \in Nat /\ j.entries \in Seq(Entry)
  BY DEF JournalRec
<1>2. \A i \in 0 .. N : U[i] = IF i = 0 THEN j ELSE Undo(U[i-1], j.entries[N - i + 1])
  BY UnwoundDef
<1>3. RevertTo(j, N) = j
  <2>1. U[0] = j
    BY <1>1, <1>2
  <2>2. N - N = 0 /\ SubSeq(j.entries, 1, N) = j.entries
    BY <1>1
  <2>3. RevertTo(j, N) = [j EXCEPT !.entries = SubSeq(j.entries, 1, N)]
    BY <2>1, <2>2, Zenon DEF RevertTo
  <2> HIDE DEF N
  <2> QED BY <2>2, <2>3 DEF JournalRec
<1>4. ASSUME NEW n \in Nat, n < N PROVE RevertTo(j, n) = RevertTo(k, n)
  <2> DEFINE es == SubSeq(j.entries, 1, N - 1)
  <2>1. N # 0 /\ N - 1 \in Nat /\ es \in Seq(Entry) /\ Len(es) = N - 1
        /\ \A i \in 1 .. N - 1 : es[i] = j.entries[i]
    BY <1>1, <1>4
  <2>2. k \in JournalRec /\ k = WithEntries(Undo(j, j.entries[N]), es)
    BY <2>1, BackType DEF Back, Last
  <2>3. j.entries[N] \in Entry
    BY <1>1, <2>1
  <2>4. Undo(j, j.entries[N]) \in JournalRec
    BY <2>3, UndoType, GrownTrans
  <2> HIDE DEF k, es
  <2>5. k.entries = es /\ Len(k.entries) = N - 1
    BY <2>1, <2>2, <2>4, WithEntriesFields
  <2>6. \A i \in 0 .. N - 1 : V[i] = IF i = 0 THEN k ELSE Undo(V[i-1], es[(N - 1) - i + 1])
    BY <2>2, <2>5, UnwoundDef
  <2>7. \A i \in 0 .. N : U[i] \in JournalRec /\ U[i].entries = j.entries
    BY UnwoundType DEF Same
  <2> DEFINE S == {i \in Nat : i <= N - 1 => V[i] = WithEntries(U[i+1], es)}
  <2> HIDE DEF U, V
  <2>8. 0 \in S
    <3>1. U[1] = Undo(U[0], j.entries[N]) /\ U[0] = j
      BY <1>1, <1>2, <2>1
    <3>2. V[0] = k
      BY <2>1, <2>6
    <3> QED BY <2>2, <3>1, <3>2
  <2>9. ASSUME NEW i \in S PROVE i + 1 \in S
    <3>1. SUFFICES ASSUME i + 1 <= N - 1 PROVE V[i + 1] = WithEntries(U[i + 2], es)
      BY <1>1
    <3>2. i \in Nat /\ i <= N - 1 /\ i + 1 \in 0 .. N - 1 /\ i + 1 # 0 /\ i + 2 \in 0 .. N
          /\ i + 1 \in 0 .. N /\ i + 2 # 0
          /\ (i + 1) - 1 = i /\ (i + 2) - 1 = i + 1
          /\ (N - 1) - (i + 1) + 1 = N - 1 - i /\ N - (i + 2) + 1 = N - 1 - i
          /\ N - 1 - i \in 1 .. N - 1 /\ N - 1 - i \in 1 .. N
      BY <1>1, <3>1
    <3>3. V[i + 1] = Undo(V[i], es[N - 1 - i])
      BY <2>6, <3>2
    <3>4. U[i + 2] = Undo(U[i + 1], j.entries[N - 1 - i])
      BY <1>2, <3>2
    <3>5. V[i] = WithEntries(U[i + 1], es)
      BY <3>2
    <3>6. es[N - 1 - i] = j.entries[N - 1 - i] /\ j.entries[N - 1 - i] \in Entry
      <4> HIDE DEF N, S
      <4>1. N - 1 - i \in 1 .. N - 1 /\ N - 1 - i \in 1 .. N
        BY <3>2
      <4>2. \A p \in 1 .. N : j.entries[p] \in Entry
        BY <1>1 DEF N
      <4> QED BY <2>1, <4>1, <4>2
    <3>7. U[i + 1] \in JournalRec
      BY <2>7, <3>2
    <3> QED BY <2>1, <3>3, <3>4, <3>5, <3>6, <3>7, UndoWithEntries
  <2>10. S = Nat
    <3>1. S \in SUBSET Nat
      OBVIOUS
    <3> HIDE DEF S
    <3> QED BY <2>8, <2>9, <3>1, SetInduction
  <2>11. /\ (N - 1) - n \in Nat /\ (N - 1) - n <= N - 1
         /\ ((N - 1) - n) + 1 = N - n /\ N - n \in 0 .. N
    BY <1>1, <1>4
  <2>12. V[(N - 1) - n] = WithEntries(U[N - n], es)
    BY <2>10, <2>11, Zenon
  <2>13. RevertTo(j, n) = WithEntries(U[N - n], SubSeq(j.entries, 1, n))
    BY <2>7, <2>11, Zenon DEF RevertTo, WithEntries, U
  <2>14. RevertTo(k, n) = WithEntries(V[(N - 1) - n], SubSeq(V[(N - 1) - n].entries, 1, n))
    BY <2>1, <2>5, Zenon DEF RevertTo, WithEntries, V
  <2>15. /\ U[N - n] \in JournalRec
         /\ WithEntries(U[N - n], es).entries = es
         /\ \A fs : WithEntries(WithEntries(U[N - n], es), fs) = WithEntries(U[N - n], fs)
    BY <2>1, <2>7, <2>11, WithEntriesFields
  <2>16. SubSeq(es, 1, n) = SubSeq(j.entries, 1, n)
    BY <1>1, <1>4, <2>1 DEF es
  <2> QED BY <2>12, <2>13, <2>14, <2>15, <2>16, Zenon
<1> QED BY <1>3, <1>4

\* What a revert to n entries leaves: the first n entries, cooler accounts and slots.
\* To revert further is to have reverted at once.
LEMMA RevertFacts ==
  \A j \in JournalRec : \A n \in 0 .. Len(j.entries) :
     /\ RevertTo(j, n) \in JournalRec
     /\ Len(RevertTo(j, n).entries) = n
     /\ \A i \in 1 .. n : RevertTo(j, n).entries[i] = j.entries[i]
     /\ Cools(j, RevertTo(j, n))
     /\ \A m \in 0 .. n : RevertTo(RevertTo(j, n), m) = RevertTo(j, m)
<1> DEFINE P(j, n) ==
             /\ RevertTo(j, n) \in JournalRec
             /\ Len(RevertTo(j, n).entries) = n
             /\ \A i \in 1 .. n : RevertTo(j, n).entries[i] = j.entries[i]
             /\ Cools(j, RevertTo(j, n))
             /\ \A m \in 0 .. n : RevertTo(RevertTo(j, n), m) = RevertTo(j, m)
           S == {l \in Nat : \A j \in JournalRec : Len(j.entries) = l => \A n \in 0 .. l : P(j, n)}
<1>1. ASSUME NEW j \in JournalRec PROVE P(j, Len(j.entries))
  BY RevertStep, CoolsTrans
<1>2. 0 \in S
  <2>1. SUFFICES ASSUME NEW j \in JournalRec, Len(j.entries) = 0 PROVE P(j, 0)
    OBVIOUS
  <2> HIDE DEF P
  <2> QED BY <1>1, <2>1
<1>3. ASSUME NEW l \in S PROVE l + 1 \in S
  <2>1. SUFFICES ASSUME NEW j \in JournalRec, Len(j.entries) = l + 1, NEW n \in 0 .. (l + 1)
                 PROVE  P(j, n)
    BY <1>3, SMTT(30)
  <2>2. l \in Nat
    BY <1>3
  <2>3. CASE n = l + 1
    <3> HIDE DEF P
    <3> QED BY <1>1, <2>1, <2>3
  <2>4. CASE n # l + 1
    <3> DEFINE k == Back(j)
    <3>1. n \in 0 .. l /\ Len(j.entries) # 0 /\ n < Len(j.entries) /\ n \in Nat
          /\ Len(j.entries) - 1 = l
      BY <2>1, <2>2, <2>4
    <3>2. k \in JournalRec /\ Len(k.entries) = l /\ \A i \in 1 .. l : k.entries[i] = j.entries[i]
      BY <3>1, BackType
    <3>3. Cools(j, k)
      <4>1. Cools(j, Undo(j, Last(j)))
        BY <3>1, BackType, UndoCools
      <4> QED BY <3>1, <4>1, BackType, SMTT(30) DEF Cools
    <3>4. \A m \in 0 .. l : RevertTo(j, m) = RevertTo(k, m)
      BY <2>1, <2>2, RevertStep
    <3> HIDE DEF k
    <3>5. P(k, n)
      <4> HIDE DEF P
      <4> QED BY <1>3, <3>1, <3>2
    <3>6. RevertTo(j, n) = RevertTo(k, n)
      BY <3>1, <3>4
    <3>7. Cools(j, RevertTo(j, n))
      BY <3>2, <3>3, <3>5, <3>6, CoolsTrans
    <3>8. \A i \in 1 .. n : i \in 1 .. l
      BY <2>2, <3>1
    <3>9. \A i \in 1 .. n : RevertTo(j, n).entries[i] = j.entries[i]
      BY <3>2, <3>5, <3>6, <3>8
    <3>10. \A m \in 0 .. n : m \in 0 .. l
      BY <2>2, <3>1
    <3>11. \A m \in 0 .. n : RevertTo(RevertTo(j, n), m) = RevertTo(j, m)
      BY <3>4, <3>5, <3>6, <3>10
    <3> QED BY <3>5, <3>6, <3>7, <3>9, <3>11
  <2> QED BY <2>3, <2>4
<1>4. S = Nat
  <2>1. S \in SUBSET Nat
    OBVIOUS
  <2> HIDE DEF S
  <2> QED BY <1>2, <1>3, <2>1, SetInduction
<1>5. \A j \in JournalRec : Len(j.entries) \in Nat
  BY DEF JournalRec
<1> HIDE DEF P
<1>6. \A j \in JournalRec : \A n \in 0 .. Len(j.entries) : P(j, n)
  BY <1>4, <1>5
<1> QED BY <1>6 DEF P

\* Every entry names an account, and a slot, that are in the maps.
AllNamed(j) == \A i \in 1 .. Len(j.entries) : Named(j, j.entries[i])

\* What an entry names is still in the maps after a revert.
LEMMA NamedCools ==
  ASSUME NEW j \in JournalRec, NEW k \in JournalRec, Cools(j, k), NEW e \in Entry, Named(j, e)
  PROVE  Named(k, e)
<1>1. e.kind \in {"AccountDestroyed", "BalanceTransfer"} => e.target \in Addr
  BY EntryFields
<1>2. e.kind \in {"StorageWarmed", "StorageChanged"} => e.key \in Key
  BY EntryFields
<1> QED BY <1>1, <1>2, EntryFields, Zenon DEF Named, Cools

\* Two journals with the same entries that look alike look alike however far they are reverted.
LEMMA KeepsRevert ==
  ASSUME NEW B \in BOOLEAN
  PROVE  \A j, k \in JournalRec :
           j.entries = k.entries /\ Keeps(B, j, k) /\ AllNamed(j)
             => \A n \in 0 .. Len(j.entries) : Keeps(B, RevertTo(j, n), RevertTo(k, n))
<1> DEFINE Pair(j, k) == j.entries = k.entries /\ Keeps(B, j, k) /\ AllNamed(j)
           S == {l \in Nat : \A j, k \in JournalRec :
                    Len(j.entries) = l /\ Pair(j, k)
                      => \A n \in 0 .. l : Keeps(B, RevertTo(j, n), RevertTo(k, n))}
<1>1. ASSUME NEW j \in JournalRec, NEW k \in JournalRec, Pair(j, k)
      PROVE  Keeps(B, RevertTo(j, Len(j.entries)), RevertTo(k, Len(j.entries)))
  BY <1>1, RevertStep
<1>2. 0 \in S
  <2>1. SUFFICES ASSUME NEW j \in JournalRec, NEW k \in JournalRec, Len(j.entries) = 0, Pair(j, k)
                 PROVE  Keeps(B, RevertTo(j, 0), RevertTo(k, 0))
    OBVIOUS
  <2> HIDE DEF Pair
  <2> QED BY <1>1, <2>1
<1>3. ASSUME NEW l \in S PROVE l + 1 \in S
  <2>1. SUFFICES ASSUME NEW j \in JournalRec, NEW k \in JournalRec,
                        Len(j.entries) = l + 1, Pair(j, k), NEW n \in 0 .. (l + 1)
                 PROVE  Keeps(B, RevertTo(j, n), RevertTo(k, n))
    BY <1>3
  <2>2. l \in Nat
    BY <1>3
  <2>3. CASE n = l + 1
    <3> HIDE DEF Pair
    <3> QED BY <1>1, <2>1, <2>3
  <2>4. CASE n # l + 1
    <3> DEFINE u == Back(j)
               v == Back(k)
    <3>1. n \in 0 .. l /\ n \in Nat /\ Len(j.entries) # 0 /\ n < Len(j.entries)
          /\ Len(j.entries) - 1 = l /\ l + 1 \in 1 .. Len(j.entries)
      BY <2>1, <2>2, <2>4
    <3>2. j.entries = k.entries /\ Keeps(B, j, k) /\ AllNamed(j)
      BY <2>1
    <3>3. u \in JournalRec /\ v \in JournalRec /\ Len(u.entries) = l /\ u.entries = v.entries
          /\ Last(j) \in Entry /\ Last(k) = Last(j)
      <4>1. u.entries = SubSeq(j.entries, 1, l) /\ v.entries = SubSeq(j.entries, 1, l)
        <5>1. Undo(j, Last(j)) \in JournalRec /\ Undo(k, Last(k)) \in JournalRec
          BY <3>1, <3>2, BackType, UndoType, GrownTrans
        <5>2. SubSeq(j.entries, 1, l) \in Seq(Entry)
          BY <2>2, <3>1 DEF JournalRec
        <5>3. u = WithEntries(Undo(j, Last(j)), SubSeq(j.entries, 1, l))
              /\ v = WithEntries(Undo(k, Last(k)), SubSeq(j.entries, 1, l))
          BY <3>1, <3>2 DEF Back
        <5> HIDE DEF u, v
        <5> QED BY <5>1, <5>2, <5>3, WithEntriesFields, Zenon
      <4> QED BY <3>1, <3>2, <4>1, BackType DEF Last
    <3>4. Named(j, Last(j))
      BY <3>1, <3>2, <2>1 DEF AllNamed, Last
    <3>5. Keeps(B, u, v)
      <4>1. Keeps(B, Undo(j, Last(j)), Undo(k, Last(k)))
        BY <3>2, <3>3, <3>4, KeepsUndo
      <4> QED BY <3>1, <3>2, <4>1, BackType, Zenon DEF Keeps
    <3>6. AllNamed(u)
      <4>1. Cools(j, u)
        <5>1. Cools(j, Undo(j, Last(j)))
          BY <3>3, UndoCools
        <5> QED BY <3>1, <5>1, BackType DEF Cools
      <4>2. ASSUME NEW i \in 1 .. l PROVE Named(u, u.entries[i])
        <5>1. i \in 1 .. Len(j.entries) /\ u.entries[i] = j.entries[i]
          BY <2>1, <2>2, <3>1, BackType
        <5>2. j.entries[i] \in Entry
          BY <5>1 DEF JournalRec
        <5> HIDE DEF u
        <5> QED BY <3>2, <3>3, <4>1, <5>1, <5>2, NamedCools DEF AllNamed
      <4> QED BY <3>3, <4>2 DEF AllNamed
    <3>7. RevertTo(j, n) = RevertTo(u, n) /\ RevertTo(k, n) = RevertTo(v, n)
      BY <3>1, <3>2, RevertStep
    <3> HIDE DEF u, v
    <3> QED BY <1>3, <3>1, <3>3, <3>5, <3>6, <3>7
  <2> QED BY <2>3, <2>4
<1>4. S = Nat
  <2>1. S \in SUBSET Nat
    OBVIOUS
  <2> HIDE DEF S
  <2> QED BY <1>2, <1>3, <2>1, SetInduction
<1>5. \A j \in JournalRec : Len(j.entries) \in Nat
  BY DEF JournalRec
<1> QED BY <1>4, <1>5

-----------------------------------------------------------------------------
(***************************************************************************)
(* A method of the journal may be reverted: k has the entries of j and     *)
(* more, and reverting k to any earlier point gives what reverting j does. *)
(***************************************************************************)
Reverts(B, j, k) ==
  /\ k \in JournalRec
  /\ Len(j.entries) <= Len(k.entries)
  /\ \A i \in 1 .. Len(j.entries) : k.entries[i] = j.entries[i]
  /\ AllNamed(k)
  /\ \A n \in 0 .. Len(j.entries) : Keeps(B, RevertTo(j, n), RevertTo(k, n))

\* Keeps is a preorder.
LEMMA KeepsTrans ==
  ASSUME NEW B \in BOOLEAN, NEW i \in JournalRec, NEW j \in JournalRec, NEW k \in JournalRec
  PROVE  /\ Keeps(B, i, i)
         /\ Keeps(B, i, j) /\ Keeps(B, j, k) => Keeps(B, i, k)
<1>1. \A x, y, z, a : /\ SameAcct(B, x, x, a)
                      /\ SameAcct(B, x, y, a) /\ SameAcct(B, y, z, a) => SameAcct(B, x, z, a)
  BY DEF SameAcct
<1>2. \A x, y, z, s, t, u, a, q :
        /\ SameSlot(x, x, s, s, a, q)
        /\ SameSlot(x, y, s, t, a, q) /\ SameSlot(y, z, t, u, a, q) => SameSlot(x, z, s, u, a, q)
  BY DEF SameSlot
<1>3. Keeps(B, i, i)
  BY <1>1, <1>2 DEF Keeps
<1>4. ASSUME Keeps(B, i, j), Keeps(B, j, k) PROVE Keeps(B, i, k)
  BY <1>1, <1>2, <1>4 DEF Keeps
<1> QED BY <1>3, <1>4

\* A sequence of methods may be reverted when each may.
LEMMA RevertsTrans ==
  ASSUME NEW B \in BOOLEAN, NEW i \in JournalRec, NEW j \in JournalRec, NEW k \in JournalRec,
         Reverts(B, i, j), Reverts(B, j, k)
  PROVE  Reverts(B, i, k)
<1>1. Len(i.entries) \in Nat /\ Len(j.entries) \in Nat /\ Len(k.entries) \in Nat
  BY DEF JournalRec
<1>2. Len(i.entries) <= Len(j.entries) /\ Len(j.entries) <= Len(k.entries) /\ AllNamed(k)
  BY DEF Reverts
<1>3. ASSUME NEW n \in 1 .. Len(i.entries) PROVE k.entries[n] = i.entries[n]
  <2>1. n \in 1 .. Len(j.entries)
    BY <1>1, <1>2
  <2> QED BY <2>1 DEF Reverts
<1>4. ASSUME NEW n \in 0 .. Len(i.entries) PROVE Keeps(B, RevertTo(i, n), RevertTo(k, n))
  <2>1. n \in 0 .. Len(j.entries) /\ n \in 0 .. Len(k.entries)
    BY <1>1, <1>2
  <2>2. Keeps(B, RevertTo(i, n), RevertTo(j, n)) /\ Keeps(B, RevertTo(j, n), RevertTo(k, n))
    BY <2>1 DEF Reverts
  <2>3. RevertTo(i, n) \in JournalRec /\ RevertTo(j, n) \in JournalRec /\ RevertTo(k, n) \in JournalRec
    BY <2>1, RevertFacts
  <2> QED BY <2>2, <2>3, KeepsTrans
<1>5. Len(i.entries) <= Len(k.entries)
  BY <1>1, <1>2
<1> QED BY <1>2, <1>3, <1>4, <1>5 DEF Reverts

\* Only what Named says of the maps matters, and they only grow.
\* What an entry names stays in the maps.
LEMMA NamedKeeps ==
  ASSUME NEW B \in BOOLEAN, NEW j \in JournalRec, NEW k \in JournalRec, Keeps(B, j, k),
         NEW e \in Entry, Named(j, e)
  PROVE  Named(k, e)
<1>1. e.kind \in {"AccountDestroyed", "BalanceTransfer"} => e.target \in Addr
  BY EntryFields
<1>2. e.kind \in {"StorageWarmed", "StorageChanged"} => e.key \in Key
  BY EntryFields
<1>3. \A a \in Addr : j.acct[a].loaded => k.acct[a].loaded
  BY DEF Keeps, SameAcct
<1>4. \A a \in Addr, q \in Key : j.slot[a][q].loaded => k.slot[a][q].loaded
  BY DEF Keeps, SameSlot
<1> QED BY <1>1, <1>2, <1>3, <1>4, EntryFields DEF Named

\* An update that is not recorded.
LEMMA StepUnrecorded ==
  ASSUME NEW B \in BOOLEAN, NEW j \in JournalRec, NEW k \in JournalRec,
         j.entries = k.entries, Keeps(B, j, k), AllNamed(j)
  PROVE  Reverts(B, j, k)
<1>1. Len(j.entries) \in Nat /\ \A i \in 1 .. Len(j.entries) : j.entries[i] \in Entry
  BY DEF JournalRec
<1>2. AllNamed(k)
  BY <1>1, NamedKeeps DEF AllNamed
<1> QED BY <1>1, <1>2, KeepsRevert DEF Reverts

\* An update recorded with an entry that undoes it.
LEMMA StepRecorded ==
  ASSUME NEW B \in BOOLEAN, NEW j \in JournalRec, NEW i \in JournalRec, NEW e \in Entry,
         i.entries = j.entries, Keeps(B, j, Undo(i, e)), Named(i, e), AllNamed(j)
  PROVE  Reverts(B, j, Record(i, e))
<1> DEFINE k == Record(i, e)
           u == Back(k)
           N == Len(j.entries)
<1>1. N \in Nat /\ j.entries \in Seq(Entry)
  BY DEF JournalRec
<1>2. /\ k = WithEntries(i, Append(j.entries, e))
      /\ Append(j.entries, e) \in Seq(Entry) /\ Len(Append(j.entries, e)) = N + 1
      /\ Append(j.entries, e)[N + 1] = e
      /\ \A p \in 1 .. N : Append(j.entries, e)[p] = j.entries[p]
      /\ SubSeq(Append(j.entries, e), 1, N) = j.entries
  BY <1>1 DEF Record, WithEntries
<1>3. /\ k \in JournalRec /\ k.entries = Append(j.entries, e) /\ k.acct = i.acct /\ k.slot = i.slot
  <2> HIDE DEF k
  <2> QED BY <1>2, WithEntriesFields, Zenon
<1> HIDE DEF k, u
<1>4. Len(k.entries) = N + 1 /\ Len(k.entries) # 0 /\ Last(k) = e
  BY <1>1, <1>2, <1>3 DEF Last
<1>5. u = WithEntries(Undo(i, e), j.entries)
  <2>1. Undo(k, e) = WithEntries(Undo(i, e), Append(j.entries, e))
    BY <1>2, UndoWithEntries, Zenon
  <2>2. Undo(i, e) \in JournalRec
    BY UndoType, GrownTrans
  <2>3. u = WithEntries(Undo(k, e), j.entries)
    <3>1. Len(k.entries) - 1 = N
      BY <1>1, <1>4
    <3> QED BY <3>1, <1>2, <1>3, <1>4, Zenon DEF Back, u
  <2> DEFINE es == Append(j.entries, e)
  <2>4. es \in Seq(Entry)
    BY <1>2
  <2> HIDE DEF es
  <2>5. WithEntries(WithEntries(Undo(i, e), es), j.entries) = WithEntries(Undo(i, e), j.entries)
    BY <2>2, <2>4, WithEntriesFields
  <2> QED BY <2>1, <2>3, <2>5 DEF es
<1>6. u \in JournalRec /\ u.entries = j.entries /\ Keeps(B, j, u)
  <2>1. Undo(i, e) \in JournalRec
    BY UndoType, GrownTrans
  <2>2. /\ u \in JournalRec /\ u.entries = j.entries /\ u.acct = Undo(i, e).acct
        /\ u.slot = Undo(i, e).slot /\ u.transient = Undo(i, e).transient
    BY <1>1, <1>5, <2>1, WithEntriesFields
  <2> QED BY <2>2 DEF Keeps
<1>7. AllNamed(k)
  <2>1. Named(k, e)
    BY <1>3, Zenon DEF Named
  <2>2. ASSUME NEW p \in 1 .. N PROVE Named(k, k.entries[p])
    <3>1. j.entries[p] \in Entry /\ Named(j, j.entries[p]) /\ k.entries[p] = j.entries[p]
      BY <1>1, <1>2, <1>3 DEF AllNamed
    <3>2. Named(u, j.entries[p])
      BY <1>6, <3>1, NamedKeeps
    <3>3. Cools(i, Undo(i, e))
      BY UndoCools
    <3>4. u.acct = Undo(i, e).acct /\ u.slot = Undo(i, e).slot
      <4>1. Undo(i, e) \in JournalRec
        BY UndoType, GrownTrans
      <4> QED BY <1>1, <1>5, <4>1, WithEntriesFields
    <3>5. \A a \in Addr : u.acct[a].loaded => k.acct[a].loaded
      BY <1>3, <3>3, <3>4 DEF Cools
    <3>6. \A a \in Addr, q \in Key : u.slot[a][q].loaded => k.slot[a][q].loaded
      BY <1>3, <3>3, <3>4 DEF Cools
    <3>7. LET f == j.entries[p] IN
          /\ f.addr \in Addr
          /\ f.kind \in {"AccountDestroyed", "BalanceTransfer"} => f.target \in Addr
          /\ f.kind \in {"StorageWarmed", "StorageChanged"} => f.key \in Key
      BY <3>1, EntryFields
    <3> QED BY <3>1, <3>2, <3>5, <3>6, <3>7, ZenonT(30) DEF Named
  <2>3. k.entries[N + 1] = e
    BY <1>2, <1>3
  <2>4. \A p \in 1 .. N + 1 : p \in 1 .. N \/ p = N + 1
    BY <1>1
  <2> QED BY <1>4, <2>1, <2>2, <2>3, <2>4 DEF AllNamed
<1>8. ASSUME NEW n \in 0 .. N PROVE Keeps(B, RevertTo(j, n), RevertTo(k, n))
  <2>1. n \in Nat /\ n < Len(k.entries)
    BY <1>1, <1>4
  <2>2. RevertTo(k, n) = RevertTo(u, n)
    BY <1>3, <2>1, RevertStep DEF u
  <2> QED BY <1>6, <2>2, KeepsRevert
<1>9. \A p \in 1 .. N : k.entries[p] = j.entries[p]
  BY <1>2, <1>3
<1>10. Reverts(B, j, k)
  BY <1>1, <1>3, <1>4, <1>7, <1>8, <1>9 DEF Reverts
<1> QED BY <1>10 DEF k

-----------------------------------------------------------------------------
(***************************************************************************)
(* Two journals that differ only in whether an account is destroyed: an    *)
(* entry that undoes its first destruction makes them the same.            *)
(***************************************************************************)
DestroyMarks == {"SelfDestructed", "SelfDestructLocal"}

AlikeAcct(x, y) ==
  /\ x.loaded = y.loaded /\ x.tx = y.tx
  /\ x.bal = y.bal /\ x.nonce = y.nonce /\ x.code = y.code
  /\ \A f \in Flag \ DestroyMarks : f \in x.status <=> f \in y.status

AlikeBut(a, j, k) ==
  /\ j.slot = k.slot /\ j.transient = k.transient /\ j.entries = k.entries
  /\ AlikeAcct(j.acct[a], k.acct[a])
  /\ \A b \in Addr : b # a => j.acct[b] = k.acct[b]

\* Replacing an account in two journals that are alike.
LEMMA AlikePut ==
  ASSUME NEW j \in JournalRec, NEW k \in JournalRec, NEW a \in Addr, AlikeBut(a, j, k),
         NEW b \in Addr, NEW x \in Account, NEW y \in Account,
         IF b = a THEN AlikeAcct(x, y) ELSE x = y
  PROVE  AlikeBut(a, PutAcct(j, b, x), PutAcct(k, b, y))
<1> DEFINE u == PutAcct(j, b, x)
           v == PutAcct(k, b, y)
<1>1. /\ u.acct[b] = x /\ v.acct[b] = y
      /\ \A c \in Addr : c # b => u.acct[c] = j.acct[c] /\ v.acct[c] = k.acct[c]
      /\ u.slot = j.slot /\ v.slot = k.slot
      /\ u.transient = j.transient /\ v.transient = k.transient
      /\ u.entries = j.entries /\ v.entries = k.entries
  BY PutAcctFields
<1> HIDE DEF u, v
<1>2. AlikeBut(a, u, v)
  BY <1>1 DEF AlikeBut
<1> QED BY <1>2 DEF u, v

\* The updates of an account preserve AlikeAcct.
LEMMA AlikeOps ==
  ASSUME NEW x \in Account, NEW y \in Account, AlikeAcct(x, y)
  PROVE  /\ \A F \in SUBSET Flag :
              /\ AlikeAcct([x EXCEPT !.status = @ \cup F], [y EXCEPT !.status = @ \cup F])
              /\ AlikeAcct([x EXCEPT !.status = @ \ F], [y EXCEPT !.status = @ \ F])
         /\ \A v : /\ AlikeAcct([x EXCEPT !.bal = v], [y EXCEPT !.bal = v])
                   /\ AlikeAcct([x EXCEPT !.bal = Plus(@, v)], [y EXCEPT !.bal = Plus(@, v)])
                   /\ AlikeAcct([x EXCEPT !.bal = Minus(@, v)], [y EXCEPT !.bal = Minus(@, v)])
                   /\ AlikeAcct([x EXCEPT !.nonce = v], [y EXCEPT !.nonce = v])
                   /\ AlikeAcct([x EXCEPT !.code = v], [y EXCEPT !.code = v])
<1>1. ASSUME NEW F \in SUBSET Flag
      PROVE  /\ AlikeAcct([x EXCEPT !.status = @ \cup F], [y EXCEPT !.status = @ \cup F])
             /\ AlikeAcct([x EXCEPT !.status = @ \ F], [y EXCEPT !.status = @ \ F])
  BY DEF AlikeAcct, Account
<1>2. ASSUME NEW v
      PROVE  /\ AlikeAcct([x EXCEPT !.bal = v], [y EXCEPT !.bal = v])
             /\ AlikeAcct([x EXCEPT !.bal = Plus(@, v)], [y EXCEPT !.bal = Plus(@, v)])
             /\ AlikeAcct([x EXCEPT !.bal = Minus(@, v)], [y EXCEPT !.bal = Minus(@, v)])
             /\ AlikeAcct([x EXCEPT !.nonce = v], [y EXCEPT !.nonce = v])
             /\ AlikeAcct([x EXCEPT !.code = v], [y EXCEPT !.code = v])
  BY DEF AlikeAcct, Account
<1> QED BY <1>1, <1>2, Zenon

\* The updates journalRevert makes preserve AlikeBut.
LEMMA AlikeUpdates ==
  ASSUME NEW j \in JournalRec, NEW k \in JournalRec, NEW a \in Addr, AlikeBut(a, j, k),
         NEW b \in Addr
  PROVE  /\ \A F \in SUBSET Flag : /\ AlikeBut(a, Mark(j, b, F), Mark(k, b, F))
                                   /\ AlikeBut(a, Unmark(j, b, F), Unmark(k, b, F))
         /\ \A v \in Balance : /\ AlikeBut(a, SetBalance(j, b, v), SetBalance(k, b, v))
                               /\ AlikeBut(a, Credit(j, b, v), Credit(k, b, v))
                               /\ AlikeBut(a, Debit(j, b, v), Debit(k, b, v))
         /\ \A n \in Nonce : AlikeBut(a, SetNonce(j, b, n), SetNonce(k, b, n))
         /\ \A c \in Code : AlikeBut(a, SetCode(j, b, c), SetCode(k, b, c))
<1> DEFINE x == j.acct[b]
           y == k.acct[b]
<1>1. x \in Account /\ y \in Account
  BY DEF JournalRec
<1>2. IF b = a THEN AlikeAcct(x, y) ELSE x = y
  BY DEF AlikeBut
<1>3. ASSUME NEW u \in Account, NEW v \in Account, IF b = a THEN AlikeAcct(u, v) ELSE u = v
      PROVE  AlikeBut(a, PutAcct(j, b, u), PutAcct(k, b, v))
  BY <1>3, AlikePut
<1> HIDE DEF x, y
<1>4. ASSUME NEW F \in SUBSET Flag
      PROVE  /\ AlikeBut(a, Mark(j, b, F), Mark(k, b, F))
             /\ AlikeBut(a, Unmark(j, b, F), Unmark(k, b, F))
  <2> DEFINE u1 == [x EXCEPT !.status = @ \cup F]
             v1 == [y EXCEPT !.status = @ \cup F]
             u2 == [x EXCEPT !.status = @ \ F]
             v2 == [y EXCEPT !.status = @ \ F]
  <2>1. u1 \in Account /\ v1 \in Account /\ u2 \in Account /\ v2 \in Account
    BY <1>1, AccountOps, Zenon
  <2>2. IF b = a THEN AlikeAcct(u1, v1) /\ AlikeAcct(u2, v2) ELSE u1 = v1 /\ u2 = v2
    BY <1>1, <1>2, AlikeOps, Zenon
  <2>3. /\ Mark(j, b, F) = PutAcct(j, b, u1) /\ Mark(k, b, F) = PutAcct(k, b, v1)
        /\ Unmark(j, b, F) = PutAcct(j, b, u2) /\ Unmark(k, b, F) = PutAcct(k, b, v2)
    BY Zenon DEF Mark, Unmark, PutAcct, x, y
  <2> HIDE DEF u1, v1, u2, v2
  <2> QED BY <1>3, <2>1, <2>2, <2>3
<1>5. ASSUME NEW v \in Balance
      PROVE  /\ AlikeBut(a, SetBalance(j, b, v), SetBalance(k, b, v))
             /\ AlikeBut(a, Credit(j, b, v), Credit(k, b, v))
             /\ AlikeBut(a, Debit(j, b, v), Debit(k, b, v))
  <2> DEFINE u1 == [x EXCEPT !.bal = v]
             v1 == [y EXCEPT !.bal = v]
             u2 == [x EXCEPT !.bal = Plus(@, v)]
             v2 == [y EXCEPT !.bal = Plus(@, v)]
             u3 == [x EXCEPT !.bal = Minus(@, v)]
             v3 == [y EXCEPT !.bal = Minus(@, v)]
  <2>1. /\ u1 \in Account /\ v1 \in Account /\ u2 \in Account /\ v2 \in Account
        /\ u3 \in Account /\ v3 \in Account
    BY <1>1, AccountOps
  <2>2. IF b = a THEN AlikeAcct(u1, v1) /\ AlikeAcct(u2, v2) /\ AlikeAcct(u3, v3)
                 ELSE u1 = v1 /\ u2 = v2 /\ u3 = v3
    BY <1>1, <1>2, AlikeOps, Zenon
  <2>3. /\ SetBalance(j, b, v) = PutAcct(j, b, u1) /\ SetBalance(k, b, v) = PutAcct(k, b, v1)
        /\ Credit(j, b, v) = PutAcct(j, b, u2) /\ Credit(k, b, v) = PutAcct(k, b, v2)
        /\ Debit(j, b, v) = PutAcct(j, b, u3) /\ Debit(k, b, v) = PutAcct(k, b, v3)
    BY Zenon DEF SetBalance, Credit, Debit, PutAcct, x, y
  <2> HIDE DEF u1, v1, u2, v2, u3, v3
  <2> QED BY <1>3, <2>1, <2>2, <2>3
<1>6. ASSUME NEW n \in Nonce PROVE AlikeBut(a, SetNonce(j, b, n), SetNonce(k, b, n))
  <2> DEFINE u1 == [x EXCEPT !.nonce = n]
             v1 == [y EXCEPT !.nonce = n]
  <2>1. u1 \in Account /\ v1 \in Account
    BY <1>1, AccountOps
  <2>2. IF b = a THEN AlikeAcct(u1, v1) ELSE u1 = v1
    BY <1>1, <1>2, AlikeOps, Zenon
  <2>3. SetNonce(j, b, n) = PutAcct(j, b, u1) /\ SetNonce(k, b, n) = PutAcct(k, b, v1)
    BY Zenon DEF SetNonce, PutAcct, x, y
  <2> HIDE DEF u1, v1
  <2> QED BY <1>3, <2>1, <2>2, <2>3
<1>7. ASSUME NEW c \in Code PROVE AlikeBut(a, SetCode(j, b, c), SetCode(k, b, c))
  <2> DEFINE u1 == [x EXCEPT !.code = c]
             v1 == [y EXCEPT !.code = c]
  <2>1. u1 \in Account /\ v1 \in Account
    BY <1>1, AccountOps
  <2>2. IF b = a THEN AlikeAcct(u1, v1) ELSE u1 = v1
    BY <1>1, <1>2, AlikeOps, Zenon
  <2>3. SetCode(j, b, c) = PutAcct(j, b, u1) /\ SetCode(k, b, c) = PutAcct(k, b, v1)
    BY Zenon DEF SetCode, PutAcct, x, y
  <2> HIDE DEF u1, v1
  <2> QED BY <1>3, <2>1, <2>2, <2>3
<1> QED BY <1>4, <1>5, <1>6, <1>7

\* Alike journals without the marks are the same.
LEMMA AlikeUnmarked ==
  ASSUME NEW j \in JournalRec, NEW k \in JournalRec, NEW a \in Addr, AlikeBut(a, j, k)
  PROVE  Unmark(j, a, DestroyMarks) = Unmark(k, a, DestroyMarks)
<1> DEFINE x == [j.acct[a] EXCEPT !.status = @ \ DestroyMarks]
           y == [k.acct[a] EXCEPT !.status = @ \ DestroyMarks]
<1>1. j.acct[a] \in Account /\ k.acct[a] \in Account
  BY DEF JournalRec
<1>2. j.acct[a].status \ DestroyMarks = k.acct[a].status \ DestroyMarks
  <2>1. j.acct[a].status \in SUBSET Flag /\ k.acct[a].status \in SUBSET Flag
    BY <1>1 DEF Account
  <2>2. \A f \in Flag \ DestroyMarks : f \in j.acct[a].status <=> f \in k.acct[a].status
    BY DEF AlikeBut, AlikeAcct
  <2> QED BY <2>1, <2>2
<1>3. x = y
  BY <1>1, <1>2 DEF AlikeBut, AlikeAcct, Account
<1>4. x \in Account
  BY <1>1, AccountOps, Zenon DEF Flag, DestroyMarks
<1>5. Unmark(j, a, DestroyMarks) = PutAcct(j, a, x) /\ Unmark(k, a, DestroyMarks) = PutAcct(k, a, y)
  BY Zenon DEF Unmark, PutAcct
<1> HIDE DEF x, y
<1>6. PutAcct(j, a, x) = PutAcct(k, a, x)
  BY <1>4, Zenon DEF PutAcct, JournalRec, AlikeBut
<1> QED BY <1>3, <1>5, <1>6

\* The entry undoes the destruction of a, with both of its marks.
Destroys(e, a) == e.kind = "AccountDestroyed" /\ e.addr = a /\ e.status = "Global"

\* Undoing an entry keeps journals alike; undoing the first destruction makes them equal.
LEMMA AlikeUndo ==
  ASSUME NEW j \in JournalRec, NEW k \in JournalRec, NEW a \in Addr, AlikeBut(a, j, k),
         NEW e \in Entry
  PROVE  /\ AlikeBut(a, Undo(j, e), Undo(k, e))
         /\ Destroys(e, a) => Undo(j, e) = Undo(k, e)
<1>0. e.addr \in Addr
  BY EntryFields
<1>1. CASE e.kind = "AccountDestroyed"
  <2> DEFINE F == CASE e.status = "Global"   -> {"SelfDestructed", "SelfDestructLocal"}
                    [] e.status = "Local"    -> {"SelfDestructLocal"}
                    [] e.status = "Repeated" -> {}
             j1 == Unmark(j, e.addr, F)
             k1 == Unmark(k, e.addr, F)
             j2 == Credit(j1, e.addr, e.bal)
             k2 == Credit(k1, e.addr, e.bal)
  <2>1. F \in SUBSET Flag /\ e.target \in Addr /\ e.bal \in Balance
    BY <1>1, EntryFields DEF Flag, RevertStatus
  <2>2. /\ Undo(j, e) = IF e.addr # e.target THEN Debit(j2, e.target, e.bal) ELSE j2
        /\ Undo(k, e) = IF e.addr # e.target THEN Debit(k2, e.target, e.bal) ELSE k2
    BY <1>1, Zenon DEF Undo, UndoDestroyed
  <2>3. Destroys(e, a) => j1 = k1
    BY AlikeUnmarked DEF Destroys, DestroyMarks
  <2> HIDE DEF F
  <2>4. AlikeBut(a, j1, k1) /\ j1 \in JournalRec /\ k1 \in JournalRec
    BY <1>0, <2>1, AlikeUpdates, FieldUpdates, GrownTrans, Zenon
  <2> HIDE DEF j1, k1
  <2>5. AlikeBut(a, j2, k2) /\ j2 \in JournalRec /\ k2 \in JournalRec /\ (Destroys(e, a) => j2 = k2)
    BY <1>0, <2>1, <2>3, <2>4, AlikeUpdates, FieldUpdates, GrownTrans, Zenon
  <2> HIDE DEF j2, k2
  <2> QED BY <2>1, <2>2, <2>5, AlikeUpdates
<1>2. CASE e.kind = "BalanceTransfer"
  <2> DEFINE j1 == Credit(j, e.addr, e.bal)
             k1 == Credit(k, e.addr, e.bal)
  <2>1. e.target \in Addr /\ e.bal \in Balance
    BY <1>2, EntryFields
  <2>2. Undo(j, e) = Debit(j1, e.target, e.bal) /\ Undo(k, e) = Debit(k1, e.target, e.bal)
    BY <1>2 DEF Undo
  <2>3. AlikeBut(a, j1, k1) /\ j1 \in JournalRec /\ k1 \in JournalRec
    BY <1>0, <2>1, AlikeUpdates, FieldUpdates, GrownTrans, Zenon
  <2> HIDE DEF j1, k1
  <2> QED BY <1>2, <2>1, <2>2, <2>3, AlikeUpdates DEF Destroys
<1>3. CASE e.kind = "AccountCreated"
  <2> DEFINE F == {"CreatedLocal"} \cup (IF e.global THEN {"Created"} ELSE {})
             j1 == Unmark(j, e.addr, F)
             k1 == Unmark(k, e.addr, F)
  <2>1. F \in SUBSET Flag /\ 0 \in Nonce
    BY ConstantsOK DEF Flag, Nonce
  <2>2. Undo(j, e) = SetNonce(j1, e.addr, 0) /\ Undo(k, e) = SetNonce(k1, e.addr, 0)
    BY <1>3 DEF Undo, UndoCreated
  <2> HIDE DEF F
  <2>3. AlikeBut(a, j1, k1) /\ j1 \in JournalRec /\ k1 \in JournalRec
    BY <1>0, <2>1, AlikeUpdates, FieldUpdates, GrownTrans
  <2> HIDE DEF j1, k1
  <2> QED BY <1>0, <1>3, <2>1, <2>2, <2>3, AlikeUpdates DEF Destroys
<1>4. CASE e.kind \in {"StorageWarmed", "StorageChanged", "TransientChange"}
  <2>1. /\ Undo(j, e).acct = j.acct /\ Undo(k, e).acct = k.acct
        /\ Undo(j, e).slot = Undo(k, e).slot /\ Undo(j, e).transient = Undo(k, e).transient
        /\ Undo(j, e).entries = Undo(k, e).entries
    BY <1>4, ZenonT(60) DEF Undo, JournalRec, AlikeBut
  <2> QED BY <1>4, <2>1 DEF AlikeBut, Destroys
<1>5. CASE e.kind \in {"AccountWarmed", "AccountTouched", "SelfdestructCleared"}
  <2>1. {"Cold"} \in SUBSET Flag /\ {"Touched"} \in SUBSET Flag /\ {"SelfDestructed"} \in SUBSET Flag
    BY Zenon DEF Flag
  <2> QED BY <1>0, <1>5, <2>1, AlikeUpdates, ZenonT(60) DEF Undo, UndoTouch, Destroys
<1>6. CASE e.kind \in {"BalanceChange", "NonceChange", "CodeChange"}
  BY <1>0, <1>6, AlikeUpdates, EntryFields, ZenonT(30) DEF Undo, Destroys
<1> QED BY <1>1, <1>2, <1>3, <1>4, <1>5, <1>6, EntryFields, Zenon

\* Reverting past the destruction of a forgets whether the destruction had been cleared.
LEMMA AlikeRevert ==
  ASSUME NEW a \in Addr
  PROVE  \A j, k \in JournalRec : AlikeBut(a, j, k) =>
           \A n \in 0 .. Len(j.entries) :
             /\ AlikeBut(a, RevertTo(j, n), RevertTo(k, n))
             /\ (\E p \in n + 1 .. Len(j.entries) : Destroys(j.entries[p], a))
                  => RevertTo(j, n) = RevertTo(k, n)
<1> DEFINE P(j, k, n) ==
             /\ AlikeBut(a, RevertTo(j, n), RevertTo(k, n))
             /\ (\E p \in n + 1 .. Len(j.entries) : Destroys(j.entries[p], a))
                  => RevertTo(j, n) = RevertTo(k, n)
           S == {l \in Nat : \A j, k \in JournalRec :
                    Len(j.entries) = l /\ AlikeBut(a, j, k) => \A n \in 0 .. l : P(j, k, n)}
<1>1. ASSUME NEW j \in JournalRec, NEW k \in JournalRec, AlikeBut(a, j, k)
      PROVE  P(j, k, Len(j.entries))
  <2>1. RevertTo(j, Len(j.entries)) = j /\ RevertTo(k, Len(j.entries)) = k
    BY <1>1, RevertStep DEF AlikeBut
  <2>2. Len(j.entries) \in Nat
    BY DEF JournalRec
  <2> QED BY <1>1, <2>1, <2>2
<1>2. 0 \in S
  <2>1. SUFFICES ASSUME NEW j \in JournalRec, NEW k \in JournalRec, Len(j.entries) = 0,
                        AlikeBut(a, j, k)
                 PROVE  P(j, k, 0)
    OBVIOUS
  <2> HIDE DEF P
  <2> QED BY <1>1, <2>1
<1>3. ASSUME NEW l \in S PROVE l + 1 \in S
  <2>1. SUFFICES ASSUME NEW j \in JournalRec, NEW k \in JournalRec,
                        Len(j.entries) = l + 1, AlikeBut(a, j, k), NEW n \in 0 .. (l + 1)
                 PROVE  P(j, k, n)
    BY <1>3
  <2>2. l \in Nat
    BY <1>3
  <2>3. CASE n = l + 1
    <3> HIDE DEF P
    <3> QED BY <1>1, <2>1, <2>3
  <2>4. CASE n # l + 1
    <3> DEFINE u == Back(j)
               v == Back(k)
    <3>1. n \in 0 .. l /\ n \in Nat /\ Len(j.entries) # 0 /\ n < Len(j.entries)
          /\ Len(j.entries) - 1 = l /\ j.entries = k.entries
      BY <2>1, <2>2, <2>4 DEF AlikeBut
    <3>2. Last(j) \in Entry /\ Last(k) = Last(j)
      BY <3>1, BackType DEF Last
    <3>3. Undo(j, Last(j)) \in JournalRec /\ Undo(k, Last(j)) \in JournalRec
      BY <3>2, UndoType, GrownTrans
    <3>4. SubSeq(j.entries, 1, l) \in Seq(Entry) /\ Len(SubSeq(j.entries, 1, l)) = l
          /\ \A i \in 1 .. l : SubSeq(j.entries, 1, l)[i] = j.entries[i]
      BY <2>2, <3>1 DEF JournalRec
    <3>5. u = WithEntries(Undo(j, Last(j)), SubSeq(j.entries, 1, l))
          /\ v = WithEntries(Undo(k, Last(j)), SubSeq(j.entries, 1, l))
      BY <3>1, <3>2 DEF Back
    <3>6. /\ AlikeBut(a, Undo(j, Last(j)), Undo(k, Last(j)))
          /\ Destroys(Last(j), a) => Undo(j, Last(j)) = Undo(k, Last(j))
      BY <2>1, <3>2, AlikeUndo
    <3> DEFINE es == SubSeq(j.entries, 1, l)
    <3> HIDE DEF u, v, es
    <3>7. /\ u \in JournalRec /\ v \in JournalRec /\ u.entries = es /\ v.entries = es
          /\ AlikeBut(a, u, v) /\ (Destroys(Last(j), a) => u = v)
      <4>1. /\ es \in Seq(Entry) /\ u = WithEntries(Undo(j, Last(j)), es)
            /\ v = WithEntries(Undo(k, Last(j)), es)
        BY <3>4, <3>5 DEF es
      <4>2. /\ u \in JournalRec /\ v \in JournalRec /\ u.entries = es /\ v.entries = es
            /\ u.acct = Undo(j, Last(j)).acct /\ v.acct = Undo(k, Last(j)).acct
            /\ u.slot = Undo(j, Last(j)).slot /\ v.slot = Undo(k, Last(j)).slot
            /\ u.transient = Undo(j, Last(j)).transient /\ v.transient = Undo(k, Last(j)).transient
        BY <3>3, <4>1, WithEntriesFields
      <4>3. AlikeBut(a, u, v)
        BY <3>6, <4>2 DEF AlikeBut
      <4> QED BY <3>6, <4>1, <4>2, <4>3
    <3>8. P(u, v, n)
      <4>1. Len(u.entries) = l
        BY <3>4, <3>7 DEF es
      <4> HIDE DEF P
      <4> QED BY <1>3, <3>1, <3>7, <4>1
    <3>9. RevertTo(j, n) = RevertTo(u, n) /\ RevertTo(k, n) = RevertTo(v, n)
      BY <3>1, RevertStep DEF u, v
    <3>10. ASSUME NEW p \in n + 1 .. Len(j.entries), Destroys(j.entries[p], a)
           PROVE  RevertTo(j, n) = RevertTo(k, n)
      <4>1. CASE p = Len(j.entries)
        BY <3>7, <3>9, <3>10, <4>1 DEF Last
      <4>2. CASE p # Len(j.entries)
        <5>1. p \in n + 1 .. l /\ p \in 1 .. l
          BY <2>2, <3>1, <4>2
        <5>2. u.entries[p] = j.entries[p] /\ Len(u.entries) = l
          BY <3>4, <3>7, <5>1 DEF es
        <5> QED BY <3>8, <3>9, <3>10, <5>1, <5>2
      <4> QED BY <4>1, <4>2
    <3> QED BY <3>8, <3>9, <3>10
  <2> QED BY <2>3, <2>4
<1>4. S = Nat
  <2>1. S \in SUBSET Nat
    OBVIOUS
  <2> HIDE DEF S
  <2> QED BY <1>2, <1>3, <2>1, SetInduction
<1>5. \A j \in JournalRec : Len(j.entries) \in Nat
  BY DEF JournalRec
<1> HIDE DEF P
<1>6. \A j, k \in JournalRec : AlikeBut(a, j, k) => \A n \in 0 .. Len(j.entries) : P(j, k, n)
  BY <1>4, <1>5
<1> QED BY <1>6 DEF P

-----------------------------------------------------------------------------
(***************************************************************************)
(* The safety of the journal, for every value of the constants.            *)
(*                                                                         *)
(* First, what a step does.  Each method of the journal that a             *)
(* transaction calls leads from a sound journal to a sound one that reverts*)
(* to what the first would.  Sound is what holds of every journal a frame  *)
(* may see: of its accounts and slots (StateGood), of its slots against the*)
(* start of the transaction (ChangedWarm), of the accounts the open frames *)
(* create (FramesGood) and of the list of the doomed (ListGood).  Leads    *)
(* adds that what was done can be undone.  The lemmas Leads<Method> follow *)
(* the methods of the source; the ones before them say which account or    *)
(* slot a method replaces.                                                 *)
(*                                                                         *)
(* Then, what behaviours do.  The inductive invariant Good says            *)
(* that the journal is sound, and so is what it would be reverted to at the*)
(* checkpoint of each open frame and at the start of the transaction.  That*)
(* is why it is inductive: a method moves one journal, and what the frames *)
(* would revert to stays what it was (Reverts); a revert or a discard then *)
(* goes to a journal already known to be sound.                            *)
(*                                                                         *)
(* Good(FALSE) holds of every behaviour.  Good(TRUE), which also says that *)
(* deleted accounts are empty and that balances are reverted, needs that   *)
(* no transfer wraps: SupplyFits, an assumption on the behaviour, stands   *)
(* for the supply of ether being far below 2^256.                          *)
(***************************************************************************)

(***************************************************************************)
(* What holds of the accounts and the slots of a journal.                  *)
(***************************************************************************)
Marked(x) == "SelfDestructed" \in x.status
Doomed(x) == "SelfDestructLocal" \in x.status
Cleared(x) == "StorageCleared" \in x.status

AcctGood(B, x, a) ==
  /\ ~x.loaded => x.status = {}
  /\ Doomed(x) => /\ Marked(x) /\ WarmNow(x)
                  /\ x.code # NoCode \/ CreatedNow(x)
                  /\ Cancun => CreatedNow(x)
  /\ CreatedNow(x) => /\ "Created" \in x.status
                      /\ SpuriousDragon => x.nonce # 0
                      /\ Marked(x) => Doomed(x)
  /\ Marked(x) /\ ~Doomed(x) =>
       (B => x.bal = 0) /\ x.nonce = 0 /\ x.code = NoCode /\ Cleared(x)
  /\ "Created" \in x.status => Cleared(x) \/ \A q \in Key : DBStorage[a][q] = 0

\* An account whose storage was cleared and that has not been created again.
Vacant(x) ==
  /\ Cleared(x) /\ x.code = NoCode /\ x.nonce = 0
  /\ SpuriousDragon \/ "Created" \notin x.status

ValueIn(s, a, q) == SlotValue(s.acct[a], s.slot[a][q], a, q)

StateGood(B, s) ==
  /\ \A a \in Addr : AcctGood(B, s.acct[a], a)
  /\ \A a \in Addr : Vacant(s.acct[a]) => \A q \in Key : ValueIn(s, a, q) = 0

\* Only a slot that is warm differs from what it was when the transaction began.
ChangedWarm(r, s) ==
  \A a \in Addr, q \in Key : ValueIn(s, a, q) # ValueIn(r, a, q) => SlotWarm(s.slot[a][q])

DestroyedIn(s, c) ==
  \E p \in c.journalI + 1 .. Len(s.entries) :
    LET e == s.entries[p]
    IN  e.kind = "AccountDestroyed" /\ e.addr = c.created /\ e.status = "Global"

\* The account a frame creates is one of this transaction, and was doomed in the frame if
\* it is doomed.
FramesGood(s, C) ==
  \A c \in C : c.created # None =>
    /\ CreatedNow(s.acct[c.created])
    /\ Doomed(s.acct[c.created]) => DestroyedIn(s, c)

ListGood(s, D) == \A a \in Addr : Doomed(s.acct[a]) => a \in D

Sound(B, r, s, D, C) ==
  StateGood(B, s) /\ ChangedWarm(r, s) /\ FramesGood(s, C) /\ ListGood(s, D)

\* The original values, and no transaction of the future.
Current(r, s) ==
  /\ \A a \in Addr : s.acct[a].tx <= txid
  /\ \A a \in Addr, q \in Key :
       /\ s.slot[a][q].tx <= txid
       /\ SlotWarm(s.slot[a][q]) => s.slot[a][q].orig = ValueIn(r, a, q)

\* From the journal i, methods that can be reverted have led to k, which is sound.
Leads(B, r, D, C, i, k) ==
  /\ Reverts(B, i, k)
  /\ Sound(B, r, k, D, C) /\ Current(r, k)

\* The marks that only an entry removes.
LEMMA FlagsLast ==
  /\ "Created" \in Lasting /\ "SelfDestructed" \in Lasting
  /\ "SelfDestructLocal" \in Lasting /\ "StorageCleared" \in Lasting
BY DEF Lasting

\* What looks alike is sound alike.
LEMMA SoundKeeps ==
  ASSUME NEW B \in BOOLEAN, NEW r \in JournalRec, NEW u \in JournalRec, NEW j \in JournalRec,
         NEW k \in JournalRec, NEW D, NEW C \in SUBSET Checkpoint,
         Keeps(B, r, u), Keeps(B, j, k), Sound(B, r, j, D, C),
         Len(k.entries) = Len(j.entries),
         \A p \in 1 .. Len(j.entries) : k.entries[p] = j.entries[p]
  PROVE  Sound(B, u, k, D, C)
<1>0. ASSUME NEW a \in Addr
      PROVE  LET x == j.acct[a]
                 y == k.acct[a]
             IN  /\ SameAcct(B, x, y, a)
                 /\ Marked(x) <=> Marked(y)
                 /\ Doomed(x) <=> Doomed(y)
                 /\ Cleared(x) <=> Cleared(y)
                 /\ "Created" \in x.status <=> "Created" \in y.status
                 /\ CreatedNow(x) <=> CreatedNow(y)
                 /\ x.loaded => y.loaded
                 /\ WarmNow(x) => WarmNow(y)
                 /\ x.code = y.code /\ x.nonce = y.nonce /\ (B => x.bal = y.bal)
  BY FlagsLast DEF Keeps, SameAcct, Marked, Doomed, Cleared
<1>1. ASSUME NEW a \in Addr, NEW q \in Key
      PROVE  /\ ValueIn(k, a, q) = ValueIn(j, a, q)
             /\ ValueIn(u, a, q) = ValueIn(r, a, q)
             /\ SlotWarm(j.slot[a][q]) => SlotWarm(k.slot[a][q])
  BY DEF Keeps, SameSlot, ValueIn
<1>2. StateGood(B, k)
  <2>1. ASSUME NEW a \in Addr PROVE AcctGood(B, k.acct[a], a)
    <3>1. AcctGood(B, j.acct[a], a)
      BY DEF Sound, StateGood
    <3>2. ~k.acct[a].loaded => k.acct[a].status = {}
      BY <1>0, <3>1 DEF AcctGood, SameAcct
    <3> QED BY <1>0, <3>1, <3>2 DEF AcctGood
  <2>2. ASSUME NEW a \in Addr, Vacant(k.acct[a]), NEW q \in Key PROVE ValueIn(k, a, q) = 0
    <3>1. Vacant(j.acct[a])
      BY <1>0, <2>2 DEF Vacant
    <3> QED BY <1>1, <3>1 DEF Sound, StateGood
  <2> QED BY <2>1, <2>2 DEF StateGood
<1>3. ChangedWarm(u, k)
  BY <1>1 DEF Sound, ChangedWarm
<1>4. ListGood(k, D)
  BY <1>0 DEF Sound, ListGood
<1>5. FramesGood(k, C)
  <2>1. ASSUME NEW c \in C, c.created # None
        PROVE  CreatedNow(k.acct[c.created]) /\ (Doomed(k.acct[c.created]) => DestroyedIn(k, c))
    <3>1. c.created \in Addr /\ c.journalI \in Nat
      BY <2>1 DEF Checkpoint
    <3>2. /\ CreatedNow(j.acct[c.created])
          /\ Doomed(j.acct[c.created]) => DestroyedIn(j, c)
      BY <2>1 DEF Sound, FramesGood
    <3>3. Len(j.entries) \in Nat
      BY DEF JournalRec
    <3>4. \A p \in c.journalI + 1 .. Len(j.entries) : p \in 1 .. Len(j.entries)
      BY <3>1, <3>3
    <3>5. DestroyedIn(j, c) => DestroyedIn(k, c)
      BY <3>4 DEF DestroyedIn
    <3> QED BY <1>0, <3>1, <3>2, <3>5
  <2> QED BY <2>1 DEF FramesGood
<1> QED BY <1>2, <1>3, <1>4, <1>5 DEF Sound

\* A frame's creation that was destroyed stays so when entries are added.
LEMMA DestroyedGrows ==
  ASSUME NEW B \in BOOLEAN, NEW j \in JournalRec, NEW k \in JournalRec, Reverts(B, j, k),
         NEW c \in Checkpoint, DestroyedIn(j, c)
  PROVE  DestroyedIn(k, c)
<1>1. Len(j.entries) \in Nat /\ Len(k.entries) \in Nat /\ c.journalI \in Nat
  BY DEF JournalRec, Checkpoint
<1>2. \A p \in c.journalI + 1 .. Len(j.entries) :
        p \in 1 .. Len(j.entries) /\ p \in c.journalI + 1 .. Len(k.entries)
  BY <1>1 DEF Reverts
<1> QED BY <1>2 DEF DestroyedIn, Reverts

\* What the accounts of k owe those of j when no slot has changed.
AcctsFollow(B, j, k, D, E, C) ==
  /\ \A b \in Addr :
       LET x == j.acct[b]
           y == k.acct[b]
       IN  /\ AcctGood(B, y, b)
           /\ Cleared(y) <=> Cleared(x)
           /\ Vacant(y) => Vacant(x)
           /\ y.tx <= txid
           /\ CreatedNow(x) => CreatedNow(y)
           /\ Doomed(y) => \/ Doomed(x)
                           \/ b \in E /\ \A c \in C : c.created = b => DestroyedIn(k, c)
  /\ \A d \in D : d \in E
  /\ \A c \in C : DestroyedIn(j, c) => DestroyedIn(k, c)

\* Soundness after accounts were replaced, when the slots are as they were.
LEMMA SoundAccts ==
  ASSUME NEW B \in BOOLEAN, NEW r \in JournalRec, NEW j \in JournalRec, NEW k \in JournalRec,
         NEW D, NEW E, NEW C \in SUBSET Checkpoint,
         Sound(B, r, j, D, C), Current(r, j), k.slot = j.slot, AcctsFollow(B, j, k, D, E, C)
  PROVE  Sound(B, r, k, E, C) /\ Current(r, k)
<1>1. ASSUME NEW b \in Addr, NEW q \in Key PROVE ValueIn(k, b, q) = ValueIn(j, b, q)
  BY DEF ValueIn, SlotValue, Cleared, AcctsFollow
<1>2. StateGood(B, k)
  BY <1>1 DEF Sound, StateGood, AcctsFollow
<1>3. ChangedWarm(r, k)
  BY <1>1 DEF Sound, ChangedWarm
<1>4. ListGood(k, E)
  BY DEF Sound, ListGood, AcctsFollow
<1>5. FramesGood(k, C)
  <2>1. ASSUME NEW c \in C, c.created # None
        PROVE  CreatedNow(k.acct[c.created]) /\ (Doomed(k.acct[c.created]) => DestroyedIn(k, c))
    <3>1. c.created \in Addr
      BY <2>1 DEF Checkpoint
    <3>2. /\ CreatedNow(j.acct[c.created])
          /\ Doomed(j.acct[c.created]) => DestroyedIn(j, c)
      BY <2>1 DEF Sound, FramesGood
    <3> QED BY <3>1, <3>2 DEF AcctsFollow
  <2> QED BY <2>1 DEF FramesGood
<1>6. Current(r, k)
  BY DEF Current, AcctsFollow
<1> QED BY <1>2, <1>3, <1>4, <1>5, <1>6 DEF Sound

\* A method that changes one account.
LEMMA LeadsAcct ==
  ASSUME NEW B \in BOOLEAN, NEW r \in JournalRec, NEW i \in JournalRec, NEW j \in JournalRec,
         NEW k \in JournalRec, NEW D, NEW E, NEW C \in SUBSET Checkpoint, NEW a \in Addr,
         Leads(B, r, D, C, i, j), Reverts(B, j, k),
         \A b \in Addr : b # a => k.acct[b] = j.acct[b],
         k.slot = j.slot,
         AcctGood(B, k.acct[a], a),
         Cleared(k.acct[a]) <=> Cleared(j.acct[a]),
         Vacant(k.acct[a]) => Vacant(j.acct[a]),
         k.acct[a].tx <= txid,
         CreatedNow(j.acct[a]) => CreatedNow(k.acct[a]),
         \A d \in D : d \in E,
         Doomed(k.acct[a]) => \/ Doomed(j.acct[a])
                              \/ a \in E /\ \A c \in C : c.created = a => DestroyedIn(k, c)
  PROVE  Leads(B, r, E, C, i, k)
<1>0. Sound(B, r, j, D, C) /\ Current(r, j) /\ Reverts(B, i, j)
  BY DEF Leads
<1>1. \A c \in C : DestroyedIn(j, c) => DestroyedIn(k, c)
  BY DestroyedGrows
<1>2. \A b \in Addr : AcctGood(B, j.acct[b], b) /\ j.acct[b].tx <= txid
  BY <1>0 DEF Sound, StateGood, Current
<1>3. AcctsFollow(B, j, k, D, E, C)
  BY <1>1, <1>2 DEF AcctsFollow
<1>4. Sound(B, r, k, E, C) /\ Current(r, k)
  BY <1>0, <1>3, SoundAccts
<1>5. Reverts(B, i, k)
  BY <1>0, RevertsTrans
<1> QED BY <1>4, <1>5 DEF Leads

\* A method that warms a slot or writes a warm one.
LEMMA LeadsSlot ==
  ASSUME NEW B \in BOOLEAN, NEW r \in JournalRec, NEW i \in JournalRec, NEW j \in JournalRec,
         NEW k \in JournalRec, NEW D, NEW C \in SUBSET Checkpoint, NEW a \in Addr, NEW q \in Key,
         Leads(B, r, D, C, i, j), Reverts(B, j, k),
         k.acct = j.acct,
         \A b \in Addr, p \in Key : b # a \/ p # q => k.slot[b][p] = j.slot[b][p],
         SlotWarm(k.slot[a][q]), k.slot[a][q].tx <= txid,
         k.slot[a][q].orig = ValueIn(r, a, q),
         ValueIn(k, a, q) = ValueIn(j, a, q) \/ ~Vacant(j.acct[a])
  PROVE  Leads(B, r, D, C, i, k)
<1>0. Sound(B, r, j, D, C) /\ Current(r, j) /\ Reverts(B, i, j)
  BY DEF Leads
<1>1. ASSUME NEW b \in Addr, NEW p \in Key, b # a \/ p # q
      PROVE  ValueIn(k, b, p) = ValueIn(j, b, p)
  BY <1>1 DEF ValueIn
<1>2. StateGood(B, k)
  BY <1>0, <1>1 DEF Sound, StateGood
<1>3. ChangedWarm(r, k)
  BY <1>0, <1>1 DEF Sound, ChangedWarm
<1>4. ListGood(k, D)
  BY <1>0 DEF Sound, ListGood
<1>5. FramesGood(k, C)
  <2>1. ASSUME NEW c \in C, c.created # None
        PROVE  CreatedNow(k.acct[c.created]) /\ (Doomed(k.acct[c.created]) => DestroyedIn(k, c))
    <3>1. c \in Checkpoint /\ c.created \in Addr
      BY <2>1 DEF Checkpoint
    <3>2. /\ CreatedNow(j.acct[c.created])
          /\ Doomed(j.acct[c.created]) => DestroyedIn(j, c)
      BY <1>0, <2>1 DEF Sound, FramesGood
    <3>3. DestroyedIn(j, c) => DestroyedIn(k, c)
      BY <3>1, DestroyedGrows
    <3> QED BY <3>1, <3>2, <3>3
  <2> QED BY <2>1 DEF FramesGood
<1>6. Current(r, k)
  BY <1>0 DEF Current
<1>7. Reverts(B, i, k)
  BY <1>0, RevertsTrans
<1> QED BY <1>2, <1>3, <1>4, <1>5, <1>6, <1>7 DEF Leads, Sound

-----------------------------------------------------------------------------
(***************************************************************************)
(* Updates of one account.                                                 *)
(***************************************************************************)
\* k is j with the account a replaced by y, and perhaps more entries.
Puts(j, k, a, y) ==
  /\ k \in JournalRec
  /\ k.acct[a] = y
  /\ \A b \in Addr : b # a => k.acct[b] = j.acct[b]
  /\ k.slot = j.slot
  /\ k.transient = j.transient

\* A second update of an account replaces the first.
LEMMA PutTwice ==
  ASSUME NEW j \in JournalRec, NEW a \in Addr, NEW y \in Account
  PROVE  /\ PutAcct(j, a, j.acct[a]) = j
         /\ \A z : PutAcct(PutAcct(j, a, y), a, z) = PutAcct(j, a, z)
         /\ \A F : /\ Mark(PutAcct(j, a, y), a, F) = PutAcct(j, a, [y EXCEPT !.status = @ \cup F])
                   /\ Unmark(PutAcct(j, a, y), a, F) = PutAcct(j, a, [y EXCEPT !.status = @ \ F])
         /\ \A v : /\ SetBalance(PutAcct(j, a, y), a, v) = PutAcct(j, a, [y EXCEPT !.bal = v])
                   /\ Credit(PutAcct(j, a, y), a, v) = PutAcct(j, a, [y EXCEPT !.bal = Plus(@, v)])
                   /\ Debit(PutAcct(j, a, y), a, v) = PutAcct(j, a, [y EXCEPT !.bal = Minus(@, v)])
                   /\ SetNonce(PutAcct(j, a, y), a, v) = PutAcct(j, a, [y EXCEPT !.nonce = v])
                   /\ SetCode(PutAcct(j, a, y), a, v) = PutAcct(j, a, [y EXCEPT !.code = v])
BY ZenonT(60) DEF Mark, Unmark, SetBalance, Credit, Debit, SetNonce, SetCode, PutAcct, JournalRec

\* One account replaced by one that looks the same keeps the look of the journal.
LEMMA KeepsPut ==
  ASSUME NEW B \in BOOLEAN, NEW j \in JournalRec, NEW a \in Addr, NEW z \in Account,
         SameAcct(B, j.acct[a], z, a), Cleared(z) <=> Cleared(j.acct[a])
  PROVE  Keeps(B, j, PutAcct(j, a, z))
<1>1. Keeps(B, j, j) /\ j.acct[a] \in Account /\ PutAcct(j, a, j.acct[a]) = j
  BY KeepsTrans, PutTwice, Zenon DEF JournalRec
<1>2. SameAcct(B, j.acct[a], j.acct[a], a)
  BY DEF SameAcct
<1>3. Keeps(B, PutAcct(j, a, j.acct[a]), PutAcct(j, a, z))
  BY <1>1, AcctStep DEF Cleared
<1> QED BY <1>1, <1>3

\* An account replaced by one that shows the same needs no entry (StepUnrecorded).
LEMMA UnrecordedAcct ==
  ASSUME NEW B \in BOOLEAN, NEW j \in JournalRec, AllNamed(j), NEW a \in Addr, NEW y \in Account,
         SameAcct(B, j.acct[a], y, a), Cleared(y) <=> Cleared(j.acct[a])
  PROVE  Reverts(B, j, PutAcct(j, a, y)) /\ Puts(j, PutAcct(j, a, y), a, y)
<1>1. Keeps(B, j, PutAcct(j, a, y))
  BY KeepsPut
<1>2. Puts(j, PutAcct(j, a, y), a, y) /\ PutAcct(j, a, y).entries = j.entries
  BY PutAcctFields, GrownTrans DEF Puts
<1> QED BY <1>1, <1>2, StepUnrecorded DEF Puts

\* Record adds an entry and changes nothing else.
LEMMA RecordFields ==
  ASSUME NEW j \in JournalRec, NEW e \in Entry
  PROVE  /\ Record(j, e) \in JournalRec
         /\ Record(j, e).acct = j.acct /\ Record(j, e).slot = j.slot
         /\ Record(j, e).transient = j.transient
         /\ Record(j, e).entries = Append(j.entries, e)
         /\ Len(Record(j, e).entries) = Len(j.entries) + 1
         /\ Record(j, e).entries[Len(j.entries) + 1] = e
<1> DEFINE es == Append(j.entries, e)
<1>1. es \in Seq(Entry) /\ Len(es) = Len(j.entries) + 1 /\ es[Len(j.entries) + 1] = e
  BY DEF JournalRec
<1>2. Record(j, e) = WithEntries(j, es)
  BY DEF Record, WithEntries
<1> HIDE DEF es
<1>3. /\ Record(j, e) \in JournalRec /\ Record(j, e).entries = es
      /\ Record(j, e).acct = j.acct /\ Record(j, e).slot = j.slot
      /\ Record(j, e).transient = j.transient
  BY <1>1, <1>2, WithEntriesFields
<1> QED BY <1>1, <1>3 DEF es

\* One that does not show the same needs an entry that undoes it (StepRecorded).
LEMMA RecordedAcct ==
  ASSUME NEW B \in BOOLEAN, NEW j \in JournalRec, AllNamed(j), NEW a \in Addr,
         NEW y \in Account, NEW z \in Account, NEW e \in Entry,
         e.addr = a, y.loaded,
         e.kind \notin {"AccountDestroyed", "BalanceTransfer", "StorageWarmed", "StorageChanged"},
         Undo(PutAcct(j, a, y), e) = PutAcct(j, a, z),
         SameAcct(B, j.acct[a], z, a), Cleared(z) <=> Cleared(j.acct[a])
  PROVE  LET k == Record(PutAcct(j, a, y), e)
         IN  Reverts(B, j, k) /\ Puts(j, k, a, y)
<1> DEFINE i == PutAcct(j, a, y)
           k == Record(i, e)
<1>1. Keeps(B, j, Undo(i, e))
  BY KeepsPut
<1>2. Puts(j, i, a, y) /\ i.entries = j.entries
  BY PutAcctFields, GrownTrans DEF Puts
<1>3. Named(i, e)
  BY <1>2 DEF Puts, Named
<1> HIDE DEF i
<1>4. Reverts(B, j, k)
  BY <1>1, <1>2, <1>3, StepRecorded DEF Puts
<1>5. Puts(j, k, a, y)
  BY <1>2, RecordFields DEF Puts
<1> QED BY <1>4, <1>5 DEF i

\* An update written after the entry is the update written before it.
LEMMA RecordCommutes ==
  ASSUME NEW j \in JournalRec, NEW a \in Addr, NEW e
  PROVE  /\ \A F : /\ Mark(Record(j, e), a, F) = Record(Mark(j, a, F), e)
                   /\ Unmark(Record(j, e), a, F) = Record(Unmark(j, a, F), e)
         /\ \A v : /\ SetNonce(Record(j, e), a, v) = Record(SetNonce(j, a, v), e)
                   /\ SetCode(Record(j, e), a, v) = Record(SetCode(j, a, v), e)
BY Zenon DEF Record, Mark, Unmark, SetNonce, SetCode, JournalRec

-----------------------------------------------------------------------------
(***************************************************************************)
(* The methods, one by one.                                                *)
(***************************************************************************)
\* y is the account x once it has been loaded in this transaction.
LoadedAs(x, y) ==
  /\ y \in Account
  /\ WarmNow(y)
  /\ y.bal = x.bal /\ y.nonce = x.nonce /\ y.code = x.code
  /\ \A f \in Lasting \cup {"Touched"} : f \in y.status <=> f \in x.status
  /\ CreatedNow(y) <=> CreatedNow(x)
  /\ x.loaded /\ x.tx = txid /\ "Cold" \notin x.status => y = x

\* LoadAccountMutOptionalCode: a load is undone by cooling the account.
LEMMA LeadsLoad ==
  ASSUME NEW B \in BOOLEAN, NEW r \in JournalRec, NEW i \in JournalRec, NEW j \in JournalRec,
         NEW D, NEW C \in SUBSET Checkpoint, NEW a \in Addr, txid \in Nat,
         Leads(B, r, D, C, i, j)
  PROVE  LET k == Load(j, a)
         IN  /\ Leads(B, r, D, C, i, k)
             /\ Puts(j, k, a, k.acct[a]) /\ LoadedAs(j.acct[a], k.acct[a])
<1> DEFINE x == j.acct[a]
           e == AccountWarmed(a)
           Good(k) == /\ Leads(B, r, D, C, i, k)
                      /\ Puts(j, k, a, k.acct[a]) /\ LoadedAs(x, k.acct[a])
<1>1. x \in Account /\ x.status \in SUBSET Flag
  BY DEF JournalRec, Account
<1>2. AllNamed(j) /\ Sound(B, r, j, D, C) /\ Current(r, j)
  BY DEF Leads, Reverts
<1>3. AcctGood(B, x, a)
  BY <1>2 DEF Sound, StateGood
<1>4. e \in Entry /\ e.addr = a /\ e.kind = "AccountWarmed"
  BY DEF AccountWarmed, Entry
<1> HIDE DEF e
<1>5. ASSUME NEW y \in Account, NEW k \in JournalRec, Reverts(B, j, k), Puts(j, k, a, y),
             LoadedAs(x, y), y.tx = txid, Doomed(y) => Doomed(x)
      PROVE  Good(k)
  <2>1. Cleared(y) <=> Cleared(x)
    BY <1>5 DEF LoadedAs, Cleared, Lasting
  <2>2. Vacant(y) => Vacant(x)
    BY <1>5 DEF LoadedAs, Vacant, Cleared, Lasting
  <2>3. AcctGood(B, y, a)
    BY <1>3, <1>5 DEF AcctGood, LoadedAs, WarmNow, Marked, Doomed, Cleared, Lasting
  <2>4. CreatedNow(x) => CreatedNow(y)
    BY <1>5 DEF LoadedAs
  <2> HIDE DEF x
  <2>5. Leads(B, r, D, C, i, k)
    BY <1>5, <2>1, <2>2, <2>3, <2>4, LeadsAcct DEF Puts, x
  <2> QED BY <1>5, <2>5 DEF Puts
<1>6. CASE ~x.loaded
  <2> DEFINE st == IF DBInfo[a].exists THEN {} ELSE {"LoadedAsNotExist"}
             y == [x EXCEPT !.loaded = TRUE, !.tx = txid, !.status = st]
             z == [y EXCEPT !.status = @ \cup {"Cold"}]
  <2>0. x.status = {} /\ st \in SUBSET Flag
    BY <1>3, <1>6 DEF AcctGood, Flag
  <2>1. y \in Account /\ y.tx = txid /\ y.loaded /\ ~Doomed(y)
    BY <1>1, <2>0, Zenon DEF Account, Doomed
  <2>2. z \in Account
    BY <2>1, Zenon DEF Account, Flag
  <2>3. LoadedAs(x, y)
    BY <1>1, <1>6, <2>0, <2>1 DEF LoadedAs, Account, WarmNow, CreatedNow, Lasting
  <2>4. SameAcct(B, x, z, a) /\ (Cleared(z) <=> Cleared(x))
    BY <1>1, <1>6, <2>0 DEF SameAcct, Account, WarmNow, CreatedNow, Lasting, Cleared
  <2>5. IsWarm(a) => SameAcct(B, x, y, a) /\ (Cleared(y) <=> Cleared(x))
    BY <1>1, <1>6, <2>0 DEF SameAcct, Account, WarmNow, CreatedNow, Lasting, Cleared
  <2>6. Load(j, a) = IF IsWarm(a) THEN PutAcct(j, a, y) ELSE Record(PutAcct(j, a, y), e)
    BY <1>6 DEF Load, Insert, PutAcct, e
  <2>7. Undo(PutAcct(j, a, y), e) = PutAcct(j, a, z)
    <3>1. Undo(PutAcct(j, a, y), e) = Mark(PutAcct(j, a, y), a, {"Cold"})
      BY <1>4 DEF Undo
    <3> HIDE DEF y
    <3> QED BY <2>1, <3>1, ZenonT(60) DEF Mark, PutAcct, JournalRec
  <2> HIDE DEF y, z, x
  <2>8. CASE IsWarm(a)
    <3>1. Reverts(B, j, PutAcct(j, a, y)) /\ Puts(j, PutAcct(j, a, y), a, y)
      BY <1>2, <2>1, <2>5, <2>8, UnrecordedAcct DEF x
    <3>2. Good(PutAcct(j, a, y))
      <4> HIDE DEF Good
      <4> QED BY <1>5, <2>1, <2>3, <3>1 DEF Puts
    <3> QED BY <2>6, <2>8, <3>2 DEF x
  <2>9. CASE ~IsWarm(a)
    <3> DEFINE k == Record(PutAcct(j, a, y), e)
    <3>1. Reverts(B, j, k) /\ Puts(j, k, a, y)
      BY <1>2, <1>4, <2>1, <2>2, <2>4, <2>7, RecordedAcct DEF x
    <3>2. Good(k)
      <4> HIDE DEF Good, k
      <4> QED BY <1>5, <2>1, <2>3, <3>1 DEF Puts
    <3> QED BY <2>6, <2>9, <3>2 DEF x
  <2> QED BY <2>8, <2>9
<1>7. CASE x.loaded /\ ColdInTx(j, a)
  <2> DEFINE y == [x EXCEPT !.tx = txid,
                            !.status = @ \ {"Cold", "SelfDestructLocal", "CreatedLocal"}]
             z == [y EXCEPT !.status = @ \cup {"Cold"}]
  <2>0. x.tx # txid \/ "Cold" \in x.status
    BY <1>7 DEF ColdInTx, Has
  <2>1. ~Doomed(x) /\ ~CreatedNow(x) /\ ~WarmNow(x)
    BY <1>3, <2>0 DEF AcctGood, WarmNow, CreatedNow
  <2>2. y \in Account /\ y.tx = txid /\ y.loaded /\ ~Doomed(y) /\ z \in Account
    BY <1>1, <1>7, Zenon DEF Account, Doomed, Flag
  <2>3. LoadedAs(x, y)
    BY <1>1, <1>7, <2>0, <2>1, <2>2 DEF LoadedAs, Account, WarmNow, CreatedNow, Lasting, Doomed
  <2>4. SameAcct(B, x, z, a) /\ (Cleared(z) <=> Cleared(x))
    BY <1>1, <1>7, <2>0, <2>1 DEF SameAcct, Account, WarmNow, CreatedNow, Lasting, Cleared, Doomed
  <2>6. Load(j, a) = Record(PutAcct(j, a, y), e)
    BY <1>7, <2>1 DEF Load, Rewarm, PutAcct, e, Has, Doomed
  <2>7. Undo(PutAcct(j, a, y), e) = PutAcct(j, a, z)
    <3>1. Undo(PutAcct(j, a, y), e) = Mark(PutAcct(j, a, y), a, {"Cold"})
      BY <1>4 DEF Undo
    <3> HIDE DEF y
    <3> QED BY <2>2, <3>1, Zenon DEF Mark, PutAcct, JournalRec
  <2> HIDE DEF y, z, x
  <2> DEFINE k == Record(PutAcct(j, a, y), e)
  <2>8. Reverts(B, j, k) /\ Puts(j, k, a, y)
    BY <1>2, <1>4, <2>2, <2>4, <2>7, RecordedAcct DEF x
  <2>9. Good(k)
    <3> HIDE DEF Good, k
    <3> QED BY <1>5, <2>2, <2>3, <2>8 DEF Puts
  <2> QED BY <2>6, <2>9 DEF x
<1>8. CASE x.loaded /\ ~ColdInTx(j, a)
  <2>1. Load(j, a) = j
    BY <1>8 DEF Load
  <2>2. WarmNow(x)
    BY <1>8 DEF WarmNow, ColdInTx, Has
  <2>3. Puts(j, j, a, j.acct[a]) /\ LoadedAs(x, x)
    BY <1>1, <2>2 DEF Puts, LoadedAs
  <2> QED BY <2>1, <2>3
<1> QED BY <1>6, <1>7, <1>8

\* The account x once it has been marked as touched, or touched.
WithTouch(x) == [x EXCEPT !.status = @ \cup {"Touched"}]
Revived(x) == [x EXCEPT !.status = IF Marked(x) /\ ~Doomed(x) THEN @ \ {"SelfDestructed"} ELSE @]
TouchOf(x) == WithTouch(Revived(x))

\* Two updates of one account are an update of it.
LEMMA PutsTrans ==
  ASSUME NEW i, NEW j, NEW k, NEW a \in Addr, NEW y, NEW z, Puts(i, j, a, y), Puts(j, k, a, z)
  PROVE  Puts(i, k, a, z)
BY DEF Puts

\* What touching an account changes in it.
LEMMA TouchOfFields ==
  ASSUME NEW x \in Account
  PROVE  /\ WithTouch(x) \in Account /\ Revived(x) \in Account /\ TouchOf(x) \in Account
         /\ \A y \in {WithTouch(x), Revived(x), TouchOf(x)} :
              /\ y.bal = x.bal /\ y.nonce = x.nonce /\ y.code = x.code /\ y.loaded = x.loaded
              /\ y.tx = x.tx
              /\ Doomed(y) <=> Doomed(x)
              /\ Cleared(y) <=> Cleared(x)
              /\ CreatedNow(y) <=> CreatedNow(x)
              /\ "Created" \in y.status <=> "Created" \in x.status
              /\ WarmNow(y) <=> WarmNow(x)
         /\ Marked(TouchOf(x)) <=> Doomed(x) /\ Marked(x)
         /\ Marked(Revived(x)) <=> Doomed(x) /\ Marked(x)
         /\ Marked(WithTouch(x)) <=> Marked(x)
         /\ "Touched" \in TouchOf(x).status /\ "Touched" \in WithTouch(x).status
<1> DEFINE Alike(u, y) == /\ y.bal = u.bal /\ y.nonce = u.nonce /\ y.code = u.code
                          /\ y.loaded = u.loaded /\ y.tx = u.tx
                          /\ Doomed(y) <=> Doomed(u)
                          /\ Cleared(y) <=> Cleared(u)
                          /\ CreatedNow(y) <=> CreatedNow(u)
                          /\ "Created" \in y.status <=> "Created" \in u.status
                          /\ WarmNow(y) <=> WarmNow(u)
<1>1. ASSUME NEW u \in Account
      PROVE  /\ WithTouch(u) \in Account /\ Alike(u, WithTouch(u))
             /\ Marked(WithTouch(u)) <=> Marked(u)
             /\ "Touched" \in WithTouch(u).status
  BY DEF WithTouch, Account, Flag, Marked, Doomed, Cleared, CreatedNow, WarmNow
<1>2. /\ Revived(x) \in Account /\ Alike(x, Revived(x))
      /\ Marked(Revived(x)) <=> Doomed(x) /\ Marked(x)
  <2>1. CASE Marked(x) /\ ~Doomed(x)
    BY <2>1 DEF Revived, Account, Flag, Marked, Doomed, Cleared, CreatedNow, WarmNow
  <2>2. CASE ~(Marked(x) /\ ~Doomed(x))
    <3>1. Revived(x) = x
      BY <2>2 DEF Revived, Account
    <3> QED BY <2>2, <3>1
  <2> QED BY <2>1, <2>2
<1>3. /\ TouchOf(x) \in Account /\ Alike(Revived(x), TouchOf(x))
      /\ Marked(TouchOf(x)) <=> Marked(Revived(x))
      /\ "Touched" \in TouchOf(x).status
  BY <1>1, <1>2 DEF TouchOf
<1>4. Alike(x, TouchOf(x))
  <2> HIDE DEF Alike
  <2>1. Alike(x, Revived(x)) /\ Alike(Revived(x), TouchOf(x))
    BY <1>2, <1>3
  <2> QED BY <2>1 DEF Alike
<1> QED BY <1>1, <1>2, <1>3, <1>4

\* Touching, and reviving a deleted account, may be reverted.
LEMMA RevertsTouch ==
  ASSUME NEW B \in BOOLEAN, NEW j \in JournalRec, AllNamed(j), NEW a \in Addr, j.acct[a].loaded
  PROVE  /\ Reverts(B, j, MarkTouched(j, a)) /\ Puts(j, MarkTouched(j, a), a, WithTouch(j.acct[a]))
         /\ Reverts(B, j, Revive(j, a)) /\ Puts(j, Revive(j, a), a, Revived(j.acct[a]))
         /\ Reverts(B, j, TouchAccount(j, a)) /\ Puts(j, TouchAccount(j, a), a, TouchOf(j.acct[a]))
<1>0. ASSUME NEW k \in JournalRec, AllNamed(k)
      PROVE  Reverts(B, k, k) /\ Puts(k, k, a, k.acct[a])
  BY <1>0, KeepsTrans, StepUnrecorded DEF Puts
<1>1. ASSUME NEW k \in JournalRec, AllNamed(k), k.acct[a].loaded
      PROVE  Reverts(B, k, MarkTouched(k, a)) /\ Puts(k, MarkTouched(k, a), a, WithTouch(k.acct[a]))
  <2> DEFINE x == k.acct[a]
             y == WithTouch(x)
             e == [kind |-> "AccountTouched", addr |-> a]
  <2>1. x \in Account
    BY DEF JournalRec
  <2>2. CASE "Touched" \in x.status
    <3>1. MarkTouched(k, a) = k /\ y = x
      BY <2>1, <2>2, Zenon DEF MarkTouched, Has, WithTouch, Account
    <3> QED BY <1>0, <1>1, <3>1
  <2>3. CASE "Touched" \notin x.status
    <3>1. e \in Entry /\ e.addr = a /\ e.kind = "AccountTouched"
      BY DEF Entry
    <3>2. MarkTouched(k, a) = Record(PutAcct(k, a, y), e)
      BY <2>3, RecordCommutes, Zenon DEF MarkTouched, Has, Mark, PutAcct, Record, WithTouch, JournalRec
    <3>3. y \in Account /\ y.loaded
      BY <1>1, <2>1, TouchOfFields
    <3>4. SameAcct(B, x, x, a)
      BY DEF SameAcct
    <3> HIDE DEF e
    <3>5. CASE a \in Sticky
      <4>1. Undo(PutAcct(k, a, y), e) = PutAcct(k, a, y)
        BY <3>1, <3>5 DEF Undo, UndoTouch, Sticky
      <4>2. SameAcct(B, x, y, a) /\ (Cleared(y) <=> Cleared(x))
        <5>1. "Touched" \notin Lasting
          BY DEF Lasting
        <5> QED BY <1>1, <2>1, <3>5, <5>1 DEF SameAcct, WithTouch, Account, WarmNow, CreatedNow, Cleared
      <4> HIDE DEF y
      <4>3. /\ Reverts(B, k, Record(PutAcct(k, a, y), e))
            /\ Puts(k, Record(PutAcct(k, a, y), e), a, y)
        BY <1>1, <3>1, <3>3, <4>1, <4>2, RecordedAcct
      <4> QED BY <3>2, <4>3 DEF y
    <3>6. CASE a \notin Sticky
      <4>1. Undo(PutAcct(k, a, y), e) = Unmark(PutAcct(k, a, y), a, {"Touched"})
        BY <3>1, <3>6 DEF Undo, UndoTouch, Sticky
      <4>2. Unmark(PutAcct(k, a, y), a, {"Touched"}) = PutAcct(k, a, x)
        <5>1. x = [y EXCEPT !.status = @ \ {"Touched"}]
          BY <2>1, <2>3, Zenon DEF WithTouch, Account
        <5> HIDE DEF x, y
        <5> QED BY <2>1, <3>3, <5>1, Zenon DEF Unmark, PutAcct, JournalRec
      <4> HIDE DEF y
      <4>3. /\ Reverts(B, k, Record(PutAcct(k, a, y), e))
            /\ Puts(k, Record(PutAcct(k, a, y), e), a, y)
        BY <1>1, <2>1, <3>1, <3>3, <3>4, <4>1, <4>2, RecordedAcct
      <4> QED BY <3>2, <4>3 DEF y
    <3> QED BY <3>5, <3>6
  <2> QED BY <2>2, <2>3
<1>2. Reverts(B, j, Revive(j, a)) /\ Puts(j, Revive(j, a), a, Revived(j.acct[a]))
  <2> DEFINE x == j.acct[a]
             y == Revived(x)
             e == [kind |-> "SelfdestructCleared", addr |-> a]
  <2>1. x \in Account
    BY DEF JournalRec
  <2>2. CASE ~(Marked(x) /\ ~Doomed(x))
    <3>1. Revive(j, a) = j /\ y = x
      BY <2>1, <2>2 DEF Revive, Has, Revived, Account, Marked, Doomed
    <3> QED BY <1>0, <3>1
  <2>3. CASE Marked(x) /\ ~Doomed(x)
    <3>1. e \in Entry /\ e.addr = a /\ e.kind = "SelfdestructCleared"
      BY DEF Entry
    <3>2. Revive(j, a) = Record(PutAcct(j, a, y), e)
      BY <2>3, Zenon DEF Revive, Has, Unmark, PutAcct, Record, Revived, JournalRec, Marked, Doomed
    <3>3. y \in Account /\ y.loaded
      BY <2>1, TouchOfFields
    <3>4. SameAcct(B, x, x, a)
      BY DEF SameAcct
    <3> HIDE DEF e
    <3>5. Undo(PutAcct(j, a, y), e) = Mark(PutAcct(j, a, y), a, {"SelfDestructed"})
      BY <3>1 DEF Undo
    <3>6. Mark(PutAcct(j, a, y), a, {"SelfDestructed"}) = PutAcct(j, a, x)
      <4>1. x = [y EXCEPT !.status = @ \cup {"SelfDestructed"}]
        BY <2>1, <2>3, Zenon DEF Revived, Account, Marked, Doomed
      <4> HIDE DEF x, y
      <4> QED BY <2>1, <3>3, <4>1, Zenon DEF Mark, PutAcct, JournalRec
    <3> HIDE DEF y
    <3>7. /\ Reverts(B, j, Record(PutAcct(j, a, y), e))
          /\ Puts(j, Record(PutAcct(j, a, y), e), a, y)
      BY <2>1, <3>1, <3>3, <3>4, <3>5, <3>6, RecordedAcct
    <3> QED BY <3>2, <3>7 DEF y
  <2> QED BY <2>2, <2>3
<1>3. Reverts(B, j, TouchAccount(j, a)) /\ Puts(j, TouchAccount(j, a), a, TouchOf(j.acct[a]))
  <2> DEFINE k == Revive(j, a)
  <2>1. k \in JournalRec /\ AllNamed(k) /\ k.acct[a] = Revived(j.acct[a])
    BY <1>2 DEF Reverts, Puts
  <2>2. k.acct[a].loaded
    <3>1. j.acct[a] \in Account
      BY DEF JournalRec
    <3> QED BY <2>1, <3>1, TouchOfFields
  <2> HIDE DEF k
  <2>3. Reverts(B, k, MarkTouched(k, a)) /\ Puts(k, MarkTouched(k, a), a, WithTouch(k.acct[a]))
    BY <1>1, <2>1, <2>2
  <2>4. MarkTouched(k, a) \in JournalRec
    BY <2>3 DEF Reverts
  <2> QED BY <1>2, <2>1, <2>3, <2>4, RevertsTrans, PutsTrans DEF TouchAccount, TouchOf, k
<1> QED BY <1>1, <1>2, <1>3

\* Touch, with the revival of an account an earlier transaction deleted.
LEMMA LeadsTouch ==
  ASSUME NEW B \in BOOLEAN, NEW r \in JournalRec, NEW i \in JournalRec, NEW j \in JournalRec,
         NEW D, NEW C \in SUBSET Checkpoint, NEW a \in Addr,
         Leads(B, r, D, C, i, j), j.acct[a].loaded
  PROVE  /\ Leads(B, r, D, C, i, TouchAccount(j, a))
         /\ Puts(j, TouchAccount(j, a), a, TouchOf(j.acct[a]))
         /\ Leads(B, r, D, C, i, MarkTouched(j, a))
         /\ Puts(j, MarkTouched(j, a), a, WithTouch(j.acct[a]))
<1> DEFINE x == j.acct[a]
<1>1. x \in Account
  BY DEF JournalRec
<1>2. AllNamed(j) /\ Sound(B, r, j, D, C) /\ Current(r, j)
  BY DEF Leads, Reverts
<1>3. AcctGood(B, x, a) /\ x.tx <= txid
  BY <1>2 DEF Sound, StateGood, Current
<1>4. ASSUME NEW k, NEW y \in {TouchOf(x), WithTouch(x)}, Reverts(B, j, k), Puts(j, k, a, y)
      PROVE  Leads(B, r, D, C, i, k)
  <2>1. /\ y.bal = x.bal /\ y.nonce = x.nonce /\ y.code = x.code /\ y.loaded = x.loaded
        /\ y.tx = x.tx
        /\ Doomed(y) <=> Doomed(x)
        /\ Cleared(y) <=> Cleared(x)
        /\ CreatedNow(y) <=> CreatedNow(x)
        /\ "Created" \in y.status <=> "Created" \in x.status
        /\ WarmNow(y) <=> WarmNow(x)
        /\ Marked(y) => Marked(x)
        /\ Doomed(x) => (Marked(y) <=> Marked(x))
    <3> HIDE DEF x
    <3>1. y = TouchOf(x) \/ y = WithTouch(x)
      BY <1>4
    <3> QED BY <1>1, <3>1, TouchOfFields
  <2>2. AcctGood(B, y, a)
    BY <1>3, <2>1 DEF AcctGood
  <2>3. Vacant(y) => Vacant(x)
    BY <2>1 DEF Vacant
  <2>4. k \in JournalRec
    BY <1>4 DEF Puts
  <2> HIDE DEF x
  <2> QED BY <1>3, <1>4, <2>1, <2>2, <2>3, <2>4, LeadsAcct DEF Puts, x
<1> QED BY <1>2, <1>4, RevertsTouch

-----------------------------------------------------------------------------
(***************************************************************************)
(* Storage.                                                                *)
(***************************************************************************)
PutsSlot(j, k, a, q, t) ==
  /\ k \in JournalRec
  /\ k.acct = j.acct
  /\ k.slot[a][q] = t
  /\ \A b \in Addr, p \in Key : b # a \/ p # q => k.slot[b][p] = j.slot[b][p]
  /\ k.transient = j.transient

\* Replacing a slot by an alike one.
LEMMA KeepsPutSlot ==
  ASSUME NEW B \in BOOLEAN, NEW j \in JournalRec, NEW a \in Addr, NEW q \in Key, NEW t \in Slot,
         SameSlot(j.acct[a], j.acct[a], j.slot[a][q], t, a, q)
  PROVE  Keeps(B, j, PutSlot(j, a, q, t)) /\ PutsSlot(j, PutSlot(j, a, q, t), a, q, t)
<1>1. Keeps(B, j, j) /\ j.slot[a][q] \in Slot
  BY KeepsTrans, Zenon DEF JournalRec
<1>2. PutSlot(j, a, q, j.slot[a][q]) = j
  BY DEF PutSlot, JournalRec
<1>3. Keeps(B, PutSlot(j, a, q, j.slot[a][q]), PutSlot(j, a, q, t))
  BY <1>1, SlotStep
<1>4. PutsSlot(j, PutSlot(j, a, q, t), a, q, t)
  BY PutSlotFields, GrownTrans DEF PutsSlot
<1> QED BY <1>2, <1>3, <1>4

CoolSlot(j, a, q) == [j EXCEPT !.slot[a][q].cold = TRUE]
WriteSlot(j, a, q, v) == [j EXCEPT !.slot[a][q].present = v]
Written(s, v) == [s EXCEPT !.present = v]
Cooled(s) == [s EXCEPT !.cold = TRUE]

\* A slot written twice.
LEMMA PutSlotTwice ==
  ASSUME NEW j \in JournalRec, NEW a \in Addr, NEW q \in Key, NEW t \in Slot, NEW v
  PROVE  /\ CoolSlot(PutSlot(j, a, q, t), a, q) = PutSlot(j, a, q, Cooled(t))
         /\ WriteSlot(PutSlot(j, a, q, t), a, q, v) = PutSlot(j, a, q, Written(t, v))
<1> DEFINE k == PutSlot(j, a, q, t)
<1>1. k \in JournalRec /\ k.slot[a][q] = t
  BY PutSlotFields, GrownTrans
<1>2. \A s : PutSlot(k, a, q, s) = PutSlot(j, a, q, s)
  BY Zenon DEF PutSlot, JournalRec
<1>3. CoolSlot(k, a, q) = PutSlot(k, a, q, Cooled(t))
  <2> HIDE DEF k
  <2> QED BY <1>1, Zenon DEF CoolSlot, Cooled, PutSlot
<1>4. WriteSlot(k, a, q, v) = PutSlot(k, a, q, Written(t, v))
  <2> HIDE DEF k
  <2> QED BY <1>1, Zenon DEF WriteSlot, Written, PutSlot
<1> HIDE DEF k
<1>5. CoolSlot(k, a, q) = PutSlot(j, a, q, Cooled(t))
  BY <1>2, <1>3
<1>6. WriteSlot(k, a, q, v) = PutSlot(j, a, q, Written(t, v))
  BY <1>2, <1>4
<1> QED BY <1>5, <1>6 DEF k

\* A slot update with an entry that undoes it up to Keeps.
LEMMA RecordedSlot ==
  ASSUME NEW B \in BOOLEAN, NEW j \in JournalRec, AllNamed(j), NEW a \in Addr, NEW q \in Key,
         NEW t \in Slot, NEW u \in Slot, NEW e \in Entry,
         e.addr = a, e.kind \in {"StorageWarmed", "StorageChanged"}, e.key = q,
         t.loaded, j.acct[a].loaded,
         Undo(PutSlot(j, a, q, t), e) = PutSlot(j, a, q, u),
         SameSlot(j.acct[a], j.acct[a], j.slot[a][q], u, a, q)
  PROVE  LET k == Record(PutSlot(j, a, q, t), e)
         IN  Reverts(B, j, k) /\ PutsSlot(j, k, a, q, t)
<1> DEFINE i == PutSlot(j, a, q, t)
           k == Record(i, e)
<1>1. Keeps(B, j, Undo(i, e))
  BY KeepsPutSlot
<1>2. PutsSlot(j, i, a, q, t) /\ i.entries = j.entries
  BY PutSlotFields, GrownTrans DEF PutsSlot
<1>3. Named(i, e)
  BY <1>2 DEF PutsSlot, Named
<1> HIDE DEF i
<1>4. Reverts(B, j, k)
  BY <1>1, <1>2, <1>3, StepRecorded DEF PutsSlot
<1>5. PutsSlot(j, k, a, q, t)
  BY <1>2, RecordFields DEF PutsSlot
<1> QED BY <1>4, <1>5 DEF i

\* What a slot that is not in the map is created with is the value it stands for.
LEMMA InitialIsValue ==
  ASSUME NEW B \in BOOLEAN, NEW j \in JournalRec, NEW a \in Addr, NEW q \in Key,
         AcctGood(B, j.acct[a], a)
  PROVE  InitialValue(j, a, q) = IF Cleared(j.acct[a]) THEN 0 ELSE DBStorage[a][q]
<1> DEFINE x == j.acct[a]
<1>1. CASE Cleared(x)
  BY <1>1 DEF InitialValue, ShouldLoadFromDB, Has, Cleared
<1>2. CASE ~Cleared(x) /\ "Created" \in x.status
  BY <1>2 DEF InitialValue, ShouldLoadFromDB, Has, Cleared, AcctGood
<1>3. CASE ~Cleared(x) /\ "Created" \notin x.status
  BY <1>3 DEF InitialValue, ShouldLoadFromDB, Has, Cleared, AcctGood, Marked, Doomed
<1> QED BY <1>1, <1>2, <1>3

\* The slot load shared by SLoad and SStore; its original value is that of the start.
LEMMA LeadsWarmSlot ==
  ASSUME NEW B \in BOOLEAN, NEW r \in JournalRec, NEW i \in JournalRec, NEW j \in JournalRec,
         NEW D, NEW C \in SUBSET Checkpoint, NEW a \in Addr, NEW q \in Key, txid \in Nat,
         Leads(B, r, D, C, i, j), j.acct[a].loaded
  PROVE  LET k == WarmSlot(j, a, q)
             t == k.slot[a][q]
         IN  /\ Leads(B, r, D, C, i, k)
             /\ PutsSlot(j, k, a, q, t) /\ t \in Slot
             /\ SlotWarm(t) /\ t.tx = txid /\ t.present = ValueIn(j, a, q)
             /\ t.orig = ValueIn(r, a, q)
<1> DEFINE s == j.slot[a][q]
           x == j.acct[a]
           v == ValueIn(j, a, q)
           o == ValueIn(r, a, q)
           t == [loaded |-> TRUE, present |-> v, orig |-> o, tx |-> txid, cold |-> FALSE]
           u == [t EXCEPT !.cold = TRUE]
           e == [kind |-> "StorageWarmed", addr |-> a, key |-> q]
           cool == ~s.loaded \/ SlotColdInTx(j, a, q)
           Good(k) == /\ Leads(B, r, D, C, i, k)
                      /\ PutsSlot(j, k, a, q, k.slot[a][q]) /\ k.slot[a][q] = t
<1>0. ASSUME NEW k, Good(k)
      PROVE  /\ Leads(B, r, D, C, i, k)
             /\ PutsSlot(j, k, a, q, k.slot[a][q]) /\ k.slot[a][q] \in Slot
             /\ SlotWarm(k.slot[a][q]) /\ k.slot[a][q].tx = txid
             /\ k.slot[a][q].present = ValueIn(j, a, q)
             /\ k.slot[a][q].orig = ValueIn(r, a, q)
  <2>1. k.slot[a][q] \in Slot
    BY <1>0 DEF PutsSlot, JournalRec
  <2>2. t.tx = txid /\ SlotWarm(t) /\ t.present = v /\ t.orig = o
    BY DEF SlotWarm
  <2> HIDE DEF t
  <2> QED BY <1>0, <2>1, <2>2
<1>1. s \in Slot /\ x \in Account
  BY DEF JournalRec
<1>2. AllNamed(j) /\ Sound(B, r, j, D, C) /\ Current(r, j)
  BY DEF Leads, Reverts
<1>3. AcctGood(B, x, a) /\ s.tx <= txid
  BY <1>2 DEF Sound, StateGood, Current
<1>4. v \in Value
  <2>1. DBStorage[a][q] \in Value /\ 0 \in Value
    BY ConstantsOK
  <2> QED BY <1>1, <2>1 DEF ValueIn, SlotValue, Slot
<1>5. o \in Value
  <2>1. DBStorage[a][q] \in Value /\ 0 \in Value /\ r.slot[a][q] \in Slot
    BY ConstantsOK DEF JournalRec
  <2> QED BY <2>1 DEF ValueIn, SlotValue, Slot
<1>6. t \in Slot /\ u \in Slot
  <2> HIDE DEF v, o
  <2> QED BY <1>4, <1>5, Zenon DEF Slot
<1>7. cool => o = v
  BY <1>2 DEF Sound, ChangedWarm, SlotWarm, SlotColdInTx
<1>8. WarmSlot(j, a, q) = IF cool /\ ~IsStorageWarm(a, q) THEN Record(PutSlot(j, a, q, t), e)
                            ELSE PutSlot(j, a, q, t)
  <2>1. (IF ~s.loaded
           THEN [loaded |-> TRUE, present |-> InitialValue(j, a, q),
                 orig |-> InitialValue(j, a, q), tx |-> txid, cold |-> FALSE]
           ELSE [s EXCEPT !.orig = IF SlotColdInTx(j, a, q) THEN s.present ELSE @,
                          !.tx = txid, !.cold = FALSE]) = t
    <3>1. CASE ~s.loaded
      <4>1. InitialValue(j, a, q) = v
        BY <1>3, <3>1, InitialIsValue DEF ValueIn, SlotValue, Cleared
      <4> HIDE DEF v, o
      <4> QED BY <1>7, <3>1, <4>1, Zenon
    <3>2. CASE s.loaded /\ SlotColdInTx(j, a, q)
      <4>1. s.present = v
        BY <3>2 DEF ValueIn, SlotValue
      <4> HIDE DEF v, o
      <4> QED BY <1>1, <1>7, <3>2, <4>1, Zenon DEF Slot
    <3>3. CASE s.loaded /\ ~SlotColdInTx(j, a, q)
      <4>1. s.present = v
        BY <3>3 DEF ValueIn, SlotValue
      <4>2. s.orig = o
        BY <1>2, <3>3 DEF Current, SlotWarm, SlotColdInTx
      <4> HIDE DEF v, o
      <4> QED BY <1>1, <3>3, <4>1, <4>2, Zenon DEF Slot
    <3> QED BY <3>1, <3>2, <3>3
  <2> HIDE DEF t
  <2> QED BY <2>1, Zenon DEF WarmSlot, PutSlot
<1>9. e \in Entry /\ e.addr = a /\ e.key = q /\ e.kind = "StorageWarmed"
  BY DEF Entry
<1> HIDE DEF e
<1>10. SlotWarm(t) /\ t.tx = txid /\ t.orig = o /\ t.loaded /\ t.present = v
  BY DEF SlotWarm
<1>11. ASSUME NEW k, Reverts(B, j, k), PutsSlot(j, k, a, q, t) PROVE Good(k)
  <2>1. k \in JournalRec
    BY <1>11 DEF PutsSlot
  <2>2. ValueIn(k, a, q) = ValueIn(j, a, q)
    BY <1>10, <1>11 DEF PutsSlot, ValueIn, SlotValue
  <2> HIDE DEF t, v
  <2>3. Leads(B, r, D, C, i, k)
    BY <1>10, <1>11, <2>1, <2>2, LeadsSlot, SMTT(30) DEF PutsSlot
  <2> QED BY <1>11, <2>3 DEF PutsSlot
<1>12. SameSlot(x, x, s, u, a, q) \/ ~cool
  BY <1>1, <1>6 DEF SameSlot, SlotValue, SlotWarm, SlotColdInTx, ValueIn
<1>13. CASE cool /\ ~IsStorageWarm(a, q)
  <2>1. Undo(PutSlot(j, a, q, t), e) = PutSlot(j, a, q, u)
    <3>1. Undo(PutSlot(j, a, q, t), e) = [PutSlot(j, a, q, t) EXCEPT !.slot[a][q].cold = TRUE]
      BY <1>9 DEF Undo
    <3>2. [PutSlot(j, a, q, t) EXCEPT !.slot[a][q].cold = TRUE]
            = PutSlot(j, a, q, [t EXCEPT !.cold = TRUE])
      <4> HIDE DEF t
      <4>1. CoolSlot(PutSlot(j, a, q, t), a, q) = PutSlot(j, a, q, Cooled(t))
        BY <1>6, PutSlotTwice
      <4> QED BY <4>1, Zenon DEF CoolSlot, Cooled
    <3> HIDE DEF t
    <3> QED BY <3>1, <3>2, Zenon DEF u
  <2> DEFINE k == Record(PutSlot(j, a, q, t), e)
  <2>2. Reverts(B, j, k) /\ PutsSlot(j, k, a, q, t)
    <3>1. SameSlot(j.acct[a], j.acct[a], j.slot[a][q], u, a, q)
      BY <1>12, <1>13
    <3> HIDE DEF t, u
    <3> QED BY <1>2, <1>6, <1>9, <1>10, <2>1, <3>1, RecordedSlot
  <2>3. Good(k)
    <3> HIDE DEF Good, k, t
    <3> QED BY <1>11, <2>2
  <2>4. WarmSlot(j, a, q) = k
    BY <1>8, <1>13
  <2> HIDE DEF k, Good
  <2> QED BY <1>0, <2>3, <2>4
<1>14. CASE ~(cool /\ ~IsStorageWarm(a, q))
  <2>1. SameSlot(x, x, s, t, a, q)
    BY <1>1, <1>6, <1>14 DEF SameSlot, SlotValue, SlotWarm, SlotColdInTx, ValueIn
  <2> DEFINE k == PutSlot(j, a, q, t)
  <2>2. Reverts(B, j, k) /\ PutsSlot(j, k, a, q, t)
    <3>1. Keeps(B, j, k) /\ PutsSlot(j, k, a, q, t)
      <4> HIDE DEF t
      <4> QED BY <1>6, <2>1, KeepsPutSlot
    <3>2. k.entries = j.entries
      <4> HIDE DEF t
      <4> QED BY <1>6, PutSlotFields
    <3> HIDE DEF k
    <3> QED BY <1>2, <3>1, <3>2, StepUnrecorded DEF PutsSlot
  <2>3. Good(k)
    <3> HIDE DEF Good, k, t
    <3> QED BY <1>11, <2>2
  <2>4. WarmSlot(j, a, q) = k
    BY <1>8, <1>14
  <2> HIDE DEF k, Good
  <2> QED BY <1>0, <2>3, <2>4
<1> QED BY <1>13, <1>14

\* The load of an account that is not in the map.
LEMMA LeadsIfAbsent ==
  ASSUME NEW B \in BOOLEAN, NEW r \in JournalRec, NEW i \in JournalRec, NEW j \in JournalRec,
         NEW D, NEW C \in SUBSET Checkpoint, NEW a \in Addr, txid \in Nat,
         Leads(B, r, D, C, i, j)
  PROVE  LET k == LoadIfAbsent(j, a)
         IN  /\ Leads(B, r, D, C, i, k) /\ k \in JournalRec /\ k.acct[a].loaded
             /\ j.acct[a].loaded => k = j
             /\ Puts(j, k, a, k.acct[a])
<1>1. CASE j.acct[a].loaded
  BY <1>1 DEF LoadIfAbsent, Puts
<1>2. CASE ~j.acct[a].loaded
  <2>1. LoadIfAbsent(j, a) = Load(j, a)
    BY <1>2 DEF LoadIfAbsent
  <2> QED BY <1>2, <2>1, LeadsLoad DEF Puts, LoadedAs, WarmNow
<1> QED BY <1>1, <1>2

\* SLoadInto.
LEMMA LeadsSLoad ==
  ASSUME NEW B \in BOOLEAN, NEW r \in JournalRec, NEW i \in JournalRec, NEW j \in JournalRec,
         NEW D, NEW C \in SUBSET Checkpoint, NEW a \in Addr, NEW q \in Key, txid \in Nat,
         Leads(B, r, D, C, i, j)
  PROVE  Leads(B, r, D, C, i, SLoadSlot(j, a, q))
BY LeadsIfAbsent, LeadsWarmSlot DEF SLoadSlot

\* sstoreInner, for an account that runs.
LEMMA LeadsSStore ==
  ASSUME NEW B \in BOOLEAN, NEW r \in JournalRec, NEW i \in JournalRec, NEW j \in JournalRec,
         NEW D, NEW C \in SUBSET Checkpoint, NEW a \in Addr, NEW q \in Key, NEW v \in Value,
         txid \in Nat, Leads(B, r, D, C, i, j), j.acct[a].loaded, ~Vacant(j.acct[a])
  PROVE  Leads(B, r, D, C, i, SStoreSlot(j, a, q, v))
<1> DEFINE m   == MarkTouched(j, a)
           w   == WarmSlot(m, a, q)
           old == w.slot[a][q].present
           t   == [w.slot[a][q] EXCEPT !.present = v]
           e   == [kind |-> "StorageChanged", addr |-> a, key |-> q, had |-> old]
           k   == Record(PutSlot(w, a, q, t), e)
<1>1. SStoreSlot(j, a, q, v) = IF old = v THEN w ELSE k
  BY DEF SStoreSlot, LoadIfAbsent, PutSlot
<1>2. Leads(B, r, D, C, i, m) /\ m \in JournalRec /\ m.acct[a].loaded /\ ~Vacant(m.acct[a])
  <2>1. Leads(B, r, D, C, i, m) /\ Puts(j, m, a, WithTouch(j.acct[a]))
    BY LeadsTouch
  <2>2. j.acct[a] \in Account
    BY DEF JournalRec
  <2> HIDE DEF m
  <2> QED BY <2>1, <2>2, TouchOfFields DEF Puts, Vacant
<1> HIDE DEF m
<1>3. /\ Leads(B, r, D, C, i, w) /\ PutsSlot(m, w, a, q, w.slot[a][q]) /\ w.slot[a][q] \in Slot
      /\ SlotWarm(w.slot[a][q]) /\ w.slot[a][q].tx = txid
      /\ w.slot[a][q].orig = ValueIn(r, a, q)
  BY <1>2, LeadsWarmSlot
<1> HIDE DEF w
<1>4. w \in JournalRec /\ w.acct = m.acct /\ AllNamed(w)
  BY <1>3 DEF PutsSlot, Leads, Reverts
<1>5. old \in Value /\ t \in Slot /\ t.loaded /\ SlotWarm(t) /\ t.tx = txid
      /\ t.orig = ValueIn(r, a, q)
  BY <1>3 DEF Slot, SlotWarm
<1>6. e \in Entry /\ e.addr = a /\ e.key = q /\ e.kind = "StorageChanged" /\ e.had = old
  BY <1>5 DEF Entry
<1> HIDE DEF e
<1>7. Undo(PutSlot(w, a, q, t), e) = PutSlot(w, a, q, w.slot[a][q])
  <2>1. Undo(PutSlot(w, a, q, t), e) = [PutSlot(w, a, q, t) EXCEPT !.slot[a][q].present = old]
    BY <1>6 DEF Undo
  <2>2. [PutSlot(w, a, q, t) EXCEPT !.slot[a][q].present = old]
          = PutSlot(w, a, q, [t EXCEPT !.present = old])
    <3> HIDE DEF t, old
    <3>1. w \in JournalRec /\ t \in Slot
      BY <1>4, <1>5
    <3>2. WriteSlot(PutSlot(w, a, q, t), a, q, old) = PutSlot(w, a, q, Written(t, old))
      BY <3>1, PutSlotTwice
    <3> QED BY <3>2, Zenon DEF WriteSlot, Written
  <2>3. [t EXCEPT !.present = old] = w.slot[a][q]
    BY <1>3, Zenon DEF Slot
  <2> HIDE DEF t, old
  <2> QED BY <2>1, <2>2, <2>3
<1>8. Reverts(B, w, k) /\ PutsSlot(w, k, a, q, t)
  <2>1. SameSlot(w.acct[a], w.acct[a], w.slot[a][q], w.slot[a][q], a, q)
    BY DEF SameSlot
  <2> HIDE DEF t, old
  <2> QED BY <1>2, <1>3, <1>4, <1>5, <1>6, <1>7, <2>1, RecordedSlot
<1>9. Leads(B, r, D, C, i, k)
  <2>1. k \in JournalRec
    BY <1>8 DEF PutsSlot
  <2>2. k.slot[a][q] = t /\ k.acct = w.acct
    BY <1>8 DEF PutsSlot
  <2> HIDE DEF k, t, old
  <2>3. \A b \in Addr, p \in Key : b # a \/ p # q => k.slot[b][p] = w.slot[b][p]
    BY <1>8 DEF PutsSlot
  <2>4. ~Vacant(w.acct[a])
    BY <1>2, <1>4
  <2>5. SlotWarm(k.slot[a][q]) /\ k.slot[a][q].tx <= txid /\ k.slot[a][q].orig = ValueIn(r, a, q)
    BY <1>5, <2>2
  <2>6. Leads(B, r, D, C, i, w) /\ Reverts(B, w, k) /\ w \in JournalRec
    BY <1>3, <1>4, <1>8
  <2> QED BY <2>1, <2>2, <2>3, <2>4, <2>5, <2>6, LeadsSlot, SMTT(30)
<1> QED BY <1>1, <1>3, <1>9

\* What is neither an account nor a slot.
LEMMA LeadsTStore ==
  ASSUME NEW B \in BOOLEAN, NEW r \in JournalRec, NEW i \in JournalRec, NEW j \in JournalRec,
         NEW D, NEW C \in SUBSET Checkpoint, NEW a \in Addr, NEW q \in Key, NEW v \in Value,
         Leads(B, r, D, C, i, j), j.acct[a].loaded
  PROVE  Leads(B, r, D, C, i, TStoreSlot(j, a, q, v))
<1> DEFINE old == j.transient[a][q]
           e   == [kind |-> "TransientChange", addr |-> a, key |-> q, had |-> old]
           u   == [j EXCEPT !.transient[a][q] = v]
           k   == Record(u, e)
<1>1. TStoreSlot(j, a, q, v) = IF old = v THEN j ELSE k
  BY DEF TStoreSlot
<1>2. old \in Value
  BY DEF JournalRec
<1>3. e \in Entry /\ e.addr = a /\ e.key = q /\ e.kind = "TransientChange" /\ e.had = old
  <2> HIDE DEF old
  <2> QED BY <1>2 DEF Entry
<1> HIDE DEF e
<1>4. u \in JournalRec /\ u.entries = j.entries /\ u.acct = j.acct /\ u.slot = j.slot
  BY Zenon DEF JournalRec
<1>5. Undo(u, e) = j
  <2>1. Undo(u, e) = [u EXCEPT !.transient[a][q] = old]
    BY <1>3 DEF Undo
  <2>2. j = [acct |-> j.acct, slot |-> j.slot, transient |-> j.transient, entries |-> j.entries]
    BY DEF JournalRec
  <2>3. j.transient \in [Addr -> [Key -> Value]]
    BY DEF JournalRec
  <2>4. [[j.transient EXCEPT ![a][q] = v] EXCEPT ![a][q] = old] = j.transient
    BY <2>3
  <2>5. Undo(u, e) = [acct |-> j.acct, slot |-> j.slot,
                      transient |-> [[j.transient EXCEPT ![a][q] = v] EXCEPT ![a][q] = old],
                      entries |-> j.entries]
    <3> HIDE DEF old
    <3> QED BY <2>1, <2>2, Zenon
  <2> QED BY <2>2, <2>4, <2>5
<1>6. Named(u, e)
  BY <1>3, <1>4 DEF Named
<1>7. AllNamed(j) /\ Sound(B, r, j, D, C) /\ Current(r, j)
  BY DEF Leads, Reverts
<1> HIDE DEF u
<1>8. Reverts(B, j, k)
  BY <1>3, <1>4, <1>5, <1>6, <1>7, KeepsTrans, StepRecorded
<1>9. k \in JournalRec /\ k.acct = j.acct /\ k.slot = j.slot
  BY <1>3, <1>4, RecordFields
<1>10. AcctGood(B, j.acct[a], a) /\ j.acct[a].tx <= txid
  BY <1>7 DEF Sound, StateGood, Current
<1> HIDE DEF k
<1>11. Leads(B, r, D, C, i, k)
  BY <1>8, <1>9, <1>10, LeadsAcct
<1> QED BY <1>1, <1>11

-----------------------------------------------------------------------------
(***************************************************************************)
(* Balances.                                                               *)
(***************************************************************************)
\* Two accounts replaced.
PutPair(j, a, y, b, z) == PutAcct(PutAcct(j, a, y), b, z)

\* Replacing two accounts.
LEMMA PutPairFields ==
  ASSUME NEW j \in JournalRec, NEW a \in Addr, NEW b \in Addr, a # b,
         NEW y \in Account, NEW z \in Account
  PROVE  LET k == PutPair(j, a, y, b, z)
         IN  /\ k \in JournalRec /\ k.acct[a] = y /\ k.acct[b] = z
             /\ \A c \in Addr : c # a /\ c # b => k.acct[c] = j.acct[c]
             /\ k.slot = j.slot /\ k.transient = j.transient /\ k.entries = j.entries
<1> DEFINE m == PutAcct(j, a, y)
<1>1. /\ m \in JournalRec /\ m.acct[a] = y /\ \A c \in Addr : c # a => m.acct[c] = j.acct[c]
      /\ m.slot = j.slot /\ m.transient = j.transient /\ m.entries = j.entries
  BY PutAcctFields, GrownTrans
<1> DEFINE k == PutAcct(m, b, z)
<1> HIDE DEF m
<1>2. /\ k \in JournalRec /\ k.acct[b] = z /\ \A c \in Addr : c # b => k.acct[c] = m.acct[c]
      /\ k.slot = m.slot /\ k.transient = m.transient /\ k.entries = m.entries
  BY <1>1, PutAcctFields, GrownTrans
<1>3. k = PutPair(j, a, y, b, z)
  BY DEF PutPair, m
<1> HIDE DEF k
<1> QED BY <1>1, <1>2, <1>3

\* y may take the place of x at the address a.
Follows(B, x, y, a) ==
  /\ y \in Account /\ y.loaded /\ y.tx <= txid
  /\ AcctGood(B, y, a)
  /\ Cleared(y) <=> Cleared(x)
  /\ Vacant(y) => Vacant(x)
  /\ CreatedNow(x) => CreatedNow(y)

\* A method that changes one account, and dooms none.
LEMMA LeadsFollows ==
  ASSUME NEW B \in BOOLEAN, NEW r \in JournalRec, NEW i \in JournalRec, NEW j \in JournalRec,
         NEW k, NEW D, NEW C \in SUBSET Checkpoint, NEW a \in Addr, NEW y,
         Leads(B, r, D, C, i, j), Reverts(B, j, k), Puts(j, k, a, y),
         Follows(B, j.acct[a], y, a), Doomed(y) => Doomed(j.acct[a])
  PROVE  Leads(B, r, D, C, i, k)
<1>1. /\ k \in JournalRec /\ k.acct[a] = y /\ k.slot = j.slot
      /\ \A b \in Addr : b # a => k.acct[b] = j.acct[b]
  BY DEF Puts
<1>2. /\ AcctGood(B, k.acct[a], a)
      /\ Cleared(k.acct[a]) <=> Cleared(j.acct[a])
      /\ Vacant(k.acct[a]) => Vacant(j.acct[a])
      /\ k.acct[a].tx <= txid
      /\ CreatedNow(j.acct[a]) => CreatedNow(k.acct[a])
      /\ Doomed(k.acct[a]) => Doomed(j.acct[a])
  BY <1>1 DEF Follows
<1>3. \A d \in D : d \in D
  OBVIOUS
<1> QED BY <1>1, <1>2, <1>3, LeadsAcct

\* A method that changes two accounts and records an entry for both.
LEMMA LeadsPair ==
  ASSUME NEW B \in BOOLEAN, NEW r \in JournalRec, NEW i \in JournalRec, NEW j \in JournalRec,
         NEW D, NEW E, NEW C \in SUBSET Checkpoint,
         Leads(B, r, D, C, i, j), \A d \in D : d \in E,
         NEW a \in Addr, NEW b \in Addr, a # b,
         NEW y, NEW z, Follows(B, j.acct[a], y, a), Follows(B, j.acct[b], z, b),
         NEW e \in Entry, e.addr = a, e.kind \in {"AccountDestroyed", "BalanceTransfer"},
         e.target = b,
         Undo(PutPair(j, a, y, b, z), e) = j,
         Doomed(y) => \/ Doomed(j.acct[a])
                      \/ /\ a \in E /\ e.kind = "AccountDestroyed" /\ e.status = "Global"
                         /\ \A c \in C : c.journalI <= Len(j.entries),
         Doomed(z) => Doomed(j.acct[b])
  PROVE  Leads(B, r, E, C, i, Record(PutPair(j, a, y, b, z), e))
<1> DEFINE m == PutPair(j, a, y, b, z)
           k == Record(m, e)
<1>0. Sound(B, r, j, D, C) /\ Current(r, j) /\ Reverts(B, i, j) /\ AllNamed(j)
  BY DEF Leads, Reverts
<1>1. /\ m \in JournalRec /\ m.acct[a] = y /\ m.acct[b] = z
      /\ \A c \in Addr : c # a /\ c # b => m.acct[c] = j.acct[c]
      /\ m.slot = j.slot /\ m.transient = j.transient /\ m.entries = j.entries
  BY PutPairFields DEF Follows
<1> HIDE DEF m
<1>2. Named(m, e)
  BY <1>1 DEF Named, Follows
<1>3. Reverts(B, j, k)
  <2>1. Keeps(B, j, Undo(m, e))
    BY KeepsTrans DEF m
  <2> QED BY <1>0, <1>1, <1>2, <2>1, StepRecorded
<1>4. /\ k \in JournalRec /\ k.acct = m.acct /\ k.slot = m.slot /\ k.entries[Len(j.entries) + 1] = e
      /\ Len(k.entries) = Len(j.entries) + 1
  BY <1>1, RecordFields
<1> HIDE DEF k
<1>5. \A c \in C : DestroyedIn(j, c) => DestroyedIn(k, c)
  BY <1>3, <1>4, DestroyedGrows
<1>6. \A c \in Addr : AcctGood(B, j.acct[c], c) /\ j.acct[c].tx <= txid
  BY <1>0 DEF Sound, StateGood, Current
<1>7. ASSUME NEW c \in C, c.created = a, e.kind = "AccountDestroyed", e.status = "Global",
             c.journalI <= Len(j.entries)
      PROVE  DestroyedIn(k, c)
  <2>1. c.journalI \in Nat /\ Len(j.entries) \in Nat
    BY DEF Checkpoint, JournalRec
  <2>2. Len(j.entries) + 1 \in c.journalI + 1 .. Len(k.entries)
    BY <1>4, <1>7, <2>1
  <2> QED BY <1>4, <1>7, <2>2 DEF DestroyedIn
<1>8. AcctsFollow(B, j, k, D, E, C)
  <2>1. ASSUME NEW c \in Addr
        PROVE  /\ AcctGood(B, k.acct[c], c)
               /\ Cleared(k.acct[c]) <=> Cleared(j.acct[c])
               /\ Vacant(k.acct[c]) => Vacant(j.acct[c])
               /\ k.acct[c].tx <= txid
               /\ CreatedNow(j.acct[c]) => CreatedNow(k.acct[c])
               /\ Doomed(k.acct[c]) =>
                    \/ Doomed(j.acct[c])
                    \/ c \in E /\ \A f \in C : f.created = c => DestroyedIn(k, f)
    <3>1. CASE c = a
      BY <1>1, <1>4, <1>7, <3>1 DEF Follows
    <3>2. CASE c = b
      BY <1>1, <1>4, <3>2 DEF Follows
    <3>3. CASE c # a /\ c # b
      BY <1>1, <1>4, <1>6, <3>3
    <3> QED BY <3>1, <3>2, <3>3
  <2> QED BY <1>5, <2>1 DEF AcctsFollow
<1>9. Sound(B, r, k, E, C) /\ Current(r, k)
  BY <1>0, <1>1, <1>4, <1>8, SoundAccts
<1>10. Reverts(B, i, k)
  BY <1>0, <1>3, <1>4, RevertsTrans
<1> QED BY <1>9, <1>10 DEF Leads, k, m

\* Arithmetic modulo 2^256, and when it does not wrap.
LEMMA PlusMinus ==
  \A x, v \in Balance : /\ Plus(x, v) \in Balance /\ Minus(x, v) \in Balance
                        /\ Plus(Minus(x, v), v) = x /\ Minus(Plus(x, v), v) = x
                        /\ v <= x => Minus(x, v) = x - v
                        /\ x + v <= MaxBalance => Plus(x, v) = x + v
BY ConstantsOK DEF Plus, Minus, Balance

\* The account x with another balance.
WithBal(x, v) == [x EXCEPT !.bal = v]

\* Only the balance differs.
LEMMA WithBalFields ==
  ASSUME NEW x \in Account, NEW v \in Balance
  PROVE  LET y == WithBal(x, v)
         IN  /\ y \in Account /\ y.bal = v /\ y.nonce = x.nonce /\ y.code = x.code
             /\ y.loaded = x.loaded /\ y.tx = x.tx /\ y.status = x.status
             /\ Doomed(y) <=> Doomed(x)
             /\ Marked(y) <=> Marked(x)
             /\ Cleared(y) <=> Cleared(x)
             /\ CreatedNow(y) <=> CreatedNow(x)
             /\ WarmNow(y) <=> WarmNow(x)
             /\ Vacant(y) <=> Vacant(x)
             /\ WithBal(y, x.bal) = x
             /\ \A B \in BOOLEAN : \A a : (B => v = x.bal) => SameAcct(B, x, y, a)
<1>1. WithBal(x, v) \in Account /\ WithBal(WithBal(x, v), x.bal) = x
  BY Zenon DEF WithBal, Account
<1> QED BY <1>1 DEF WithBal, Account, Doomed, Marked, Cleared, CreatedNow, WarmNow, Vacant, SameAcct

\* The balance updates as replacements of accounts.
LEMMA BalanceForms ==
  ASSUME NEW j \in JournalRec, NEW a \in Addr, NEW v \in Balance
  PROVE  /\ SetBalance(j, a, v) = PutAcct(j, a, WithBal(j.acct[a], v))
         /\ Credit(j, a, v) = PutAcct(j, a, WithBal(j.acct[a], Plus(j.acct[a].bal, v)))
         /\ Debit(j, a, v) = PutAcct(j, a, WithBal(j.acct[a], Minus(j.acct[a].bal, v)))
BY Zenon DEF SetBalance, Credit, Debit, PutAcct, WithBal

\* Replacing two accounts, in any order and again.
LEMMA PutPairForms ==
  ASSUME NEW j \in JournalRec, NEW a \in Addr, NEW b \in Addr, a # b,
         NEW y \in Account, NEW z \in Account
  PROVE  /\ PutAcct(PutAcct(j, b, z), a, y) = PutPair(j, a, y, b, z)
         /\ \A x \in Account : PutAcct(PutPair(j, a, y, b, z), a, x) = PutPair(j, a, x, b, z)
         /\ \A x \in Account : PutAcct(PutPair(j, a, y, b, z), b, x) = PutPair(j, a, y, b, x)
         /\ PutPair(j, a, j.acct[a], b, j.acct[b]) = j
<1> DEFINE A(x, w) == [[j.acct EXCEPT ![a] = x] EXCEPT ![b] = w]
<1>1. j.acct \in [Addr -> Account]
  BY DEF JournalRec
<1>2. \A x, w : PutPair(j, a, x, b, w) = [j EXCEPT !.acct = A(x, w)]
  BY Zenon DEF PutPair, PutAcct, JournalRec
<1>3. PutAcct(PutAcct(j, b, z), a, y) = [j EXCEPT !.acct = [[j.acct EXCEPT ![b] = z] EXCEPT ![a] = y]]
  BY Zenon DEF PutAcct, JournalRec
<1>4. [[j.acct EXCEPT ![b] = z] EXCEPT ![a] = y] = A(y, z)
  BY <1>1
<1>5. ASSUME NEW x \in Account
      PROVE  /\ PutAcct(PutPair(j, a, y, b, z), a, x) = [j EXCEPT !.acct = [A(y, z) EXCEPT ![a] = x]]
             /\ PutAcct(PutPair(j, a, y, b, z), b, x) = [j EXCEPT !.acct = [A(y, z) EXCEPT ![b] = x]]
             /\ [A(y, z) EXCEPT ![a] = x] = A(x, z)
             /\ [A(y, z) EXCEPT ![b] = x] = A(y, x)
  <2>1. /\ [A(y, z) EXCEPT ![a] = x] = A(x, z)
        /\ [A(y, z) EXCEPT ![b] = x] = A(y, x)
    BY <1>1
  <2>2. PutPair(j, a, y, b, z) = [j EXCEPT !.acct = A(y, z)]
    BY <1>2
  <2> HIDE DEF A
  <2>3. \A f : PutAcct([j EXCEPT !.acct = f], a, x) = [j EXCEPT !.acct = [f EXCEPT ![a] = x]]
    BY Zenon DEF PutAcct, JournalRec
  <2>4. \A f : PutAcct([j EXCEPT !.acct = f], b, x) = [j EXCEPT !.acct = [f EXCEPT ![b] = x]]
    BY Zenon DEF PutAcct, JournalRec
  <2> QED BY <2>1, <2>2, <2>3, <2>4
<1>6. PutPair(j, a, j.acct[a], b, j.acct[b]) = j
  <2>1. A(j.acct[a], j.acct[b]) = j.acct
    BY <1>1
  <2>2. [j EXCEPT !.acct = j.acct] = j
    BY DEF JournalRec
  <2> HIDE DEF A
  <2> QED BY <1>2, <2>1, <2>2
<1> HIDE DEF A
<1> QED BY <1>2, <1>3, <1>4, <1>5, <1>6, SMTT(30)

\* A transfer, and the revert of its entry.
LEMMA MoveForms ==
  ASSUME NEW j \in JournalRec, NEW a \in Addr, NEW b \in Addr, a # b, NEW v \in Balance
  PROVE  LET y == WithBal(j.acct[a], Minus(j.acct[a].bal, v))
             z == WithBal(j.acct[b], Plus(j.acct[b].bal, v))
             m == PutPair(j, a, y, b, z)
         IN  /\ Credit(Debit(j, a, v), b, v) = m
             /\ Debit(Credit(j, b, v), a, v) = m
             /\ Debit(Credit(m, a, v), b, v) = j
<1> DEFINE x == j.acct[a]
           w == j.acct[b]
           y == WithBal(x, Minus(x.bal, v))
           z == WithBal(w, Plus(w.bal, v))
           m == PutPair(j, a, y, b, z)
<1>1. x \in Account /\ w \in Account /\ x.bal \in Balance /\ w.bal \in Balance
  BY DEF JournalRec, Account
<1>2. /\ Minus(x.bal, v) \in Balance /\ Plus(w.bal, v) \in Balance
      /\ Plus(Minus(x.bal, v), v) = x.bal /\ Minus(Plus(w.bal, v), v) = w.bal
  BY <1>1, PlusMinus
<1>3. /\ y \in Account /\ y.bal = Minus(x.bal, v) /\ WithBal(y, x.bal) = x
      /\ z \in Account /\ z.bal = Plus(w.bal, v) /\ WithBal(z, w.bal) = w
  BY <1>1, <1>2, WithBalFields, ZenonT(60)
<1> HIDE DEF y, z
<1>4. Credit(Debit(j, a, v), b, v) = m
  <2> DEFINE d == PutAcct(j, a, y)
  <2>1. Debit(j, a, v) = d
    BY BalanceForms DEF y
  <2>2. d \in JournalRec /\ d.acct[b] = w
    BY <1>3, PutAcctFields, GrownTrans
  <2> HIDE DEF d
  <2>3. Credit(d, b, v) = PutAcct(d, b, z)
    BY <2>2, BalanceForms DEF z
  <2> QED BY <2>1, <2>3 DEF PutPair, d
<1>5. Debit(Credit(j, b, v), a, v) = m
  <2> DEFINE d == PutAcct(j, b, z)
  <2>1. Credit(j, b, v) = d
    BY BalanceForms DEF z
  <2>2. d \in JournalRec /\ d.acct[a] = x
    BY <1>3, PutAcctFields, GrownTrans
  <2> HIDE DEF d
  <2>3. Debit(d, a, v) = PutAcct(d, a, y)
    BY <2>2, BalanceForms DEF y
  <2> QED BY <1>3, <2>1, <2>3, PutPairForms DEF d
<1>6. Debit(Credit(m, a, v), b, v) = j
  <2>1. m \in JournalRec /\ m.acct[a] = y /\ m.acct[b] = z
    BY <1>3, PutPairFields
  <2>2. Credit(m, a, v) = PutPair(j, a, x, b, z)
    <3>1. Credit(m, a, v) = PutAcct(m, a, WithBal(y, Plus(y.bal, v)))
      <4> HIDE DEF m
      <4> QED BY <2>1, BalanceForms
    <3>2. WithBal(y, Plus(y.bal, v)) = x
      BY <1>2, <1>3
    <3> QED BY <1>1, <1>3, <3>1, <3>2, PutPairForms
  <2> DEFINE n == PutPair(j, a, x, b, z)
  <2>3. n \in JournalRec /\ n.acct[b] = z
    <3>1. x \in Account /\ z \in Account
      BY <1>1, <1>3
    <3> HIDE DEF x, z
    <3> QED
      BY <3>1, PutPairFields
  <2>4. Debit(n, b, v) = PutPair(j, a, x, b, w)
    <3>1. Debit(n, b, v) = PutAcct(n, b, WithBal(z, Minus(z.bal, v)))
      <4> HIDE DEF n
      <4> QED BY <2>3, BalanceForms
    <3>2. WithBal(z, Minus(z.bal, v)) = w
      BY <1>2, <1>3
    <3> QED BY <1>1, <1>3, <3>1, <3>2, PutPairForms
  <2> QED BY <1>1, <1>3, <2>2, <2>4, PutPairForms
<1> QED BY <1>4, <1>5, <1>6 DEF y, z

\* A balance move that is recorded, between accounts that are not empty for being deleted.
LEMMA LeadsMove ==
  ASSUME NEW B \in BOOLEAN, NEW r \in JournalRec, NEW i \in JournalRec, NEW j \in JournalRec,
         NEW D, NEW C \in SUBSET Checkpoint, NEW a \in Addr, NEW b \in Addr, a # b,
         NEW v \in Balance,
         Leads(B, r, D, C, i, j), j.acct[a].loaded, j.acct[b].loaded,
         B => ~Marked(j.acct[a]) \/ Doomed(j.acct[a]),
         B => ~Marked(j.acct[b]) \/ Doomed(j.acct[b])
  PROVE  LET m == Debit(Credit(j, b, v), a, v)
             k == Record(m, BalanceTransfer(a, b, v))
         IN  /\ Credit(Debit(j, a, v), b, v) = m
             /\ Leads(B, r, D, C, i, k)
             /\ k.acct[b] = WithBal(j.acct[b], Plus(j.acct[b].bal, v))
<1> DEFINE x == j.acct[a]
           w == j.acct[b]
           y == WithBal(x, Minus(x.bal, v))
           z == WithBal(w, Plus(w.bal, v))
           e == BalanceTransfer(a, b, v)
           m == PutPair(j, a, y, b, z)
           FF(u, t) == /\ t \in Account /\ t.nonce = u.nonce /\ t.code = u.code
                       /\ t.loaded = u.loaded /\ t.tx = u.tx /\ t.status = u.status
                       /\ Doomed(t) <=> Doomed(u)
                       /\ Marked(t) <=> Marked(u)
                       /\ Cleared(t) <=> Cleared(u)
                       /\ CreatedNow(t) <=> CreatedNow(u)
                       /\ WarmNow(t) <=> WarmNow(u)
                       /\ Vacant(t) <=> Vacant(u)
<1>1. x \in Account /\ w \in Account /\ x.bal \in Balance /\ w.bal \in Balance
  BY DEF JournalRec, Account
<1>2. Minus(x.bal, v) \in Balance /\ Plus(w.bal, v) \in Balance
  BY <1>1, PlusMinus
<1>3. FF(x, y) /\ FF(w, z)
  BY <1>1, <1>2, WithBalFields, ZenonT(30)
<1>4. Sound(B, r, j, D, C) /\ Current(r, j)
  BY DEF Leads
<1>5. AcctGood(B, x, a) /\ AcctGood(B, w, b) /\ x.tx <= txid /\ w.tx <= txid
  BY <1>4 DEF Sound, StateGood, Current
<1>6. /\ Credit(Debit(j, a, v), b, v) = m /\ Debit(Credit(j, b, v), a, v) = m
      /\ Debit(Credit(m, a, v), b, v) = j
  BY MoveForms
<1>7. e \in Entry /\ e.addr = a /\ e.target = b /\ e.bal = v /\ e.kind = "BalanceTransfer"
  BY DEF Entry, BalanceTransfer
<1> HIDE DEF y, z, e
<1>8. Undo(m, e) = j
  BY <1>6, <1>7 DEF Undo
<1>9. AcctGood(B, y, a) /\ AcctGood(B, z, b)
  BY <1>3, <1>5 DEF AcctGood
<1>10. Follows(B, x, y, a) /\ Follows(B, w, z, b)
  BY <1>3, <1>5, <1>9 DEF Follows
<1>11. (Doomed(y) => Doomed(x)) /\ (Doomed(z) => Doomed(w))
  BY <1>3
<1> HIDE DEF FF
<1>12. Leads(B, r, D, C, i, Record(m, e))
  BY <1>7, <1>8, <1>10, <1>11, LeadsPair
<1>13. Record(m, e).acct[b] = z
  <2>1. m \in JournalRec /\ m.acct[b] = z
    BY <1>10, PutPairFields DEF Follows
  <2> HIDE DEF m
  <2> QED BY <1>7, <2>1, RecordFields
<1> QED BY <1>6, <1>12, <1>13 DEF e, z, w

\* A debit and a touch of another account commute.
LEMMA DebitTouch ==
  ASSUME NEW j \in JournalRec, NEW a \in Addr, NEW b \in Addr, a # b, NEW v \in Balance
  PROVE  TouchAccount(Debit(j, a, v), b) = Debit(TouchAccount(j, b), a, v)
<1>1. ASSUME NEW k \in JournalRec
      PROVE  /\ \A f : Has(Debit(k, a, v), b, f) <=> Has(k, b, f)
             /\ \A e : Record(Debit(k, a, v), e) = Debit(Record(k, e), a, v)
             /\ Mark(Debit(k, a, v), b, {"Touched"}) = Debit(Mark(k, b, {"Touched"}), a, v)
             /\ Unmark(Debit(k, a, v), b, {"SelfDestructed"})
                  = Debit(Unmark(k, b, {"SelfDestructed"}), a, v)
  <2>1. \A f : Has(Debit(k, a, v), b, f) <=> Has(k, b, f)
    BY DEF Has, Debit, JournalRec
  <2>2. \A e : Record(Debit(k, a, v), e) = Debit(Record(k, e), a, v)
    BY Zenon DEF Record, Debit, JournalRec
  <2> DEFINE y == WithBal(k.acct[a], Minus(k.acct[a].bal, v))
             m == PutAcct(k, a, y)
             z == [k.acct[b] EXCEPT !.status = @ \cup {"Touched"}]
             w == [k.acct[b] EXCEPT !.status = @ \ {"SelfDestructed"}]
  <2>3. k.acct[a] \in Account /\ k.acct[b] \in Account /\ y \in Account /\ z \in Account /\ w \in Account
    <3>1. k.acct[a] \in Account /\ k.acct[b] \in Account /\ k.acct[a].bal \in Balance
      BY DEF JournalRec, Account
    <3> QED BY <3>1, PlusMinus, WithBalFields DEF Account, Flag
  <2>4. Debit(k, a, v) = m /\ m \in JournalRec /\ m.acct[b] = k.acct[b]
    BY <2>3, BalanceForms, PutAcctFields, GrownTrans
  <2>5. ASSUME NEW u \in Account
        PROVE  PutAcct(m, b, u) = Debit(PutAcct(k, b, u), a, v)
    <3> DEFINE n == PutAcct(k, b, u)
    <3>1. n \in JournalRec /\ n.acct[a] = k.acct[a]
      BY PutAcctFields, GrownTrans
    <3> HIDE DEF n, y
    <3>2. Debit(n, a, v) = PutAcct(n, a, y)
      BY <3>1, BalanceForms DEF y
    <3>3. PutAcct(m, b, u) = PutAcct(n, a, y)
      BY <2>3, PutPairForms DEF PutPair, n
    <3> QED BY <3>2, <3>3 DEF n
  <2>6. /\ Mark(k, b, {"Touched"}) = PutAcct(k, b, z)
        /\ Unmark(k, b, {"SelfDestructed"}) = PutAcct(k, b, w)
    BY Zenon DEF Mark, Unmark, PutAcct
  <2> HIDE DEF m
  <2>7. /\ Mark(m, b, {"Touched"}) = PutAcct(m, b, z)
        /\ Unmark(m, b, {"SelfDestructed"}) = PutAcct(m, b, w)
    BY <2>4, Zenon DEF Mark, Unmark, PutAcct
  <2> HIDE DEF z, w
  <2> QED BY <2>1, <2>2, <2>3, <2>4, <2>5, <2>6, <2>7
<1>2. ASSUME NEW k \in JournalRec
      PROVE  /\ MarkTouched(Debit(k, a, v), b) = Debit(MarkTouched(k, b), a, v)
             /\ Revive(Debit(k, a, v), b) = Debit(Revive(k, b), a, v)
  <2> DEFINE e == [kind |-> "AccountTouched", addr |-> b]
             f == [kind |-> "SelfdestructCleared", addr |-> b]
  <2>1. e \in Entry /\ f \in Entry
    BY DEF Entry
  <2>2. MarkTouched(k, b) = IF Has(k, b, "Touched") THEN k ELSE Mark(Record(k, e), b, {"Touched"})
    BY DEF MarkTouched
  <2>3. MarkTouched(Debit(k, a, v), b) =
          IF Has(Debit(k, a, v), b, "Touched") THEN Debit(k, a, v)
            ELSE Mark(Record(Debit(k, a, v), e), b, {"Touched"})
    BY DEF MarkTouched
  <2>4. Revive(k, b) =
          IF Has(k, b, "SelfDestructed") /\ ~Has(k, b, "SelfDestructLocal")
            THEN Unmark(Record(k, f), b, {"SelfDestructed"}) ELSE k
    BY DEF Revive
  <2>5. Revive(Debit(k, a, v), b) =
          IF Has(Debit(k, a, v), b, "SelfDestructed") /\ ~Has(Debit(k, a, v), b, "SelfDestructLocal")
            THEN Unmark(Record(Debit(k, a, v), f), b, {"SelfDestructed"}) ELSE Debit(k, a, v)
    BY DEF Revive
  <2> HIDE DEF e, f
  <2>6. Record(k, e) \in JournalRec /\ Record(k, f) \in JournalRec
    BY <2>1, RecordFields
  <2>7. Mark(Record(Debit(k, a, v), e), b, {"Touched"}) = Debit(Mark(Record(k, e), b, {"Touched"}), a, v)
    BY <1>1, <2>6
  <2>8. Unmark(Record(Debit(k, a, v), f), b, {"SelfDestructed"})
          = Debit(Unmark(Record(k, f), b, {"SelfDestructed"}), a, v)
    BY <1>1, <2>6
  <2> QED BY <1>1, <2>2, <2>3, <2>4, <2>5, <2>7, <2>8
<1>3. Revive(j, b) \in JournalRec
  <2>1. CASE Has(j, b, "SelfDestructed") /\ ~Has(j, b, "SelfDestructLocal")
    <3> DEFINE f == [kind |-> "SelfdestructCleared", addr |-> b]
    <3>1. f \in Entry
      BY DEF Entry
    <3>2. Revive(j, b) = Unmark(Record(j, f), b, {"SelfDestructed"})
      BY <2>1 DEF Revive
    <3> HIDE DEF f
    <3>3. Record(j, f) \in JournalRec
      BY <3>1, RecordFields
    <3> QED BY <3>2, <3>3, FieldUpdates, GrownTrans DEF Flag
  <2>2. CASE ~(Has(j, b, "SelfDestructed") /\ ~Has(j, b, "SelfDestructLocal"))
    BY <2>2 DEF Revive
  <2> QED BY <2>1, <2>2
<1> QED BY <1>2, <1>3 DEF TouchAccount

\* TransferLoaded: the accounts are in the map.  With B, no two balances exceed MaxBalance.
LEMMA LeadsTransfer ==
  ASSUME NEW B \in BOOLEAN, NEW r \in JournalRec, NEW i \in JournalRec, NEW j \in JournalRec,
         NEW D, NEW C \in SUBSET Checkpoint, NEW a \in Addr, NEW b \in Addr,
         NEW v \in Balance,
         Leads(B, r, D, C, i, j), j.acct[a].loaded, j.acct[b].loaded,
         B /\ a # b => j.acct[a].bal + j.acct[b].bal <= MaxBalance
  PROVE  Leads(B, r, D, C, i, TransferLoaded(j, a, b, v))
<1> DEFINE s == TouchAccount(j, a)
           t == TouchAccount(s, b)
           x == j.acct[a]
           w == j.acct[b]
           d == TouchAccount(Debit(s, a, v), b)
<1>1. x \in Account /\ w \in Account /\ x.bal \in Balance /\ w.bal \in Balance
  BY DEF JournalRec, Account
<1>2. CASE a = b
  BY <1>2 DEF TransferLoaded
<1>3. CASE a # b /\ v = 0
  <2>1. TransferLoaded(j, a, b, v) = TouchAccount(j, b)
    BY <1>3 DEF TransferLoaded
  <2> QED BY <2>1, LeadsTouch
<1>4. CASE a # b /\ v # 0
  <2>1. Leads(B, r, D, C, i, s) /\ Puts(j, s, a, TouchOf(x))
    BY LeadsTouch
  <2>2. s \in JournalRec /\ s.acct[a] = TouchOf(x) /\ s.acct[b] = w
    BY <1>4, <2>1 DEF Puts
  <2> HIDE DEF s
  <2>3. Leads(B, r, D, C, i, t) /\ Puts(s, t, b, TouchOf(w))
    BY <2>1, <2>2, LeadsTouch
  <2>4. t \in JournalRec /\ t.acct[a] = TouchOf(x) /\ t.acct[b] = TouchOf(w)
    BY <1>4, <2>2, <2>3 DEF Puts
  <2>5. d = Debit(t, a, v)
    BY <1>4, <2>2, DebitTouch
  <2> HIDE DEF t, d
  <2>6. /\ TouchOf(x).bal = x.bal /\ TouchOf(w).bal = w.bal
        /\ TouchOf(x).loaded /\ TouchOf(w).loaded
        /\ ~Marked(TouchOf(x)) \/ Doomed(TouchOf(x))
        /\ ~Marked(TouchOf(w)) \/ Doomed(TouchOf(w))
        /\ TouchOf(x) \in Account
    BY <1>1, TouchOfFields
  <2>7. TransferLoaded(j, a, b, v) =
          IF v > s.acct[a].bal THEN s
            ELSE IF d.acct[b].bal + v > MaxBalance THEN d
            ELSE Record(Credit(d, b, v), BalanceTransfer(a, b, v))
    BY <1>4 DEF TransferLoaded, s, d
  <2> DEFINE y == WithBal(TouchOf(x), Minus(x.bal, v))
  <2>8. /\ y \in Account /\ y.bal = Minus(x.bal, v)
        /\ Minus(x.bal, v) \in Balance
    <3> DEFINE u == TouchOf(x)
               c == Minus(x.bal, v)
    <3>1. u \in Account /\ c \in Balance
      BY <1>1, <2>6, PlusMinus
    <3>2. y = WithBal(u, c)
      OBVIOUS
    <3> HIDE DEF y, u, c
    <3>3. WithBal(u, c) \in Account /\ WithBal(u, c).bal = c
      BY <3>1, WithBalFields
    <3> QED
      BY <3>1, <3>2, <3>3 DEF c
  <2>9. Debit(t, a, v) = PutAcct(t, a, y)
    BY <2>4, <2>6, BalanceForms
  <2>10. d \in JournalRec /\ d.acct[b] = TouchOf(w) /\ d.acct[a] = y /\ d.entries = t.entries
         /\ \A c \in Addr : c # a => d.acct[c] = t.acct[c]
         /\ d.slot = t.slot
    BY <1>4, <2>4, <2>5, <2>8, <2>9, PutAcctFields, GrownTrans, Z3T(30)
  <2>11. CASE v > s.acct[a].bal
    BY <2>1, <2>7, <2>11
  <2>12. CASE ~(v > s.acct[a].bal) /\ d.acct[b].bal + v > MaxBalance
    <3>1. ~B
      BY <1>1, <1>4, <2>2, <2>6, <2>10, <2>12, ConstantsOK DEF Balance
    <3>2. /\ SameAcct(B, TouchOf(x), y, a)
          /\ Cleared(y) <=> Cleared(TouchOf(x))
          /\ Follows(B, TouchOf(x), y, a)
          /\ Doomed(y) <=> Doomed(TouchOf(x))
      <4>1. AcctGood(B, TouchOf(x), a) /\ TouchOf(x).tx <= txid
        BY <2>3, <2>4 DEF Leads, Sound, StateGood, Current
      <4>2. /\ y.nonce = TouchOf(x).nonce /\ y.code = TouchOf(x).code
            /\ y.loaded = TouchOf(x).loaded /\ y.tx = TouchOf(x).tx
            /\ y.status = TouchOf(x).status
            /\ Doomed(y) <=> Doomed(TouchOf(x))
            /\ Marked(y) <=> Marked(TouchOf(x))
            /\ Cleared(y) <=> Cleared(TouchOf(x))
            /\ CreatedNow(y) <=> CreatedNow(TouchOf(x))
            /\ WarmNow(y) <=> WarmNow(TouchOf(x))
            /\ Vacant(y) <=> Vacant(TouchOf(x))
            /\ SameAcct(B, TouchOf(x), y, a)
        BY <2>6, <2>8, <3>1, WithBalFields, Zenon
      <4>3. AcctGood(B, y, a)
        BY <3>1, <4>1, <4>2 DEF AcctGood
      <4> QED BY <2>6, <2>8, <4>1, <4>2, <4>3 DEF Follows
    <3>3. AllNamed(t)
      BY <2>3 DEF Leads, Reverts
    <3> HIDE DEF y
    <3>4. Reverts(B, t, d) /\ Puts(t, d, a, y)
      BY <2>4, <2>5, <2>8, <2>9, <3>2, <3>3, UnrecordedAcct
    <3>5. \A f \in D : f \in D
      OBVIOUS
    <3>6. Leads(B, r, D, C, i, d)
      <4>1. Doomed(y) => Doomed(t.acct[a])
        BY <2>4, <3>2
      <4>2. Follows(B, t.acct[a], y, a)
        BY <2>4, <3>2
      <4> QED BY <2>3, <2>4, <3>4, <4>1, <4>2, LeadsFollows
    <3> QED BY <2>7, <2>12, <3>6
  <2>13. CASE ~(v > s.acct[a].bal) /\ ~(d.acct[b].bal + v > MaxBalance)
    <3>1. Credit(d, b, v) = Debit(Credit(t, b, v), a, v)
      BY <1>4, <2>4, <2>5, MoveForms
    <3>2. Leads(B, r, D, C, i, Record(Debit(Credit(t, b, v), a, v), BalanceTransfer(a, b, v)))
      BY <1>4, <2>3, <2>4, <2>6, LeadsMove
    <3> QED BY <2>7, <2>13, <3>1, <3>2
  <2> QED BY <2>11, <2>12, <2>13
<1> QED BY <1>2, <1>3, <1>4

\* TransferBalance.
LEMMA LeadsTransferBalance ==
  ASSUME NEW B \in BOOLEAN, NEW r \in JournalRec, NEW i \in JournalRec, NEW j \in JournalRec,
         NEW D, NEW C \in SUBSET Checkpoint, NEW a \in Addr, NEW b \in Addr,
         NEW v \in Balance, txid \in Nat,
         Leads(B, r, D, C, i, j),
         B /\ a # b => j.acct[a].bal + j.acct[b].bal <= MaxBalance
  PROVE  Leads(B, r, D, C, i, TransferBalance(j, a, b, v))
<1> DEFINE s == Load(j, a)
           t == Load(s, b)
<1>1. Leads(B, r, D, C, i, s) /\ Puts(j, s, a, s.acct[a]) /\ LoadedAs(j.acct[a], s.acct[a])
  BY LeadsLoad
<1>2. s \in JournalRec
  BY <1>1 DEF Puts
<1> HIDE DEF s
<1>3. Leads(B, r, D, C, i, t) /\ Puts(s, t, b, t.acct[b]) /\ LoadedAs(s.acct[b], t.acct[b])
  BY <1>1, <1>2, LeadsLoad
<1> HIDE DEF t
<1>4. t \in JournalRec /\ t.acct[b].loaded /\ t.acct[b].bal = j.acct[b].bal
  BY <1>1, <1>3 DEF Puts, LoadedAs, WarmNow
<1>5. a # b => t.acct[a].loaded /\ t.acct[a].bal = j.acct[a].bal
  BY <1>1, <1>3 DEF Puts, LoadedAs, WarmNow
<1>6. Leads(B, r, D, C, i, TransferLoaded(t, a, b, v))
  BY <1>3, <1>4, <1>5, LeadsTransfer
<1> QED BY <1>6 DEF TransferBalance, s, t

\* One account replaced, and an entry that puts back the one it was.
LEMMA LeadsRecorded ==
  ASSUME NEW B \in BOOLEAN, NEW r \in JournalRec, NEW i \in JournalRec, NEW j \in JournalRec,
         NEW D, NEW C \in SUBSET Checkpoint, NEW a \in Addr, NEW y, NEW e \in Entry,
         Leads(B, r, D, C, i, j), e.addr = a,
         e.kind \notin {"AccountDestroyed", "BalanceTransfer", "StorageWarmed", "StorageChanged"},
         Undo(PutAcct(j, a, y), e) = j,
         Follows(B, j.acct[a], y, a), Doomed(y) => Doomed(j.acct[a])
  PROVE  /\ Leads(B, r, D, C, i, Record(PutAcct(j, a, y), e))
         /\ Puts(j, Record(PutAcct(j, a, y), e), a, y)
<1> DEFINE x == j.acct[a]
           k == Record(PutAcct(j, a, y), e)
<1>1. AllNamed(j) /\ x \in Account
  BY DEF Leads, Reverts, JournalRec
<1>2. PutAcct(j, a, x) = j
  BY <1>1, PutTwice
<1>3. SameAcct(B, x, x, a)
  BY DEF SameAcct
<1>4. Reverts(B, j, k) /\ Puts(j, k, a, y)
  <2> HIDE DEF x
  <2> QED BY <1>1, <1>2, <1>3, RecordedAcct DEF Follows, x
<1> HIDE DEF k
<1>5. Leads(B, r, D, C, i, k)
  BY <1>4, LeadsFollows
<1> QED BY <1>4, <1>5 DEF k

\* An account given another balance in the same state.
LEMMA FollowsBal ==
  ASSUME NEW B \in BOOLEAN, NEW a \in Addr, NEW x \in Account, NEW v \in Balance,
         AcctGood(B, x, a), x.tx <= txid, x.loaded,
         B => ~Marked(x) \/ Doomed(x) \/ v = 0
  PROVE  Follows(B, x, WithBal(x, v), a) /\ (Doomed(WithBal(x, v)) <=> Doomed(x))
<1> DEFINE y == WithBal(x, v)
<1>1. /\ y \in Account /\ y.bal = v /\ y.nonce = x.nonce /\ y.code = x.code
      /\ y.loaded = x.loaded /\ y.tx = x.tx /\ y.status = x.status
      /\ Doomed(y) <=> Doomed(x)
      /\ Marked(y) <=> Marked(x)
      /\ Cleared(y) <=> Cleared(x)
      /\ CreatedNow(y) <=> CreatedNow(x)
      /\ WarmNow(y) <=> WarmNow(x)
      /\ Vacant(y) <=> Vacant(x)
  BY WithBalFields, Zenon
<1> HIDE DEF y
<1>2. AcctGood(B, y, a)
  BY <1>1 DEF AcctGood
<1>3. Follows(B, x, y, a)
  BY <1>1, <1>2 DEF Follows
<1> QED BY <1>1, <1>3 DEF y

\* BalanceIncr.
LEMMA LeadsIncrBalance ==
  ASSUME NEW B \in BOOLEAN, NEW r \in JournalRec, NEW i \in JournalRec, NEW j \in JournalRec,
         NEW D, NEW C \in SUBSET Checkpoint, NEW a \in Addr,
         NEW v \in Balance, txid \in Nat, Leads(B, r, D, C, i, j)
  PROVE  Leads(B, r, D, C, i, IncrBalance(j, a, v))
<1> DEFINE l == Load(j, a)
           t == TouchAccount(l, a)
           x == t.acct[a]
           y == WithBal(x, Plus(x.bal, v))
           e == [kind |-> "BalanceChange", addr |-> a, bal |-> x.bal]
<1>1. Leads(B, r, D, C, i, l) /\ l \in JournalRec /\ l.acct[a].loaded
  BY LeadsLoad DEF Puts, LoadedAs, WarmNow
<1>2. l.acct[a] \in Account
  BY <1>1 DEF JournalRec
<1>3. IncrBalance(j, a, v) = IF Credit(t, a, v).acct[a].bal = x.bal THEN Credit(t, a, v)
                               ELSE Record(Credit(t, a, v), e)
  BY DEF IncrBalance
<1> HIDE DEF l
<1>4. Leads(B, r, D, C, i, t) /\ t \in JournalRec /\ x = TouchOf(l.acct[a])
  BY <1>1, LeadsTouch DEF Puts
<1> HIDE DEF t
<1>5. x \in Account /\ x.loaded /\ x.bal \in Balance /\ (~Marked(x) \/ Doomed(x))
  <2>1. x \in Account /\ x.loaded /\ (~Marked(x) \/ Doomed(x))
    BY <1>1, <1>2, <1>4, TouchOfFields
  <2> QED BY <2>1 DEF Account
<1>6. AcctGood(B, x, a) /\ x.tx <= txid
  BY <1>4 DEF Leads, Sound, StateGood, Current
<1>7. Plus(x.bal, v) \in Balance
  BY <1>5, PlusMinus
<1>8. e \in Entry /\ e.addr = a /\ e.kind = "BalanceChange" /\ e.bal = x.bal
  BY <1>5 DEF Entry
<1>9. Credit(t, a, v) = PutAcct(t, a, y)
  BY <1>4, BalanceForms
<1> HIDE DEF e, x
<1>10. /\ Follows(B, x, y, a) /\ (Doomed(y) <=> Doomed(x))
       /\ y \in Account /\ y.bal = Plus(x.bal, v) /\ WithBal(y, x.bal) = x
  BY <1>5, <1>6, <1>7, FollowsBal, WithBalFields, Zenon
<1>11. PutAcct(t, a, y) \in JournalRec /\ PutAcct(t, a, y).acct[a] = y
  BY <1>4, <1>10, PutAcctFields, GrownTrans
<1>12. PutAcct(t, a, x) = t /\ \A z : PutAcct(PutAcct(t, a, y), a, z) = PutAcct(t, a, z)
  BY <1>4, <1>10, PutTwice DEF x
<1> HIDE DEF y
<1>13. CASE Plus(x.bal, v) = x.bal
  <2>1. y = x
    <3>1. WithBal(x, x.bal) = x
      BY <1>5, Zenon DEF WithBal, Account
    <3> QED BY <1>13, <3>1 DEF y
  <2> QED BY <1>3, <1>4, <1>9, <1>10, <1>11, <1>12, <1>13, <2>1
<1>14. CASE Plus(x.bal, v) # x.bal
  <2>1. Undo(PutAcct(t, a, y), e) = t
    <3>1. Undo(PutAcct(t, a, y), e) = SetBalance(PutAcct(t, a, y), a, x.bal)
      BY <1>8 DEF Undo
    <3> DEFINE m == PutAcct(t, a, y)
    <3> HIDE DEF m
    <3>2. SetBalance(m, a, x.bal) = PutAcct(m, a, WithBal(y, x.bal))
      BY <1>5, <1>11, BalanceForms DEF m
    <3> QED BY <1>10, <1>12, <3>1, <3>2 DEF m
  <2>2. Leads(B, r, D, C, i, Record(PutAcct(t, a, y), e))
    BY <1>4, <1>8, <1>10, <2>1, LeadsRecorded DEF x
  <2> QED BY <1>3, <1>9, <1>10, <1>11, <1>14, <2>2
<1> QED BY <1>13, <1>14

\* executeCreate's increment of the creator's nonce.
LEMMA LeadsBumpNonce ==
  ASSUME NEW B \in BOOLEAN, NEW r \in JournalRec, NEW i \in JournalRec, NEW j \in JournalRec,
         NEW D, NEW C \in SUBSET Checkpoint, NEW a \in Addr, Leads(B, r, D, C, i, j),
         j.acct[a].loaded, ~Marked(j.acct[a]) \/ Doomed(j.acct[a]), j.acct[a].nonce < MaxNonce
  PROVE  LET n == j.acct[a].nonce
         IN  Leads(B, r, D, C, i,
                   Record(SetNonce(j, a, n + 1), [kind |-> "NonceChange", addr |-> a, nonce |-> n]))
<1> DEFINE x == j.acct[a]
           n == x.nonce
           y == [x EXCEPT !.nonce = n + 1]
           e == [kind |-> "NonceChange", addr |-> a, nonce |-> n]
<1>1. x \in Account /\ n \in Nonce /\ n + 1 \in Nonce
  <2>1. x \in Account
    BY DEF JournalRec
  <2> QED BY <2>1, ConstantsOK DEF Account, Nonce
<1>2. AcctGood(B, x, a) /\ x.tx <= txid
  BY DEF Leads, Sound, StateGood, Current
<1>3. e \in Entry /\ e.addr = a /\ e.kind = "NonceChange" /\ e.nonce = n
  BY <1>1 DEF Entry
<1> HIDE DEF e
<1>4. y \in Account /\ y.nonce = n + 1 /\ y.nonce # 0
  BY <1>1 DEF Account, Nonce
<1>5. /\ Follows(B, x, y, a) /\ (Doomed(y) <=> Doomed(x))
  BY <1>1, <1>2, <1>4 DEF Follows, AcctGood, Account, Marked, Doomed, Cleared, CreatedNow,
                          WarmNow, Vacant
<1>6. SetNonce(j, a, n + 1) = PutAcct(j, a, y)
  BY Zenon DEF SetNonce, PutAcct
<1>7. Undo(PutAcct(j, a, y), e) = j
  <2>1. Undo(PutAcct(j, a, y), e) = SetNonce(PutAcct(j, a, y), a, n)
    BY <1>3 DEF Undo
  <2>2. [y EXCEPT !.nonce = n] = x
    BY <1>1, Zenon DEF Account
  <2>3. PutAcct(j, a, y) \in JournalRec /\ PutAcct(j, a, y).acct[a] = y
    BY <1>4, PutAcctFields, GrownTrans
  <2>4. PutAcct(j, a, x) = j /\ \A z : PutAcct(PutAcct(j, a, y), a, z) = PutAcct(j, a, z)
    BY <1>4, PutTwice
  <2> DEFINE m == PutAcct(j, a, y)
  <2> HIDE DEF m, y
  <2>5. SetNonce(m, a, n) = PutAcct(m, a, [y EXCEPT !.nonce = n])
    <3>1. m.acct[a] = y
      BY <2>3 DEF m
    <3> QED BY <3>1, Zenon DEF SetNonce, PutAcct
  <2> QED BY <2>1, <2>2, <2>4, <2>5 DEF m
<1> HIDE DEF y
<1>8. Leads(B, r, D, C, i, Record(PutAcct(j, a, y), e))
  BY <1>3, <1>5, <1>7, LeadsRecorded
<1> QED BY <1>6, <1>8 DEF e

-----------------------------------------------------------------------------
(***************************************************************************)
(* CREATE and SELFDESTRUCT.                                                *)
(***************************************************************************)
\* y is the account x once it has been created.
CreatedFrom(x, y) ==
  /\ y \in Account /\ WarmNow(y) /\ CreatedNow(y) /\ ~Marked(y) /\ ~Doomed(y)
  /\ y.bal = x.bal /\ y.nonce = (IF SpuriousDragon THEN 1 ELSE x.nonce) /\ y.code = NoCode
  /\ Cleared(y) <=> Cleared(x)
  /\ "Touched" \in y.status

\* CreateAccountCheckpoint, up to the value transfer.
LEMMA LeadsNewAccount ==
  ASSUME NEW B \in BOOLEAN, NEW r \in JournalRec, NEW i \in JournalRec, NEW j \in JournalRec,
         NEW D, NEW C \in SUBSET Checkpoint, NEW a \in Addr, Leads(B, r, D, C, i, j),
         WarmNow(j.acct[a]), ~Collides(j, a),
         SpuriousDragon \/ "Created" \notin j.acct[a].status
  PROVE  LET k == NewAccount(j, a)
             y == k.acct[a]
         IN  Leads(B, r, D, C, i, k) /\ Puts(j, k, a, y) /\ CreatedFrom(j.acct[a], y)
<1> DEFINE x == j.acct[a]
           new == {"Created", "CreatedLocal"}
           y == [x EXCEPT !.status = @ \cup new, !.nonce = IF SpuriousDragon THEN 1 ELSE @]
           e == [kind |-> "AccountCreated", addr |-> a, global |-> "Created" \notin x.status]
           m == Record(PutAcct(j, a, y), e)
           t == TouchOf(y)
<1>1. x \in Account /\ x.loaded /\ x.code = NoCode /\ x.nonce = 0 /\ ~HasStorage(j, a) /\ x.tx = txid
      /\ "Cold" \notin x.status
  <2>1. x \in Account
    BY DEF JournalRec
  <2>2. x.nonce \in Nonce
    BY <2>1 DEF Account
  <2> QED BY <2>1, <2>2 DEF Collides, WarmNow
<1>2. AllNamed(j) /\ AcctGood(B, x, a) /\ x.tx <= txid
  BY DEF Leads, Reverts, Sound, StateGood, Current
<1>3. ~CreatedNow(x) /\ ~Doomed(x) /\ "CreatedLocal" \notin x.status
  BY <1>1, <1>2 DEF AcctGood, CreatedNow
<1>4. Cleared(x) \/ \A q \in Key : DBStorage[a][q] = 0
  BY <1>1, <1>2, <1>3 DEF HasStorage, Has, AcctGood, Marked, Doomed, Cleared
<1>5. y \in Account /\ y.loaded /\ y.nonce = (IF SpuriousDragon THEN 1 ELSE x.nonce)
      /\ y.bal = x.bal /\ y.code = NoCode /\ WarmNow(y) /\ y.tx = txid /\ CreatedNow(y) /\ "Created" \in y.status
      /\ (Cleared(y) <=> Cleared(x)) /\ ~Doomed(y)
  <2>1. 1 \in Nonce
    BY ConstantsOK DEF Nonce
  <2> QED BY <1>1, <1>3, <2>1, Zenon DEF Account, Flag, CreatedNow, WarmNow, Cleared, Doomed
<1>6. e \in Entry /\ e.addr = a /\ e.kind = "AccountCreated"
      /\ e.global = ("Created" \notin x.status)
  BY DEF Entry
<1> HIDE DEF e
<1>7. IF SpuriousDragon THEN TRUE ELSE y = [x EXCEPT !.status = @ \cup new]
  BY <1>1, Zenon DEF Account
<1>8. NewAccount(j, a) = TouchAccount(m, a)
  <2> DEFINE made == Mark(Record(j, e), a, new)
  <2>1. NewAccount(j, a) = TouchAccount(IF SpuriousDragon THEN SetNonce(made, a, 1) ELSE made, a)
    BY DEF NewAccount, e, Has
  <2>2. made = Record(Mark(j, a, new), e)
    BY RecordCommutes
  <2>3. Mark(j, a, new) = PutAcct(j, a, [x EXCEPT !.status = @ \cup new])
    BY Zenon DEF Mark, PutAcct
  <2> DEFINE u == [x EXCEPT !.status = @ \cup new]
  <2>4. u \in Account
    BY <1>1 DEF Account, Flag
  <2>5. PutAcct(j, a, u) \in JournalRec /\ PutAcct(j, a, u).acct[a] = u
    BY <2>4, PutAcctFields, GrownTrans
  <2>6. CASE SpuriousDragon
    <3>1. SetNonce(made, a, 1) = Record(SetNonce(PutAcct(j, a, u), a, 1), e)
      BY <2>2, <2>3, <2>5, RecordCommutes
    <3>2. SetNonce(PutAcct(j, a, u), a, 1) = PutAcct(j, a, [u EXCEPT !.nonce = 1])
      <4> DEFINE n == PutAcct(j, a, u)
      <4>1. SetNonce(n, a, 1) = PutAcct(n, a, [u EXCEPT !.nonce = 1])
        <5>1. n.acct[a] = u
          BY <2>5
        <5> HIDE DEF n, u
        <5> QED BY <5>1, Zenon DEF SetNonce, PutAcct
      <4>2. \A z : PutAcct(n, a, z) = PutAcct(j, a, z)
        <5> HIDE DEF u
        <5> QED BY <2>4, PutTwice
      <4> HIDE DEF n, u
      <4> QED BY <4>1, <4>2 DEF n
    <3>3. [u EXCEPT !.nonce = 1] = y
      BY <1>1, <2>6 DEF Account
    <3> HIDE DEF made, u, y
    <3> QED BY <2>1, <2>6, <3>1, <3>2, <3>3 DEF m
  <2>7. CASE ~SpuriousDragon
    <3>1. u = y
      BY <1>7, <2>7
    <3> HIDE DEF made, u, y
    <3>2. made = Record(PutAcct(j, a, u), e)
      BY <2>2, <2>3, Zenon DEF u
    <3> QED BY <2>1, <2>7, <3>1, <3>2
  <2> QED BY <2>6, <2>7
<1>9. Undo(PutAcct(j, a, y), e) = PutAcct(j, a, x)
  <2> DEFINE F == {"CreatedLocal"} \cup (IF e.global THEN {"Created"} ELSE {})
             n == PutAcct(j, a, y)
  <2>1. Undo(n, e) = SetNonce(Unmark(n, a, F), a, 0)
    BY <1>6, Zenon DEF Undo, UndoCreated
  <2>2. [[y EXCEPT !.status = @ \ F] EXCEPT !.nonce = 0] = x
    <3>1. F \subseteq new /\ (y.status \ F) = x.status
      BY <1>1, <1>3, <1>6, ZenonT(60) DEF Account
    <3> HIDE DEF F
    <3> QED BY <1>1, <3>1, Zenon DEF Account
  <2> DEFINE w == [y EXCEPT !.status = @ \ F]
  <2>3. w \in Account
    BY <1>5, Zenon DEF Account
  <2> HIDE DEF F, y
  <2>4. n.acct[a] = y /\ n \in JournalRec
    BY <1>5, PutAcctFields, GrownTrans
  <2> HIDE DEF n
  <2>5. Unmark(n, a, F) = PutAcct(n, a, w)
    BY <2>4, Zenon DEF Unmark, PutAcct
  <2> HIDE DEF w
  <2>6. SetNonce(PutAcct(n, a, w), a, 0) = PutAcct(PutAcct(n, a, w), a, [w EXCEPT !.nonce = 0])
    <3>1. PutAcct(n, a, w).acct[a] = w
      BY <2>3, <2>4, PutAcctFields
    <3> DEFINE o == PutAcct(n, a, w)
    <3> HIDE DEF o
    <3>2. SetNonce(o, a, 0) = PutAcct(o, a, [w EXCEPT !.nonce = 0])
      BY <3>1, Zenon DEF SetNonce, PutAcct, o
    <3> QED BY <3>2 DEF o
  <2>7. \A z : PutAcct(PutAcct(n, a, w), a, z) = PutAcct(n, a, z)
    BY <2>3, <2>4, PutTwice
  <2>8. \A z : PutAcct(n, a, z) = PutAcct(j, a, z)
    BY <1>5, PutTwice DEF n
  <2>9. [w EXCEPT !.nonce = 0] = x
    BY <2>2 DEF w
  <2> HIDE DEF x
  <2> QED BY <2>1, <2>5, <2>6, <2>7, <2>8, <2>9 DEF n
<1>10. SameAcct(B, x, x, a)
  BY DEF SameAcct
<1> HIDE DEF y, x
<1>11. Reverts(B, j, m) /\ Puts(j, m, a, y)
  BY <1>1, <1>2, <1>5, <1>6, <1>9, <1>10, RecordedAcct DEF x
<1>12. m \in JournalRec /\ AllNamed(m) /\ m.acct[a] = y
  BY <1>11 DEF Puts, Reverts
<1> HIDE DEF m
<1> DEFINE k == TouchAccount(m, a)
<1>13. Reverts(B, m, k) /\ Puts(m, k, a, t)
  BY <1>5, <1>12, RevertsTouch
<1> HIDE DEF k
<1>14. Reverts(B, j, k) /\ Puts(j, k, a, t)
  BY <1>11, <1>12, <1>13, RevertsTrans, PutsTrans DEF Puts
<1>15. /\ t \in Account /\ t.loaded /\ t.tx = txid /\ t.nonce = y.nonce /\ t.code = NoCode
       /\ t.bal = x.bal /\ CreatedNow(t) /\ "Created" \in t.status /\ (Cleared(t) <=> Cleared(x))
       /\ ~Doomed(t) /\ ~Marked(t) /\ WarmNow(t) /\ "Touched" \in t.status
  BY <1>5, TouchOfFields
<1> HIDE DEF t
<1>16. AcctGood(B, t, a)
  BY <1>4, <1>5, <1>15 DEF AcctGood
<1>17. ~Vacant(t)
  BY <1>5, <1>15 DEF Vacant
<1>18. Follows(B, x, t, a)
  BY <1>1, <1>2, <1>15, <1>16, <1>17 DEF Follows
<1>19. Leads(B, r, D, C, i, k)
  BY <1>14, <1>15, <1>18, LeadsFollows DEF x
<1>20. k.acct[a] = t
  BY <1>14 DEF Puts
<1>21. CreatedFrom(x, t)
  BY <1>5, <1>15 DEF CreatedFrom
<1> QED BY <1>8, <1>14, <1>19, <1>20, <1>21 DEF k, x

\* The value transfer of CreateAccountCheckpoint.
LEMMA LeadsEndow ==
  ASSUME NEW B \in BOOLEAN, NEW r \in JournalRec, NEW i \in JournalRec, NEW j \in JournalRec,
         NEW D, NEW C \in SUBSET Checkpoint, NEW a \in Addr, NEW b \in Addr, a # b,
         NEW v \in Balance, Leads(B, r, D, C, i, j), j.acct[a].loaded, j.acct[b].loaded,
         ~Marked(j.acct[b]), v <= j.acct[a].bal
  PROVE  LET k == Endow(j, a, b, v)
         IN  /\ Leads(B, r, D, C, i, k)
             /\ k.acct[b] = WithBal(j.acct[b], k.acct[b].bal) /\ k.acct[b].bal \in Balance
<1>0. j.acct[b] \in Account /\ j.acct[b].bal \in Balance /\ j.acct[a].bal \in Balance
  BY DEF JournalRec, Account
<1>1. CASE v = 0
  <2>1. WithBal(j.acct[b], j.acct[b].bal) = j.acct[b]
    BY <1>0, Zenon DEF WithBal, Account
  <2> QED BY <1>0, <1>1, <2>1 DEF Endow
<1>2. CASE v # 0
  <2>1. B => ~Marked(j.acct[a]) \/ Doomed(j.acct[a])
    <3>1. AcctGood(B, j.acct[a], a)
      BY DEF Leads, Sound, StateGood
    <3>2. j.acct[a].bal # 0
      BY <1>0, <1>2, ConstantsOK DEF Balance
    <3> QED BY <3>1, <3>2 DEF AcctGood
  <2> DEFINE k == Record(Debit(Credit(j, b, v), a, v), BalanceTransfer(a, b, v))
  <2>2. Endow(j, a, b, v) = k
    BY <1>2 DEF Endow
  <2>3. Leads(B, r, D, C, i, k) /\ k.acct[b] = WithBal(j.acct[b], Plus(j.acct[b].bal, v))
    BY <2>1, LeadsMove
  <2>4. Plus(j.acct[b].bal, v) \in Balance
    BY <1>0, PlusMinus
  <2>5. WithBal(j.acct[b], Plus(j.acct[b].bal, v)).bal = Plus(j.acct[b].bal, v)
    BY <1>0, <2>4, WithBalFields, Zenon
  <2> HIDE DEF k
  <2> QED BY <2>2, <2>3, <2>4, <2>5
<1> QED BY <1>1, <1>2

\* setCodeWithHash, of an account that this transaction created.
LEMMA LeadsDeployCode ==
  ASSUME NEW B \in BOOLEAN, NEW r \in JournalRec, NEW i \in JournalRec, NEW j \in JournalRec,
         NEW D, NEW C \in SUBSET Checkpoint, NEW a \in Addr, NEW c \in Code,
         Leads(B, r, D, C, i, j), j.acct[a].loaded, CreatedNow(j.acct[a])
  PROVE  Leads(B, r, D, C, i, DeployCode(j, a, c))
<1> DEFINE t == TouchAccount(j, a)
           x == t.acct[a]
           y == [x EXCEPT !.code = c]
           e == [kind |-> "CodeChange", addr |-> a, code |-> x.code]
<1>0. j.acct[a] \in Account
  BY DEF JournalRec
<1>1. DeployCode(j, a, c) = SetCode(Record(t, e), a, c)
  BY DEF DeployCode
<1>2. Leads(B, r, D, C, i, t) /\ t \in JournalRec /\ x = TouchOf(j.acct[a])
  BY LeadsTouch DEF Puts
<1> HIDE DEF t
<1>3. x \in Account /\ x.loaded /\ CreatedNow(x) /\ (~Marked(x) \/ Doomed(x)) /\ x.code \in Code
  <2>1. x \in Account /\ x.loaded /\ CreatedNow(x) /\ (~Marked(x) \/ Doomed(x))
    BY <1>0, <1>2, TouchOfFields
  <2> QED BY <2>1 DEF Account
<1>4. AcctGood(B, x, a) /\ x.tx <= txid
  BY <1>2 DEF Leads, Sound, StateGood, Current
<1>5. e \in Entry /\ e.addr = a /\ e.kind = "CodeChange" /\ e.code = x.code
  BY <1>3 DEF Entry
<1> HIDE DEF e
<1>6. SetCode(Record(t, e), a, c) = Record(SetCode(t, a, c), e)
  BY <1>2, RecordCommutes
<1>7. SetCode(t, a, c) = PutAcct(t, a, y)
  BY Zenon DEF SetCode, PutAcct
<1>8. y \in Account /\ [y EXCEPT !.code = x.code] = x
  <2> HIDE DEF x
  <2> QED BY <1>3, Zenon DEF Account
<1>9. Follows(B, x, y, a) /\ (Doomed(y) <=> Doomed(x))
  <2> HIDE DEF x
  <2> QED BY <1>3, <1>4, <1>8 DEF Follows, AcctGood, Account, Marked, Doomed, Cleared, CreatedNow,
                                  WarmNow, Vacant
<1>10. Undo(PutAcct(t, a, y), e) = t
  <2> DEFINE m == PutAcct(t, a, y)
  <2>1. Undo(m, e) = SetCode(m, a, x.code)
    BY <1>5, Zenon DEF Undo
  <2>2. m \in JournalRec /\ m.acct[a] = y
    BY <1>2, <1>8, PutAcctFields, GrownTrans
  <2>3. PutAcct(t, a, x) = t /\ \A z : PutAcct(m, a, z) = PutAcct(t, a, z)
    <3> HIDE DEF y
    <3> QED BY <1>2, <1>8, PutTwice
  <2> HIDE DEF m, y
  <2>4. SetCode(m, a, x.code) = PutAcct(m, a, [y EXCEPT !.code = x.code])
    BY <2>2, Zenon DEF SetCode, PutAcct
  <2> QED BY <1>8, <2>1, <2>3, <2>4 DEF m
<1> HIDE DEF y, x
<1>11. Leads(B, r, D, C, i, Record(PutAcct(t, a, y), e))
  BY <1>2, <1>5, <1>9, <1>10, LeadsRecorded DEF x
<1> QED BY <1>1, <1>6, <1>7, <1>11

\* The account x once it has been marked by SELFDESTRUCT and emptied of its balance.
StruckMark(x) == [x EXCEPT !.status = @ \cup {"SelfDestructed", "SelfDestructLocal"}]
Struck(x) == WithBal(StruckMark(x), 0)
Unstruck(y, F) == [y EXCEPT !.status = @ \ F]

DestroyFlags(s) ==
  CASE s = "Global"   -> {"SelfDestructed", "SelfDestructLocal"}
    [] s = "Local"    -> {"SelfDestructLocal"}
    [] s = "Repeated" -> {}

\* An account that can run is struck for good, or was already; what marks it is what
\* reverting takes away.
LEMMA StruckFacts ==
  ASSUME NEW B \in BOOLEAN, NEW a \in Addr, NEW j \in JournalRec, j.acct[a].tx <= txid,
         AcctGood(B, j.acct[a], a), WarmNow(j.acct[a]),
         j.acct[a].code # NoCode \/ CreatedNow(j.acct[a]),
         Cancun => CreatedNow(j.acct[a])
  PROVE  LET x == j.acct[a]
             y == Struck(x)
             s == DestroyStatus(j, a)
         IN  /\ StruckMark(x) \in Account /\ StruckMark(x).bal = x.bal
             /\ y \in Account /\ y.bal = 0
             /\ Unstruck(y, DestroyFlags(s)) \in Account
             /\ Unstruck(y, DestroyFlags(s)).bal = 0
             /\ WithBal(Unstruck(y, DestroyFlags(s)), x.bal) = x
             /\ s = IF Marked(x) THEN "Repeated" ELSE "Global"
             /\ Marked(x) => Doomed(x)
             /\ Follows(B, x, y, a)
<1> DEFINE x == j.acct[a]
           y == Struck(x)
           s == DestroyStatus(j, a)
           F == {"SelfDestructed", "SelfDestructLocal"}
<1>1. x \in Account /\ x.bal \in Balance /\ 0 \in Balance /\ x.status \in SUBSET Flag
  BY ConstantsOK DEF JournalRec, Account, Balance
<1>2. Marked(x) => Doomed(x)
  BY DEF AcctGood
<1>3. Doomed(x) => Marked(x)
  BY DEF AcctGood
<1>4. s = IF Marked(x) THEN "Repeated" ELSE "Global"
  BY <1>2 DEF DestroyStatus, Has, Marked, Doomed
<1>5. StruckMark(x) \in Account /\ StruckMark(x).bal = x.bal /\ StruckMark(x).status = x.status \cup F
      /\ StruckMark(x).code = x.code /\ StruckMark(x).nonce = x.nonce /\ StruckMark(x).tx = x.tx
      /\ StruckMark(x).loaded = x.loaded
  <2> HIDE DEF x
  <2> QED BY <1>1 DEF StruckMark, Account, Flag
<1> DEFINE u == StruckMark(x)
<1> HIDE DEF u
<1>6. /\ y \in Account /\ y.bal = 0 /\ y.status = x.status \cup F /\ y.code = x.code
      /\ y.nonce = x.nonce /\ y.tx = x.tx /\ y.loaded = x.loaded
  BY <1>1, <1>5, WithBalFields, ZenonT(60) DEF Struck, u
<1>7. DestroyFlags(s) = IF Marked(x) THEN {} ELSE F
  BY <1>4 DEF DestroyFlags
<1>8. y.status \ DestroyFlags(s) = x.status
  BY <1>1, <1>2, <1>3, <1>6, <1>7 DEF Marked, Doomed
<1>9. /\ Unstruck(y, DestroyFlags(s)) \in Account /\ Unstruck(y, DestroyFlags(s)).bal = 0
      /\ WithBal(Unstruck(y, DestroyFlags(s)), x.bal) = x
  <2> DEFINE z == Unstruck(y, DestroyFlags(s))
  <2> HIDE DEF x, y, s
  <2>1. z \in Account /\ z.bal = 0 /\ z.status = x.status /\ z.code = x.code
        /\ z.nonce = x.nonce /\ z.tx = x.tx /\ z.loaded = x.loaded
    BY <1>1, <1>6, <1>8 DEF Unstruck, Account
  <2> HIDE DEF z
  <2>2. WithBal(z, x.bal) = x
    BY <1>1, <2>1 DEF WithBal, Account
  <2> QED BY <2>1, <2>2 DEF z
<1>10. Follows(B, x, y, a)
  <2>1. /\ Doomed(y) /\ Marked(y) /\ (Cleared(y) <=> Cleared(x)) /\ (CreatedNow(y) <=> CreatedNow(x))
        /\ WarmNow(y) /\ ("Created" \in y.status <=> "Created" \in x.status)
    <3> HIDE DEF y, x
    <3> QED BY <1>6 DEF Doomed, Marked, Cleared, CreatedNow, WarmNow, x
  <2> HIDE DEF y
  <2>2. y.loaded
    BY <2>1 DEF WarmNow
  <2>3. AcctGood(B, y, a)
    BY <1>6, <2>1, <2>2 DEF AcctGood
  <2>4. Vacant(y) => Vacant(x)
    BY <1>6, <2>1 DEF Vacant
  <2> QED BY <1>6, <2>1, <2>2, <2>3, <2>4 DEF Follows
<1> QED BY <1>1, <1>2, <1>4, <1>5, <1>6, <1>9, <1>10

\* Undoing the entry of a self-destruct gives the account its flags and balance back.
LEMMA UndoStruck ==
  ASSUME NEW j \in JournalRec, NEW a \in Addr, NEW b \in Addr, NEW v \in Balance, NEW s,
         NEW m \in JournalRec, NEW y \in Account, m.acct[a] = y, y.bal = 0,
         Unstruck(y, DestroyFlags(s)) \in Account, Unstruck(y, DestroyFlags(s)).bal = 0,
         NEW e \in Entry, e.kind = "AccountDestroyed", e.addr = a, e.target = b, e.bal = v,
         e.status = s, s \in RevertStatus
  PROVE  Undo(m, e) = LET n == PutAcct(m, a, WithBal(Unstruck(y, DestroyFlags(s)), v))
                      IN  IF a # b THEN Debit(n, b, v) ELSE n
<1> DEFINE F == DestroyFlags(s)
           u == Unstruck(y, F)
           o == PutAcct(m, a, u)
           n == PutAcct(m, a, WithBal(u, v))
<1>1. Unmark(m, a, F) = o
  BY Zenon DEF Unmark, PutAcct, Unstruck
<1>2. o \in JournalRec /\ o.acct[a] = u
  BY PutAcctFields, GrownTrans
<1>3. Credit(o, a, v) = n
  <2>1. Plus(0, v) = v
    BY ConstantsOK DEF Plus, Balance
  <2>2. \A z : PutAcct(o, a, z) = PutAcct(m, a, z)
    <3>1. u \in Account
      OBVIOUS
    <3> HIDE DEF u
    <3> QED BY <3>1, PutTwice
  <2> HIDE DEF o, u
  <2>3. Credit(o, a, v) = PutAcct(o, a, WithBal(u, Plus(u.bal, v)))
    BY <1>2, BalanceForms
  <2>4. u.bal = 0
    BY DEF u
  <2> QED BY <2>1, <2>2, <2>3, <2>4
<1>4. Undo(m, e) = UndoDestroyed(m, e)
  BY DEF Undo
<1>5. UndoDestroyed(m, e) = LET back == Credit(Unmark(m, a, F), a, v)
                            IN  IF a # b THEN Debit(back, b, v) ELSE back
  BY DEF UndoDestroyed, DestroyFlags
<1> HIDE DEF F, o
<1> QED BY <1>1, <1>3, <1>4, <1>5 DEF F

\* Selfdestruct, of an account that runs: what it appends to the list of the doomed is in E.
LEMMA LeadsDestroy ==
  ASSUME NEW B \in BOOLEAN, NEW r \in JournalRec, NEW i \in JournalRec, NEW j \in JournalRec,
         NEW D, NEW E, NEW C \in SUBSET Checkpoint, NEW a \in Addr, NEW b \in Addr, txid \in Nat,
         Leads(B, r, D, C, i, j), \A d \in D : d \in E,
         \A c \in C : c.journalI <= Len(i.entries),
         WarmNow(j.acct[a]), j.acct[a].code # NoCode \/ CreatedNow(j.acct[a]),
         LET p == PayBeneficiary(j, a, b)
         IN  MayDestroy(p, a) /\ DestroyStatus(p, a) = "Global" => a \in E
  PROVE  Leads(B, r, E, C, i, Destroy(j, a, b))
<1> DEFINE l == Load(j, b)
           p == PayBeneficiary(j, a, b)
           x == j.acct[a]
           bal == p.acct[a].bal
           s == DestroyStatus(p, a)
           y == Struck(x)
           F == {"SelfDestructed", "SelfDestructLocal"}
           e == [kind |-> "AccountDestroyed", addr |-> a, target |-> b, status |-> s, bal |-> bal]
           k == Record(SetBalance(Mark(p, a, F), a, 0), e)
<1>1. Leads(B, r, D, C, i, l) /\ Puts(j, l, b, l.acct[b]) /\ LoadedAs(j.acct[b], l.acct[b])
  BY LeadsLoad
<1>2. l \in JournalRec /\ l.acct[a] = x /\ l.acct[b].loaded /\ x \in Account
  <2>1. l.acct[a] = x
    BY <1>1 DEF Puts, LoadedAs, WarmNow
  <2> QED BY <1>1, <2>1 DEF Puts, LoadedAs, WarmNow, JournalRec
<1> HIDE DEF l
<1>3. Destroy(j, a, b) = IF MayDestroy(p, a) THEN k
                           ELSE IF a # b THEN Record(SetBalance(p, a, 0), BalanceTransfer(a, b, bal))
                           ELSE p
  BY DEF Destroy
<1>4. ASSUME NEW u, u \in JournalRec, Leads(B, r, D, C, i, u)
      PROVE  /\ \A d \in D : d \in E
             /\ \A c \in C : c.journalI <= Len(u.entries)
             /\ \A c \in Addr : AcctGood(B, u.acct[c], c) /\ u.acct[c].tx <= txid
             /\ AllNamed(u) /\ Leads(B, r, E, C, i, u)
  <2>1. \A c \in C : c.journalI <= Len(u.entries)
    <3>1. Len(i.entries) \in Nat /\ Len(u.entries) \in Nat /\ \A c \in C : c.journalI \in Nat
      BY <1>4 DEF JournalRec, Checkpoint
    <3>2. Len(i.entries) <= Len(u.entries)
      BY <1>4 DEF Leads, Reverts
    <3> QED BY <3>1, <3>2
  <2>2. \A c \in Addr : AcctGood(B, u.acct[c], c) /\ u.acct[c].tx <= txid
    BY <1>4 DEF Leads, Sound, StateGood, Current
  <2>3. Leads(B, r, E, C, i, u)
    BY <1>4 DEF Leads, Sound, ListGood
  <2> QED BY <1>4, <2>1, <2>2, <2>3 DEF Leads, Reverts
<1>5. x.bal \in Balance /\ 0 \in Balance /\ x.loaded /\ Plus(0, x.bal) = x.bal
      /\ Minus(x.bal, x.bal) = 0
  BY <1>2, ConstantsOK DEF WarmNow, Account, Balance, Plus, Minus
<1>6. ASSUME NEW q \in JournalRec, q.acct[a] = x, AcctGood(B, x, a), x.tx <= txid, MayDestroy(q, a)
      PROVE  /\ StruckMark(x) \in Account /\ StruckMark(x).bal = x.bal
             /\ y \in Account /\ y.bal = 0
             /\ Unstruck(y, DestroyFlags(DestroyStatus(q, a))) \in Account
             /\ Unstruck(y, DestroyFlags(DestroyStatus(q, a))).bal = 0
             /\ WithBal(Unstruck(y, DestroyFlags(DestroyStatus(q, a))), x.bal) = x
             /\ DestroyStatus(q, a) = IF Marked(x) THEN "Repeated" ELSE "Global"
             /\ Marked(x) => Doomed(x)
             /\ Follows(B, x, y, a)
             /\ SetBalance(Mark(q, a, F), a, 0) = PutAcct(q, a, y)
  <2>1. Cancun => CreatedNow(x)
    BY <1>6 DEF MayDestroy, Has, CreatedNow, WarmNow
  <2>2. /\ StruckMark(x) \in Account /\ StruckMark(x).bal = x.bal
        /\ y \in Account /\ y.bal = 0
        /\ Unstruck(y, DestroyFlags(DestroyStatus(q, a))) \in Account
        /\ Unstruck(y, DestroyFlags(DestroyStatus(q, a))).bal = 0
        /\ WithBal(Unstruck(y, DestroyFlags(DestroyStatus(q, a))), x.bal) = x
        /\ DestroyStatus(q, a) = IF Marked(x) THEN "Repeated" ELSE "Global"
        /\ Marked(x) => Doomed(x)
        /\ Follows(B, x, y, a)
    <3> HIDE DEF x, y
    <3>1. /\ AcctGood(B, q.acct[a], a) /\ WarmNow(q.acct[a]) /\ q.acct[a].tx <= txid
          /\ q.acct[a].code # NoCode \/ CreatedNow(q.acct[a])
          /\ Cancun => CreatedNow(q.acct[a])
      BY <1>6, <2>1 DEF x
    <3> QED BY <1>6, <3>1, StruckFacts DEF y
  <2> DEFINE u == StruckMark(x)
             m == PutAcct(q, a, u)
  <2>3. Mark(q, a, F) = m
    BY <1>6, Zenon DEF Mark, PutAcct, StruckMark
  <2>4. m \in JournalRec /\ m.acct[a] = u
    <3>1. u \in Account
      BY <2>2
    <3> HIDE DEF u
    <3>2. m \in Same(q) /\ m.acct[a] = u
      BY <3>1, PutAcctFields
    <3> QED
      BY <3>2, GrownTrans
  <2>5. \A z : PutAcct(m, a, z) = PutAcct(q, a, z)
    <3>1. u \in Account
      BY <2>2
    <3> HIDE DEF u
    <3> QED BY <3>1, PutTwice
  <2> HIDE DEF m, u
  <2>6. SetBalance(m, a, 0) = PutAcct(m, a, WithBal(u, 0))
    BY <1>5, <2>4, BalanceForms
  <2> QED BY <2>2, <2>3, <2>5, <2>6 DEF Struck, u
<1>7. CASE a = b
  <2>1. p = l
    BY <1>7 DEF PayBeneficiary, l
  <2>2. CASE ~MayDestroy(p, a)
    BY <1>1, <1>2, <1>3, <1>4, <1>7, <2>1, <2>2
  <2>3. CASE MayDestroy(p, a)
    <3>1. p \in JournalRec /\ p.acct[a] = x /\ Leads(B, r, D, C, i, p)
      BY <1>1, <1>2, <2>1
    <3>2. AcctGood(B, x, a) /\ x.tx <= txid
      BY <1>4, <3>1
    <3> HIDE DEF p, y, x
    <3>3. /\ y \in Account /\ y.bal = 0 /\ Unstruck(y, DestroyFlags(s)) \in Account
          /\ Unstruck(y, DestroyFlags(s)).bal = 0
          /\ WithBal(Unstruck(y, DestroyFlags(s)), x.bal) = x
          /\ s = IF Marked(x) THEN "Repeated" ELSE "Global"
          /\ Marked(x) => Doomed(x)
          /\ Follows(B, x, y, a)
          /\ SetBalance(Mark(p, a, F), a, 0) = PutAcct(p, a, y)
      BY <1>6, <2>3, <3>1, <3>2
    <3>4. s \in RevertStatus /\ bal = x.bal
      BY <3>1, <3>3 DEF RevertStatus
    <3>5. e \in Entry /\ e.kind = "AccountDestroyed" /\ e.addr = a /\ e.target = b /\ e.bal = x.bal
          /\ e.status = s
      BY <1>5, <3>4 DEF Entry
    <3> HIDE DEF e, s
    <3> DEFINE m == PutAcct(p, a, y)
    <3>6. m \in JournalRec /\ m.acct[a] = y /\ m.slot = p.slot /\ m.entries = p.entries
          /\ \A c \in Addr : c # a => m.acct[c] = p.acct[c]
      BY <3>1, <3>3, PutAcctFields, GrownTrans
    <3>7. PutAcct(m, a, x) = p
      BY <3>1, <3>3, PutTwice
    <3> HIDE DEF m
    <3>8. Undo(m, e) = p
      <4>1. Undo(m, e) = PutAcct(m, a, WithBal(Unstruck(y, DestroyFlags(s)), x.bal))
        BY <1>5, <1>7, <3>3, <3>4, <3>5, <3>6, UndoStruck
      <4> QED BY <3>3, <3>7, <4>1
    <3>9. Named(m, e)
      BY <1>7, <3>3, <3>5, <3>6 DEF Named, Follows
    <3> DEFINE n == Record(m, e)
    <3>10. Reverts(B, p, n)
      <4>1. Keeps(B, p, Undo(m, e)) /\ AllNamed(p)
        BY <1>4, <3>1, <3>8, KeepsTrans
      <4> QED BY <3>1, <3>5, <3>6, <3>9, <4>1, StepRecorded
    <3>11. n \in JournalRec /\ n.acct = m.acct /\ n.slot = m.slot
           /\ Len(n.entries) = Len(p.entries) + 1 /\ n.entries[Len(p.entries) + 1] = e
      BY <3>5, <3>6, RecordFields, SMTT(30)
    <3> HIDE DEF n
    <3>12. ASSUME ~Doomed(x) PROVE a \in E /\ \A c \in C : c.created = a => DestroyedIn(n, c)
      <4>1. s = "Global"
        BY <3>3, <3>12
      <4>2. a \in E
        BY <2>3, <4>1 DEF s, p
      <4>3. ASSUME NEW c \in C, c.created = a PROVE DestroyedIn(n, c)
        <5>1. c.journalI \in Nat /\ Len(p.entries) \in Nat /\ c.journalI <= Len(p.entries)
          <6>1. c \in Checkpoint /\ p.entries \in Seq(Entry)
            BY <3>1 DEF JournalRec
          <6>2. c.journalI <= Len(p.entries)
            BY <1>4, <3>1
          <6> QED BY <6>1, <6>2 DEF Checkpoint
        <5>2. Len(p.entries) + 1 \in c.journalI + 1 .. Len(n.entries)
          BY <3>11, <5>1
        <5> QED BY <3>5, <3>11, <4>1, <4>3, <5>2 DEF DestroyedIn
      <4> QED BY <4>2, <4>3
    <3>13. /\ AcctGood(B, n.acct[a], a)
           /\ Cleared(n.acct[a]) <=> Cleared(p.acct[a])
           /\ Vacant(n.acct[a]) => Vacant(p.acct[a])
           /\ n.acct[a].tx <= txid
           /\ CreatedNow(p.acct[a]) => CreatedNow(n.acct[a])
      BY <3>1, <3>3, <3>6, <3>11 DEF Follows
    <3>14. Leads(B, r, E, C, i, n)
      BY <3>1, <3>6, <3>10, <3>11, <3>12, <3>13, LeadsAcct, SMTT(30)
    <3>15. Destroy(j, a, b) = n
      BY <1>3, <2>3, <3>3 DEF n, m
    <3> QED BY <3>14, <3>15
  <2> QED BY <2>2, <2>3
<1>8. CASE a # b
  <2> DEFINE t == TouchAccount(l, b)
             w == t.acct[b]
             z == WithBal(w, Plus(w.bal, x.bal))
  <2>1. p = Credit(t, b, x.bal)
    BY <1>2, <1>8 DEF PayBeneficiary, l
  <2>2. Leads(B, r, D, C, i, t) /\ Puts(l, t, b, TouchOf(l.acct[b]))
    BY <1>1, <1>2, LeadsTouch
  <2>3. t \in JournalRec /\ t.acct[a] = x /\ w = TouchOf(l.acct[b])
    BY <1>2, <1>8, <2>2 DEF Puts
  <2> HIDE DEF t
  <2>4. w \in Account /\ w.loaded /\ (~Marked(w) \/ Doomed(w)) /\ w.bal \in Balance
    <3>1. l.acct[b] \in Account
      BY <1>2 DEF JournalRec
    <3>2. w \in Account /\ w.loaded /\ (~Marked(w) \/ Doomed(w))
      BY <1>2, <2>3, <3>1, TouchOfFields
    <3> QED BY <3>2 DEF Account
  <2>5. AcctGood(B, x, a) /\ x.tx <= txid /\ AcctGood(B, w, b) /\ w.tx <= txid
    BY <1>4, <2>2, <2>3
  <2> HIDE DEF w
  <2>6. /\ Plus(w.bal, x.bal) \in Balance /\ Minus(Plus(w.bal, x.bal), x.bal) = w.bal
    BY <1>5, <2>4, PlusMinus
  <2>7. /\ z \in Account /\ z.bal = Plus(w.bal, x.bal) /\ WithBal(z, w.bal) = w
        /\ Follows(B, w, z, b) /\ (Doomed(z) <=> Doomed(w))
    BY <2>4, <2>5, <2>6, FollowsBal, WithBalFields
  <2>8. p = PutAcct(t, b, z)
    BY <1>5, <2>1, <2>3, BalanceForms DEF w
  <2> HIDE DEF z
  <2>9. p \in JournalRec /\ p.acct[a] = x /\ bal = x.bal
    <3>1. p \in JournalRec /\ p.acct[a] = x
      BY <1>8, <2>3, <2>7, <2>8, PutAcctFields, GrownTrans
    <3> QED BY <3>1
  <2>10. CASE ~MayDestroy(p, a)
    <3>1. SetBalance(p, a, 0) = Debit(Credit(t, b, x.bal), a, x.bal)
      <4> HIDE DEF p
      <4>1. SetBalance(p, a, 0) = PutAcct(p, a, WithBal(x, 0))
        BY <1>5, <2>9, BalanceForms
      <4>2. Debit(p, a, x.bal) = PutAcct(p, a, WithBal(x, 0))
        BY <1>5, <2>9, BalanceForms
      <4> QED BY <2>1, <4>1, <4>2
    <3>2. ~Marked(x) \/ Doomed(x)
      BY <2>5 DEF AcctGood
    <3>3. Leads(B, r, D, C, i, Record(Debit(Credit(t, b, x.bal), a, x.bal), BalanceTransfer(a, b, x.bal)))
      <4> HIDE DEF x
      <4> QED BY <1>5, <1>8, <2>2, <2>3, <2>4, <3>2, LeadsMove DEF w
    <3> DEFINE n == Record(Debit(Credit(t, b, x.bal), a, x.bal), BalanceTransfer(a, b, x.bal))
    <3>4. Destroy(j, a, b) = n
      <4> HIDE DEF p
      <4> QED BY <1>3, <1>8, <2>9, <2>10, <3>1, SMTT(30)
    <3>5. n \in JournalRec
      BY <3>3, ZenonT(30) DEF Leads, Reverts
    <3> HIDE DEF n
    <3> QED BY <1>4, <3>3, <3>4, <3>5 DEF n
  <2>11. CASE MayDestroy(p, a)
    <3> HIDE DEF p, y, x
    <3>3. /\ y \in Account /\ y.bal = 0 /\ Unstruck(y, DestroyFlags(s)) \in Account
          /\ Unstruck(y, DestroyFlags(s)).bal = 0
          /\ WithBal(Unstruck(y, DestroyFlags(s)), x.bal) = x
          /\ s = IF Marked(x) THEN "Repeated" ELSE "Global"
          /\ Marked(x) => Doomed(x)
          /\ Follows(B, x, y, a)
          /\ SetBalance(Mark(p, a, F), a, 0) = PutAcct(p, a, y)
      BY <1>6, <2>5, <2>9, <2>11
    <3>4. s \in RevertStatus
      BY <3>3 DEF RevertStatus
    <3>5. e \in Entry /\ e.kind = "AccountDestroyed" /\ e.addr = a /\ e.target = b /\ e.bal = x.bal
          /\ e.status = s
      BY <1>5, <2>9, <3>4 DEF Entry
    <3> HIDE DEF e, s
    <3> DEFINE m == PutPair(t, a, y, b, z)
    <3>6. PutAcct(p, a, y) = m /\ m \in JournalRec /\ m.acct[a] = y
      BY <1>8, <2>3, <2>7, <2>8, <3>3, PutPairForms, PutPairFields, SMTT(30)
    <3>7. PutAcct(m, a, x) = PutPair(t, a, x, b, z)
      BY <1>2, <1>8, <2>3, <2>7, <3>3, PutPairForms
    <3>8. Debit(PutPair(t, a, x, b, z), b, x.bal) = t
      <4> DEFINE o == PutPair(t, a, x, b, z)
      <4>1. o \in JournalRec /\ o.acct[b] = z
        BY <1>2, <1>8, <2>3, <2>7, PutPairFields
      <4>2. PutAcct(o, b, w) = PutPair(t, a, x, b, w)
        BY <1>2, <1>8, <2>3, <2>4, <2>7, PutPairForms
      <4>3. PutPair(t, a, x, b, w) = t
        BY <1>2, <1>8, <2>3, <2>4, PutPairForms DEF w
      <4> HIDE DEF o
      <4>4. Debit(o, b, x.bal) = PutAcct(o, b, WithBal(z, Minus(z.bal, x.bal)))
        BY <1>5, <4>1, BalanceForms
      <4> QED BY <2>6, <2>7, <4>2, <4>3, <4>4 DEF o
    <3> HIDE DEF m
    <3>9. Undo(m, e) = t
      <4> DEFINE n == PutAcct(m, a, WithBal(Unstruck(y, DestroyFlags(s)), x.bal))
      <4>1. Undo(m, e) = IF a # b THEN Debit(n, b, x.bal) ELSE n
        BY <1>5, <3>3, <3>4, <3>5, <3>6, UndoStruck
      <4>2. n = PutAcct(m, a, x)
        BY <3>3
      <4> HIDE DEF n
      <4> QED BY <1>8, <3>7, <3>8, <4>1, <4>2
    <3>10. Doomed(y) => \/ Doomed(x)
                        \/ /\ a \in E /\ e.kind = "AccountDestroyed" /\ e.status = "Global"
                           /\ \A c \in C : c.journalI <= Len(t.entries)
      <4>1. SUFFICES ASSUME ~Doomed(x)
                     PROVE  a \in E /\ e.status = "Global"
                            /\ \A c \in C : c.journalI <= Len(t.entries)
        BY <3>5
      <4>2. s = "Global"
        BY <3>3, <4>1
      <4>3. a \in E
        BY <2>11, <4>2 DEF s, p
      <4> QED BY <1>4, <2>2, <2>3, <3>5, <4>2, <4>3
    <3>11. Follows(B, t.acct[a], y, a) /\ Follows(B, t.acct[b], z, b)
           /\ (Doomed(z) => Doomed(t.acct[b])) /\ t.acct[a] = x
      BY <2>3, <2>7, <3>3 DEF w
    <3>12. Leads(B, r, E, C, i, Record(m, e))
      <4>1. e.kind \in {"AccountDestroyed", "BalanceTransfer"}
        BY <3>5
      <4> QED BY <1>8, <2>2, <2>3, <3>5, <3>9, <3>10, <3>11, <4>1, LeadsPair DEF m
    <3>13. Destroy(j, a, b) = Record(m, e)
      BY <1>3, <2>11, <3>3, <3>6
    <3> QED BY <3>12, <3>13
  <2> QED BY <2>10, <2>11
<1> QED BY <1>7, <1>8

-----------------------------------------------------------------------------
(***************************************************************************)
(* Behaviours: what the open frames would revert to, and the invariant.    *)
(***************************************************************************)

\* The creation of a frame that ends well is no longer doomed: what reverts it reverts to
\* before the frame, and for that it does not matter whether the marks were cleared.
LEMMA LeadsBack ==
  ASSUME NEW B \in BOOLEAN, NEW r \in JournalRec, NEW j \in JournalRec, NEW D,
         NEW C \in SUBSET Checkpoint, NEW n \in 0 .. Len(j.entries),
         Sound(B, r, j, D, C), Current(r, j), AllNamed(j)
  PROVE  Leads(B, r, D, C, RevertTo(j, n), j)
<1> DEFINE T == RevertTo(j, n)
<1>1. /\ T \in JournalRec /\ Len(T.entries) = n /\ \A i \in 1 .. n : T.entries[i] = j.entries[i]
      /\ \A m \in 0 .. n : RevertTo(T, m) = RevertTo(j, m)
  BY RevertFacts
<1>2. \A m \in 0 .. n : RevertTo(j, m) \in JournalRec
  <2>1. \A m \in 0 .. n : m \in 0 .. Len(j.entries)
    BY DEF JournalRec
  <2> QED BY <2>1, RevertFacts
<1>3. n <= Len(j.entries)
  OBVIOUS
<1> HIDE DEF T
<1>4. \A m \in 0 .. n : Keeps(B, RevertTo(T, m), RevertTo(j, m))
  BY <1>1, <1>2, KeepsTrans
<1> QED BY <1>1, <1>3, <1>4 DEF Leads, Reverts, T

\* FinishCreate clears the marks of an account its own frame doomed: reverting the frame
\* undoes the destruction anyway.
LEMMA LeadsUnmark ==
  ASSUME NEW B \in BOOLEAN, NEW r \in JournalRec, NEW j \in JournalRec, NEW D,
         NEW C \in SUBSET Checkpoint, NEW c \in C, NEW n \in 0 .. Len(j.entries),
         c.journalI = n, NEW a \in Addr, c.created = a,
         Sound(B, r, j, D, C), Current(r, j), AllNamed(j)
  PROVE  /\ Leads(B, r, D, C, RevertTo(j, n), Unmark(j, a, DestroyMarks))
         /\ CreatedNow(Unmark(j, a, DestroyMarks).acct[a])
         /\ Unmark(j, a, DestroyMarks).acct[a].loaded
<1> DEFINE x == j.acct[a]
           y == [x EXCEPT !.status = @ \ DestroyMarks]
           k == PutAcct(j, a, y)
           T == RevertTo(j, n)
<1>1. k = Unmark(j, a, DestroyMarks)
  BY Zenon DEF Unmark, PutAcct
<1>2. x \in Account
  BY DEF JournalRec
<1>3. y \in Account
  BY <1>2, AccountOps, Zenon DEF Flag, DestroyMarks
<1>4. /\ k \in JournalRec /\ k.acct[a] = y /\ k.slot = j.slot /\ k.transient = j.transient
      /\ k.entries = j.entries /\ \A b \in Addr : b # a => k.acct[b] = j.acct[b]
  <2> HIDE DEF y
  <2> QED BY <1>3, PutAcctFields, GrownTrans
<1>5. CreatedNow(x) /\ (Doomed(x) => DestroyedIn(j, c)) /\ AcctGood(B, x, a) /\ x.tx <= txid
  BY ConstantsOK DEF Sound, FramesGood, StateGood, Current
<1>6. /\ y.loaded = x.loaded /\ y.tx = x.tx /\ y.bal = x.bal /\ y.nonce = x.nonce /\ y.code = x.code
      /\ ~Marked(y) /\ ~Doomed(y) /\ (Cleared(y) <=> Cleared(x))
      /\ "Created" \in y.status <=> "Created" \in x.status
      /\ CreatedNow(y)
      /\ \A f \in Flag \ DestroyMarks : f \in x.status <=> f \in y.status
  BY <1>2, <1>5 DEF Account, Marked, Doomed, Cleared, CreatedNow, DestroyMarks
<1>7. x.loaded
  BY <1>5 DEF AcctGood, CreatedNow
<1>8. CASE ~Doomed(x)
  <2>1. ~Marked(x)
    BY <1>5, <1>8 DEF AcctGood
  <2>2. y = x
    BY <1>2, <1>8, <2>1, ZenonT(60) DEF Account, Marked, Doomed, DestroyMarks
  <2>3. k = j
    <3> HIDE DEF y
    <3> QED BY <1>2, <2>2, PutTwice
  <2> HIDE DEF k, x, y
  <2>4. Leads(B, r, D, C, RevertTo(j, n), j)
    BY LeadsBack
  <2> QED BY <1>1, <1>4, <1>6, <1>7, <2>3, <2>4
<1>9. CASE Doomed(x)
  <2>1. AlikeBut(a, j, k)
    BY <1>4, <1>6, Zenon DEF AlikeBut, AlikeAcct
  <2>2. PICK p \in n + 1 .. Len(j.entries) : Destroys(j.entries[p], a)
    BY <1>5, <1>9 DEF DestroyedIn, Destroys
  <2>3. /\ T \in JournalRec /\ Len(T.entries) = n /\ \A i \in 1 .. n : T.entries[i] = j.entries[i]
        /\ \A m \in 0 .. n : RevertTo(T, m) = RevertTo(j, m)
    BY RevertFacts
  <2>4. ASSUME NEW m \in 0 .. n
        PROVE  m \in 0 .. Len(j.entries) /\ p \in m + 1 .. Len(j.entries)
    BY DEF JournalRec
  <2> HIDE DEF k, x, y, T
  <2>5. ASSUME NEW m \in 0 .. n PROVE Keeps(B, RevertTo(T, m), RevertTo(k, m))
    <3>1. RevertTo(j, m) = RevertTo(k, m)
      BY <1>4, <2>1, <2>2, <2>4, AlikeRevert
    <3>2. RevertTo(j, m) \in JournalRec
      BY <2>4, RevertFacts
    <3> QED BY <2>3, <3>1, <3>2, KeepsTrans
  <2>6. AllNamed(k)
    <3>1. \A b \in Addr : k.acct[b].loaded = j.acct[b].loaded
      BY <1>4, <1>6, Zenon DEF x
    <3>2. ASSUME NEW i \in 1 .. Len(j.entries) PROVE Named(k, j.entries[i])
      <4>1. j.entries[i] \in Entry /\ Named(j, j.entries[i])
        BY DEF JournalRec, AllNamed
      <4>2. j.entries[i].addr \in Addr
        BY <4>1, EntryFields
      <4>3. j.entries[i].kind \in {"AccountDestroyed", "BalanceTransfer"} => j.entries[i].target \in Addr
        BY <4>1, EntryFields
      <4> QED BY <1>4, <3>1, <4>1, <4>2, <4>3, ZenonT(30) DEF Named
    <3> QED BY <1>4, <3>2, ZenonT(60) DEF AllNamed
  <2>7. n <= Len(k.entries)
    BY <1>4
  <2>8. Reverts(B, T, k)
    BY <1>4, <2>3, <2>5, <2>6, <2>7 DEF Reverts
  <2>9. AcctGood(B, y, a)
    BY <1>5, <1>6, <1>7 DEF AcctGood
  <2>10. AcctsFollow(B, j, k, D, D, C)
    <3>1. \A e \in C : DestroyedIn(j, e) => DestroyedIn(k, e)
      BY <1>4 DEF DestroyedIn
    <3>2. ASSUME NEW b \in Addr
          PROVE  /\ AcctGood(B, k.acct[b], b)
                 /\ Cleared(k.acct[b]) <=> Cleared(j.acct[b])
                 /\ Vacant(k.acct[b]) => Vacant(j.acct[b])
                 /\ k.acct[b].tx <= txid
                 /\ CreatedNow(j.acct[b]) => CreatedNow(k.acct[b])
                 /\ Doomed(k.acct[b]) => Doomed(j.acct[b])
      <4>1. CASE b = a
        BY <1>4, <1>5, <1>6, <2>9, <4>1 DEF x, Vacant
      <4>2. CASE b # a
        BY <1>4, <4>2 DEF Sound, StateGood, Current
      <4> QED BY <4>1, <4>2
    <3> QED BY <3>1, <3>2 DEF AcctsFollow
  <2>11. Sound(B, r, k, D, C) /\ Current(r, k)
    BY <1>4, <2>10, SoundAccts
  <2>12. Leads(B, r, D, C, T, k)
    BY <2>8, <2>11 DEF Leads
  <2> QED BY <1>1, <1>4, <1>6, <1>7, <2>12 DEF T
<1> QED BY <1>8, <1>9

-----------------------------------------------------------------------------
(***************************************************************************)
(* The inductive invariant: the journal, what each open frame would be     *)
(* reverted to, and what the transaction would be discarded to, are sound. *)
(***************************************************************************)
ListedIn(d, n) == {d[p] : p \in 1 .. n}
FramesIn(cs, n) == {cs[p] : p \in 1 .. n}

StagesGood(B, r, j, d, cs) ==
  \A i \in 1 .. Len(cs) :
    /\ cs[i].journalI \in 0 .. Len(j.entries)
    /\ cs[i].doomedI \in 0 .. Len(d)
    /\ \A m \in 1 .. i : cs[m].journalI <= cs[i].journalI /\ cs[m].doomedI <= cs[i].doomedI
    /\ Sound(B, r, RevertTo(j, cs[i].journalI), ListedIn(d, cs[i].doomedI), FramesIn(cs, i - 1))

GoodAt(B, r, j, d, cs) ==
  /\ AllNamed(j)
  /\ Current(r, j)
  /\ Sound(B, r, r, {}, {})
  /\ StagesGood(B, r, j, d, cs)
  /\ Sound(B, r, j, ListedIn(d, Len(d)), FramesIn(cs, Len(cs)))

Good(B) == GoodAt(B, RevertTo(journal, 0), journal, doomed, checkpoints)

\* What may be reverted keeps the stages sound.
LEMMA GoodMove ==
  ASSUME NEW B \in BOOLEAN, NEW r \in JournalRec, NEW T \in JournalRec, NEW k \in JournalRec,
         NEW d \in Seq(Addr), NEW cs \in Seq(Checkpoint),
         r = RevertTo(T, 0), Sound(B, r, r, {}, {}), StagesGood(B, r, T, d, cs),
         Leads(B, r, ListedIn(d, Len(d)), FramesIn(cs, Len(cs)), T, k)
  PROVE  GoodAt(B, RevertTo(k, 0), k, d, cs)
<1> DEFINE u == RevertTo(k, 0)
           D == ListedIn(d, Len(d))
           C == FramesIn(cs, Len(cs))
<1>1. Len(T.entries) \in Nat /\ Len(k.entries) \in Nat /\ Len(T.entries) <= Len(k.entries)
      /\ 0 \in 0 .. Len(T.entries) /\ 0 \in 0 .. Len(k.entries)
  BY DEF JournalRec, Leads, Reverts
<1>2. u \in JournalRec /\ Len(u.entries) = 0 /\ Len(r.entries) = 0
  BY <1>1, RevertFacts
<1>3. Keeps(B, r, u)
  BY <1>1 DEF Leads, Reverts
<1>4. \A n \in 0 .. Len(cs) : FramesIn(cs, n) \in SUBSET Checkpoint
  BY DEF FramesIn
<1>5. C \in SUBSET Checkpoint
  BY <1>4
<1>6. AllNamed(k) /\ Sound(B, r, k, D, C) /\ Current(r, k)
  BY DEF Leads, Reverts
<1>7. Keeps(B, k, k)
  BY KeepsTrans
<1> HIDE DEF u, D, C
<1>8. Sound(B, u, k, D, C)
  BY <1>2, <1>3, <1>5, <1>6, <1>7, SoundKeeps
<1>9. Sound(B, u, u, {}, {})
  BY <1>2, <1>3, SoundKeeps
<1>10. Current(u, k)
  <2>1. \A a \in Addr, q \in Key : ValueIn(u, a, q) = ValueIn(r, a, q)
    BY <1>3 DEF Keeps, SameSlot, ValueIn
  <2> QED BY <1>6, <2>1 DEF Current
<1>11. StagesGood(B, u, k, d, cs)
  <2>1. ASSUME NEW i \in 1 .. Len(cs)
        PROVE  /\ cs[i].journalI \in 0 .. Len(k.entries)
               /\ cs[i].doomedI \in 0 .. Len(d)
               /\ \A m \in 1 .. i : cs[m].journalI <= cs[i].journalI /\ cs[m].doomedI <= cs[i].doomedI
               /\ Sound(B, u, RevertTo(k, cs[i].journalI), ListedIn(d, cs[i].doomedI),
                        FramesIn(cs, i - 1))
    <3> DEFINE n == cs[i].journalI
               v == RevertTo(T, n)
               w == RevertTo(k, n)
    <3>1. /\ n \in 0 .. Len(T.entries) /\ cs[i].doomedI \in 0 .. Len(d)
          /\ \A m \in 1 .. i : cs[m].journalI <= cs[i].journalI /\ cs[m].doomedI <= cs[i].doomedI
          /\ Sound(B, r, v, ListedIn(d, cs[i].doomedI), FramesIn(cs, i - 1))
      BY DEF StagesGood
    <3>2. n \in 0 .. Len(k.entries) /\ i - 1 \in 0 .. Len(cs)
      BY <1>1, <3>1, SMTT(30)
    <3>3. /\ v \in JournalRec /\ Len(v.entries) = n /\ \A p \in 1 .. n : v.entries[p] = T.entries[p]
      BY <3>1, RevertFacts, Zenon
    <3>4. /\ w \in JournalRec /\ Len(w.entries) = n /\ \A p \in 1 .. n : w.entries[p] = k.entries[p]
      BY <3>2, RevertFacts, Zenon
    <3>5. \A p \in 1 .. n : p \in 1 .. Len(T.entries)
      BY <1>1, <3>1
    <3>6. \A p \in 1 .. n : w.entries[p] = v.entries[p]
      BY <3>3, <3>4, <3>5, Zenon DEF Leads, Reverts
    <3>7. Keeps(B, v, w)
      BY <3>1 DEF Leads, Reverts
    <3>8. FramesIn(cs, i - 1) \in SUBSET Checkpoint
      BY <1>4, <3>2
    <3> HIDE DEF v, w
    <3>9. Sound(B, u, w, ListedIn(d, cs[i].doomedI), FramesIn(cs, i - 1))
      BY <1>2, <1>3, <3>1, <3>3, <3>4, <3>6, <3>7, <3>8, SoundKeeps
    <3> QED BY <3>1, <3>2, <3>9 DEF w
  <2> QED BY <2>1, Zenon DEF StagesGood
<1>12. GoodAt(B, u, k, d, cs)
  BY <1>6, <1>8, <1>9, <1>10, <1>11 DEF GoodAt, D, C
<1> QED BY <1>12 DEF u

\* The invariant mentions no variable but the transaction it is in.
LEMMA SoundPrimed ==
  ASSUME NEW B \in BOOLEAN, NEW r, NEW s, NEW D, NEW C, txid' = txid
  PROVE  /\ Sound(B, r, s, D, C) => Sound(B, r, s, D, C)'
         /\ Current(r, s) => Current(r, s)'
<1>1. ASSUME Sound(B, r, s, D, C) PROVE Sound(B, r, s, D, C)'
  BY <1>1 DEF Sound, StateGood, AcctGood, Vacant, ChangedWarm, FramesGood, ListGood, DestroyedIn,
              WarmNow, CreatedNow, SlotWarm, Marked, Doomed, Cleared, ValueIn, SlotValue
<1>2. ASSUME Current(r, s) PROVE Current(r, s)'
  BY <1>2 DEF Current, SlotWarm, ValueIn, SlotValue
<1> QED BY <1>1, <1>2

\* The invariant of the next state, from what the step assigns.
LEMMA GoodPrimed ==
  ASSUME NEW B \in BOOLEAN, NEW r, NEW j, NEW d, NEW cs, GoodAt(B, r, j, d, cs),
         r = RevertTo(j, 0), journal' = j, doomed' = d, checkpoints' = cs, txid' = txid
  PROVE  Good(B)'
<1>1. StagesGood(B, r, j, d, cs)'
  <2>1. ASSUME NEW u, NEW s, NEW D, NEW C, Sound(B, u, s, D, C) PROVE Sound(B, u, s, D, C)'
    BY <2>1, SoundPrimed
  <2>2. StagesGood(B, r, j, d, cs)
    BY DEF GoodAt
  <2> QED BY <2>1, <2>2, Zenon DEF StagesGood, ListedIn, FramesIn
<1>2. Sound(B, r, r, {}, {})' /\ Sound(B, r, j, ListedIn(d, Len(d)), FramesIn(cs, Len(cs)))'
  BY SoundPrimed, SMTT(30) DEF GoodAt, ListedIn, FramesIn
<1>3. Current(r, j)' /\ AllNamed(j)'
  BY SoundPrimed, ZenonT(30) DEF GoodAt, AllNamed, Named
<1>4. GoodAt(B, r, j, d, cs)'
  BY <1>1, <1>2, <1>3 DEF GoodAt
<1> QED BY <1>4 DEF Good

-----------------------------------------------------------------------------
(***************************************************************************)
(* Between transactions.                                                   *)
(***************************************************************************)
\* What a transaction leaves: nothing is doomed, and a deleted account is empty.
Settled(B, k) ==
  /\ k \in JournalRec /\ k.entries = <<>>
  /\ \A a \in Addr :
       LET x == k.acct[a]
       IN  /\ x.tx <= txid
           /\ ~x.loaded => x.status = {}
           /\ ~Doomed(x)
           /\ Marked(x) => (B => x.bal = 0) /\ x.nonce = 0 /\ x.code = NoCode /\ Cleared(x)
           /\ "Created" \in x.status => Cleared(x) \/ \A q \in Key : DBStorage[a][q] = 0
           /\ Vacant(x) => \A q \in Key : ValueIn(k, a, q) = 0
  /\ \A a \in Addr, q \in Key : k.slot[a][q].tx <= txid

\* A transaction starts from a settled journal.
LEMMA SettledGood ==
  ASSUME NEW B \in BOOLEAN, NEW k, Settled(B, k), txid \in Nat,
         journal' = k, doomed' = <<>>, checkpoints' = <<>>, txid' = txid + 1
  PROVE  Good(B)'
<1>1. k \in JournalRec /\ Len(k.entries) = 0 /\ RevertTo(k, 0) = k
  BY RevertStep DEF Settled
<1>2. \A a \in Addr : k.acct[a].tx \in Nat /\ \A q \in Key : k.slot[a][q].tx \in Nat
  BY <1>1 DEF JournalRec, Account, Slot
<1>3. \A a \in Addr : k.acct[a].tx < txid' /\ \A q \in Key : k.slot[a][q].tx < txid'
  BY <1>2 DEF Settled
<1>4. /\ \A a \in Addr : k.acct[a].tx <= txid' /\ k.acct[a].tx # txid'
      /\ \A a \in Addr, q \in Key : k.slot[a][q].tx <= txid' /\ k.slot[a][q].tx # txid'
  BY <1>2, <1>3
<1>5. StateGood(B, k)'
  <2>1. ASSUME NEW a \in Addr PROVE AcctGood(B, k.acct[a], a)'
    BY <1>4 DEF Settled, AcctGood, WarmNow, CreatedNow, Marked, Doomed, Cleared
  <2>2. ASSUME NEW a \in Addr, Vacant(k.acct[a]), NEW q \in Key PROVE ValueIn(k, a, q) = 0
    BY <2>2 DEF Settled
  <2> QED BY <2>1, <2>2 DEF StateGood, ValueIn, SlotValue, Vacant, Cleared
<1>6. ChangedWarm(k, k)' /\ FramesGood(k, {})'
  BY DEF ChangedWarm, FramesGood, ValueIn, SlotValue
<1>7. ListGood(k, {})'
  BY DEF ListGood, Settled, Doomed
<1>8. Sound(B, k, k, {}, {})'
  BY <1>5, <1>6, <1>7 DEF Sound
<1>9. Current(k, k)'
  BY <1>4 DEF Current, SlotWarm
<1>10. StagesGood(B, k, k, <<>>, <<>>)'
  BY DEF StagesGood
<1>11. AllNamed(k)'
  BY <1>1 DEF AllNamed
<1>12. GoodAt(B, k, k, <<>>, <<>>)'
  <2>1. ListedIn(<<>>, Len(<<>>)) = {} /\ FramesIn(<<>>, Len(<<>>)) = {}
    BY DEF ListedIn, FramesIn
  <2> QED BY <1>8, <1>9, <1>10, <1>11, <2>1 DEF GoodAt, ListedIn, FramesIn
<1> QED BY <1>1, <1>12 DEF Good

\* CommitTx deletes what is doomed: all of it is in the list.
LEMMA CommitSettled ==
  ASSUME NEW B \in BOOLEAN, NEW r \in JournalRec, TypeOK,
         GoodAt(B, r, journal, doomed, checkpoints), ~FrameOpen
  PROVE  Settled(B, NoTransient(Finalized(journal)))
<1> DEFINE j == journal
           k == NoTransient(Finalized(j))
           gone == {a \in Addr : /\ Has(j, a, "SelfDestructLocal")
                                 /\ \E i \in DOMAIN doomed : doomed[i] = a}
           Deleted(a) == Unmark(Wipe(j, a), a, {"SelfDestructLocal"}).acct[a]
<1>1. j \in JournalRec /\ k \in JournalRec
  BY EndTxType DEF TypeOK
<1>2. \A a \in Addr : k.acct[a] = IF a \in gone THEN Deleted(a) ELSE j.acct[a]
  BY <1>1, ZenonT(60) DEF NoTransient, Finalized, JournalRec
<1>3. \A a \in Addr : k.slot[a] = IF a \in gone THEN NoStorage ELSE j.slot[a]
  BY <1>1, ZenonT(60) DEF NoTransient, Finalized, JournalRec
<1>4. k.entries = <<>>
  BY <1>1, Zenon DEF NoTransient, Finalized, JournalRec
<1>5. \A a \in Addr : Doomed(j.acct[a]) => a \in gone
  <2>1. \A i \in 1 .. Len(doomed) : i \in DOMAIN doomed
    BY DEF TypeOK
  <2>2. ListGood(j, ListedIn(doomed, Len(doomed)))
    BY DEF GoodAt, Sound
  <2> QED BY <2>1, <2>2 DEF ListGood, ListedIn, Doomed, Has
<1>6. ASSUME NEW a \in Addr
      PROVE  LET x == j.acct[a]
                 y == Deleted(a)
             IN  /\ y.loaded = x.loaded /\ y.tx = x.tx /\ y.bal = 0 /\ y.nonce = 0 /\ y.code = NoCode
                 /\ Cleared(y) /\ ~Doomed(y)
                 /\ "Created" \in y.status <=> "Created" \in x.status
  <2>1. j.acct[a] \in Account
    BY <1>1 DEF JournalRec
  <2>2. Deleted(a) = [Emptied(j.acct[a]) EXCEPT !.status = @ \ {"SelfDestructLocal"}]
    BY <1>1, Zenon DEF Unmark, Wipe, JournalRec
  <2> HIDE DEF Deleted
  <2> QED BY <2>1, <2>2 DEF Emptied, Account, Cleared, Doomed
<1>7. \A a \in Addr, q \in Key : NoStorage[q] = NoSlot /\ ~NoSlot.loaded /\ NoSlot.tx = 0
  BY DEF NoStorage, NoSlot
<1>8. \A a \in Addr : /\ AcctGood(B, j.acct[a], a) /\ j.acct[a].tx <= txid
                      /\ \A q \in Key : j.slot[a][q].tx <= txid
                      /\ Vacant(j.acct[a]) => \A q \in Key : ValueIn(j, a, q) = 0
  BY DEF GoodAt, Sound, StateGood, Current
<1> HIDE DEF k, j, Deleted
<1>9. ASSUME NEW a \in Addr
      PROVE  LET x == k.acct[a]
             IN  /\ x.tx <= txid
                 /\ ~x.loaded => x.status = {}
                 /\ ~Doomed(x)
                 /\ Marked(x) => (B => x.bal = 0) /\ x.nonce = 0 /\ x.code = NoCode /\ Cleared(x)
                 /\ "Created" \in x.status => Cleared(x) \/ \A q \in Key : DBStorage[a][q] = 0
                 /\ Vacant(x) => \A q \in Key : ValueIn(k, a, q) = 0
                 /\ \A q \in Key : k.slot[a][q].tx <= txid
  <2>1. CASE a \in gone
    <3>1. k.acct[a] = Deleted(a) /\ k.slot[a] = NoStorage /\ Doomed(j.acct[a])
      BY <1>2, <1>3, <2>1 DEF Doomed, Has, j
    <3>2. j.acct[a].loaded
      BY <1>8, <3>1 DEF AcctGood, WarmNow
    <3>3. 0 <= txid
      BY DEF TypeOK
    <3>4. \A q \in Key : ValueIn(k, a, q) = 0
      BY <1>6, <1>7, <3>1 DEF ValueIn, SlotValue, Cleared
    <3> QED BY <1>6, <1>7, <1>8, <3>1, <3>2, <3>3, <3>4
  <2>2. CASE a \notin gone
    <3>1. k.acct[a] = j.acct[a] /\ k.slot[a] = j.slot[a] /\ ~Doomed(j.acct[a])
      BY <1>2, <1>3, <1>5, <2>2
    <3>2. \A q \in Key : ValueIn(k, a, q) = ValueIn(j, a, q)
      BY <3>1 DEF ValueIn
    <3> QED BY <1>8, <3>1, <3>2 DEF AcctGood
  <2> QED BY <2>1, <2>2
<1>10. Settled(B, k)
  BY <1>1, <1>4, <1>9 DEF Settled
<1> QED BY <1>10 DEF k, j

\* DiscardTx reverts to where the transaction began, when nothing was doomed.
LEMMA DiscardSettled ==
  ASSUME NEW B \in BOOLEAN, NEW j \in JournalRec, NEW d, NEW cs,
         GoodAt(B, RevertTo(j, 0), j, d, cs)
  PROVE  Settled(B, NoTransient(RevertTo(j, 0)))
<1> DEFINE s == RevertTo(j, 0)
           k == NoTransient(s)
<1>1. 0 \in 0 .. Len(j.entries)
  BY DEF JournalRec
<1>2. s \in JournalRec /\ Cools(j, s)
  BY <1>1, RevertFacts
<1>3. Sound(B, s, s, {}, {})
  BY DEF GoodAt
<1>4. /\ \A a \in Addr : s.acct[a].tx <= txid
      /\ \A a \in Addr, q \in Key : s.slot[a][q].tx <= txid
  BY <1>2 DEF GoodAt, Current, Cools
<1> HIDE DEF s
<1>5. k \in JournalRec /\ k.acct = s.acct /\ k.slot = s.slot /\ k.entries = <<>>
  BY <1>2, EndTxType, Zenon DEF NoTransient, JournalRec
<1>6. \A a \in Addr, q \in Key : ValueIn(k, a, q) = ValueIn(s, a, q)
  BY <1>5 DEF ValueIn
<1>7. \A a \in Addr : AcctGood(B, s.acct[a], a) /\ ~Doomed(s.acct[a])
                      /\ (Vacant(s.acct[a]) => \A q \in Key : ValueIn(s, a, q) = 0)
  BY <1>3 DEF Sound, StateGood, ListGood
<1> HIDE DEF k
<1>8. Settled(B, k)
  BY <1>4, <1>5, <1>6, <1>7 DEF Settled, AcctGood
<1> QED BY <1>8 DEF k, s

\* The initial journal is settled.
LEMMA InitGood ==
  ASSUME NEW B \in BOOLEAN, Init
  PROVE  Good(B)
<1> DEFINE j == journal
<1>1. Inv
  BY InitInv
<1>2. j \in JournalRec /\ Len(j.entries) = 0 /\ RevertTo(j, 0) = j
  BY <1>1, RevertStep DEF Inv, TypeOK, Init
<1>3. \A a \in Addr : j.acct[a].status = {} /\ j.acct[a].tx = 0
  BY DEF Init
<1>4. \A a \in Addr, q \in Key : j.slot[a][q] = NoSlot
  BY DEF Init, NoStorage
<1>5. doomed = <<>> /\ checkpoints = <<>> /\ txid = 0
  BY DEF Init
<1> HIDE DEF j
<1>6. StateGood(B, j)
  BY <1>3 DEF StateGood, AcctGood, Vacant, CreatedNow, Marked, Doomed, Cleared
<1>7. Sound(B, j, j, {}, {})
  BY <1>3, <1>6 DEF Sound, ChangedWarm, FramesGood, ListGood, Doomed
<1>8. Current(j, j)
  BY <1>3, <1>4, <1>5 DEF Current, NoSlot, SlotWarm
<1>9. AllNamed(j)
  BY <1>2 DEF AllNamed
<1>10. ListedIn(doomed, Len(doomed)) = {} /\ FramesIn(checkpoints, Len(checkpoints)) = {}
  BY <1>5 DEF ListedIn, FramesIn
<1>11. StagesGood(B, j, j, doomed, checkpoints)
  BY <1>5 DEF StagesGood
<1>12. GoodAt(B, j, j, doomed, checkpoints)
  BY <1>7, <1>8, <1>9, <1>10, <1>11 DEF GoodAt
<1> QED BY <1>2, <1>12 DEF Good, j

-----------------------------------------------------------------------------
(***************************************************************************)
(* Frames are entered and left, accounts are listed.                       *)
(***************************************************************************)
\* A sequence without its last element.
LEMMA FrontFields ==
  ASSUME NEW S, NEW s \in Seq(S), Len(s) # 0
  PROVE  LET t == SubSeq(s, 1, Len(s) - 1)
         IN  /\ t \in Seq(S) /\ Len(t) = Len(s) - 1
             /\ \A i \in 1 .. Len(s) - 1 : t[i] = s[i]
<1> DEFINE n == Len(s) - 1
<1>1. n \in 0 .. Len(s)
  OBVIOUS
<1>2. \A i \in 1 .. n : i \in 1 .. Len(s)
  BY <1>1
<1> HIDE DEF n
<1>3. /\ SubSeq(s, 1, n) \in Seq(S) /\ Len(SubSeq(s, 1, n)) = n
      /\ \A i \in 1 .. n : SubSeq(s, 1, n)[i] = s[i]
  BY <1>1, <1>2
<1> QED BY <1>3 DEF n

\* ds is cs without its last frame, which was entered with n entries, and f is at least what
\* of d was listed before that frame.
Pops(d, f, cs, ds, n) ==
  /\ Len(cs) # 0 /\ ds = SubSeq(cs, 1, Len(cs) - 1)
  /\ n \in Nat /\ n = cs[Len(cs)].journalI
  /\ cs[Len(cs)].doomedI <= Len(f) /\ \A p \in 1 .. cs[Len(cs)].doomedI : f[p] = d[p]

\* Leaving a frame, by commit or by revert, keeps the stages of the frames around it.
LEMMA StagesPop ==
  ASSUME NEW B \in BOOLEAN, NEW r \in JournalRec, NEW j \in JournalRec,
         NEW d \in Seq(Addr), NEW f \in Seq(Addr), NEW cs \in Seq(Checkpoint), NEW ds, NEW n,
         StagesGood(B, r, j, d, cs), Pops(d, f, cs, ds, n), NEW T, T \in {j, RevertTo(j, n)}
  PROVE  /\ StagesGood(B, r, T, f, ds) /\ ds \in Seq(Checkpoint)
         /\ FramesIn(ds, Len(ds)) = FramesIn(cs, Len(cs) - 1)
<1> DEFINE N == Len(cs)
<1> USE DEF Pops
<1>1. N \in Nat \ {0} /\ N \in 1 .. N
  OBVIOUS
<1>2. ds \in Seq(Checkpoint) /\ Len(ds) = N - 1 /\ \A i \in 1 .. N - 1 : ds[i] = cs[i]
  BY FrontFields
<1>3. n \in 0 .. Len(j.entries) /\ Len(j.entries) \in Nat
  BY <1>1 DEF StagesGood, JournalRec
<1>4. T \in JournalRec /\ n <= Len(T.entries) /\ Len(T.entries) \in Nat
      /\ \A m \in 0 .. n : RevertTo(T, m) = RevertTo(j, m)
  <2>1. CASE T = j
    BY <1>3, <2>1
  <2>2. CASE T = RevertTo(j, n)
    BY <1>3, <2>2, RevertFacts, SMTT(30)
  <2> QED BY <2>1, <2>2
<1>5. ASSUME NEW m \in 0 .. N - 1 PROVE FramesIn(ds, m) = FramesIn(cs, m)
  <2>1. \A i \in 1 .. m : ds[i] = cs[i]
    BY <1>1, <1>2
  <2> QED BY <2>1, Zenon DEF FramesIn
<1>6. ASSUME NEW i \in 1 .. Len(ds)
      PROVE  /\ ds[i].journalI \in 0 .. Len(T.entries)
             /\ ds[i].doomedI \in 0 .. Len(f)
             /\ \A m \in 1 .. i : ds[m].journalI <= ds[i].journalI /\ ds[m].doomedI <= ds[i].doomedI
             /\ Sound(B, r, RevertTo(T, ds[i].journalI), ListedIn(f, ds[i].doomedI),
                      FramesIn(ds, i - 1))
  <2>1. i \in 1 .. N /\ i \in 1 .. N - 1 /\ i - 1 \in 0 .. N - 1 /\ \A m \in 1 .. i : m \in 1 .. N - 1
    BY <1>1, <1>2
  <2>2. /\ cs[i].journalI \in 0 .. Len(j.entries)
        /\ cs[i].doomedI \in 0 .. Len(d)
        /\ \A m \in 1 .. i : cs[m].journalI <= cs[i].journalI /\ cs[m].doomedI <= cs[i].doomedI
        /\ Sound(B, r, RevertTo(j, cs[i].journalI), ListedIn(d, cs[i].doomedI), FramesIn(cs, i - 1))
    BY <2>1, Zenon DEF StagesGood
  <2>3. cs[i].journalI <= n /\ cs[i].doomedI <= cs[N].doomedI /\ cs[N].doomedI \in 0 .. Len(d)
    BY <1>1, <2>1, Zenon DEF StagesGood
  <2>4. ds[i] = cs[i] /\ \A m \in 1 .. i : ds[m] = cs[m]
    BY <1>2, <2>1
  <2>5. cs[i].journalI \in 0 .. Len(T.entries) /\ cs[i].journalI \in 0 .. n
    BY <1>3, <1>4, <2>2, <2>3, SMTT(30)
  <2>6. cs[i].doomedI \in 0 .. Len(f) /\ \A p \in 1 .. cs[i].doomedI : f[p] = d[p]
    BY <2>2, <2>3, SMTT(30)
  <2>7. ListedIn(f, cs[i].doomedI) = ListedIn(d, cs[i].doomedI)
    BY <2>6, Zenon DEF ListedIn
  <2> QED BY <1>4, <1>5, <2>1, <2>2, <2>4, <2>5, <2>6, <2>7, Zenon
<1>7. StagesGood(B, r, T, f, ds)
  BY <1>6, Zenon DEF StagesGood
<1>8. FramesIn(ds, Len(ds)) = FramesIn(cs, Len(cs) - 1)
  BY <1>1, <1>2, <1>5
<1> QED BY <1>2, <1>7, <1>8

\* Entering a frame adds a stage, the journal as it is.
LEMMA StagesPush ==
  ASSUME NEW B \in BOOLEAN, NEW r \in JournalRec, NEW j \in JournalRec,
         NEW d \in Seq(Addr), NEW cs \in Seq(Checkpoint), NEW c \in Checkpoint,
         StagesGood(B, r, j, d, cs),
         Sound(B, r, j, ListedIn(d, Len(d)), FramesIn(cs, Len(cs))),
         c.journalI = Len(j.entries), c.doomedI = Len(d)
  PROVE  LET ds == Append(cs, c)
         IN  /\ StagesGood(B, r, j, d, ds) /\ ds \in Seq(Checkpoint)
             /\ FramesIn(ds, Len(ds)) = FramesIn(cs, Len(cs)) \cup {c}
<1> DEFINE ds == Append(cs, c)
           N == Len(cs)
<1>1. N \in Nat /\ Len(j.entries) \in Nat /\ Len(d) \in Nat
  BY DEF JournalRec
<1>2. ds \in Seq(Checkpoint) /\ Len(ds) = N + 1 /\ ds[N + 1] = c /\ \A i \in 1 .. N : ds[i] = cs[i]
  BY <1>1
<1>3. ASSUME NEW m \in 0 .. N PROVE FramesIn(ds, m) = FramesIn(cs, m)
  <2>1. \A i \in 1 .. m : ds[i] = cs[i]
    BY <1>1, <1>2
  <2> QED BY <2>1 DEF FramesIn
<1> HIDE DEF ds
<1>4. ASSUME NEW i \in 1 .. Len(ds)
      PROVE  /\ ds[i].journalI \in 0 .. Len(j.entries)
             /\ ds[i].doomedI \in 0 .. Len(d)
             /\ \A m \in 1 .. i : ds[m].journalI <= ds[i].journalI /\ ds[m].doomedI <= ds[i].doomedI
             /\ Sound(B, r, RevertTo(j, ds[i].journalI), ListedIn(d, ds[i].doomedI),
                      FramesIn(ds, i - 1))
  <2>1. CASE i = N + 1
    <3>1. ds[i] = c /\ RevertTo(j, c.journalI) = j /\ FramesIn(ds, i - 1) = FramesIn(cs, N)
      BY <1>1, <1>2, <1>3, <2>1, RevertStep
    <3>2. ASSUME NEW m \in 1 .. i PROVE ds[m].journalI <= c.journalI /\ ds[m].doomedI <= c.doomedI
      <4>1. CASE m = N + 1
        BY <1>1, <1>2, <4>1
      <4>2. CASE m # N + 1
        <5>1. m \in 1 .. N
          BY <1>1, <2>1, <4>2
        <5> QED BY <1>1, <1>2, <5>1, SMTT(30) DEF StagesGood
      <4> QED BY <4>1, <4>2
    <3> QED BY <1>1, <3>1, <3>2, SMTT(30)
  <2>2. CASE i # N + 1
    <3>1. i \in 1 .. N /\ i - 1 \in 0 .. N /\ \A m \in 1 .. i : m \in 1 .. N
      BY <1>1, <1>2, <2>2
    <3>2. /\ cs[i].journalI \in 0 .. Len(j.entries)
          /\ cs[i].doomedI \in 0 .. Len(d)
          /\ \A m \in 1 .. i : cs[m].journalI <= cs[i].journalI /\ cs[m].doomedI <= cs[i].doomedI
          /\ Sound(B, r, RevertTo(j, cs[i].journalI), ListedIn(d, cs[i].doomedI), FramesIn(cs, i - 1))
      BY <3>1 DEF StagesGood
    <3> QED BY <1>2, <1>3, <3>1, <3>2, Zenon
  <2> QED BY <2>1, <2>2
<1>5. StagesGood(B, r, j, d, ds)
  BY <1>4 DEF StagesGood
<1>6. FramesIn(ds, N + 1) = FramesIn(cs, N) \cup {c}
  <2>1. FramesIn(ds, N + 1) = FramesIn(ds, N) \cup {ds[N + 1]}
    BY <1>1 DEF FramesIn
  <2> QED BY <1>1, <1>2, <1>3, <2>1, SMTT(30)
<1> QED BY <1>2, <1>5, <1>6 DEF ds

\* Listing a doomed account leaves what the open frames listed.
LEMMA StagesDoom ==
  ASSUME NEW B \in BOOLEAN, NEW r \in JournalRec, NEW j \in JournalRec,
         NEW d \in Seq(Addr), NEW cs \in Seq(Checkpoint), NEW a \in Addr,
         StagesGood(B, r, j, d, cs)
  PROVE  LET f == Append(d, a)
         IN  /\ StagesGood(B, r, j, f, cs) /\ f \in Seq(Addr)
             /\ \A b \in ListedIn(d, Len(d)) : b \in ListedIn(f, Len(f))
             /\ a \in ListedIn(f, Len(f))
<1> DEFINE f == Append(d, a)
<1>1. f \in Seq(Addr) /\ Len(f) = Len(d) + 1 /\ f[Len(d) + 1] = a /\ \A p \in 1 .. Len(d) : f[p] = d[p]
  OBVIOUS
<1> HIDE DEF f
<1>2. ASSUME NEW i \in 1 .. Len(cs)
      PROVE  cs[i].doomedI \in 0 .. Len(f) /\ ListedIn(f, cs[i].doomedI) = ListedIn(d, cs[i].doomedI)
  <2>1. cs[i].doomedI \in 0 .. Len(d)
    BY DEF StagesGood
  <2>2. cs[i].doomedI \in 0 .. Len(f) /\ \A p \in 1 .. cs[i].doomedI : f[p] = d[p]
    BY <1>1, <2>1
  <2> QED BY <2>2, Zenon DEF ListedIn
<1>3. StagesGood(B, r, j, f, cs)
  BY <1>2 DEF StagesGood
<1>4. \A p \in 1 .. Len(d) : p \in 1 .. Len(f)
  BY <1>1
<1>5. \A b \in ListedIn(d, Len(d)) : b \in ListedIn(f, Len(f))
  BY <1>1, <1>4 DEF ListedIn
<1>6. a \in ListedIn(f, Len(f))
  BY <1>1 DEF ListedIn
<1> QED BY <1>1, <1>3, <1>5, <1>6 DEF f

-----------------------------------------------------------------------------
(***************************************************************************)
(* One lemma per action.                                                   *)
(***************************************************************************)
Start == RevertTo(journal, 0)
Listed == ListedIn(doomed, Len(doomed))
OpenFrames == FramesIn(checkpoints, Len(checkpoints))

\* No two balances sum to more than 2^256 - 1: all the ether there is is far less.
SupplyFits ==
  \A a, b \in Addr : a # b => journal.acct[a].bal + journal.acct[b].bal <= MaxBalance

\* The invariant at the current state, in the form the actions use.
LEMMA GoodNow ==
  ASSUME NEW B \in BOOLEAN, Inv, Good(B)
  PROVE  /\ journal \in JournalRec /\ doomed \in Seq(Addr) /\ checkpoints \in Seq(Checkpoint)
         /\ txid \in Nat /\ warmList \in AccessList
         /\ Start \in JournalRec /\ OpenFrames \in SUBSET Checkpoint
         /\ GoodAt(B, Start, journal, doomed, checkpoints)
         /\ Sound(B, Start, journal, Listed, OpenFrames) /\ Current(Start, journal)
         /\ AllNamed(journal) /\ StagesGood(B, Start, journal, doomed, checkpoints)
         /\ Sound(B, Start, Start, {}, {})
         /\ Leads(B, Start, Listed, OpenFrames, journal, journal)
         /\ \A a \in Addr : AcctGood(B, journal.acct[a], a)
<1>1. /\ journal \in JournalRec /\ doomed \in Seq(Addr) /\ checkpoints \in Seq(Checkpoint)
      /\ txid \in Nat /\ warmList \in AccessList
  BY DEF Inv, TypeOK
<1>2. Len(journal.entries) \in Nat
  BY <1>1 DEF JournalRec
<1>3. Start \in JournalRec
  BY <1>1, <1>2, RevertFacts DEF Start
<1>4. OpenFrames \in SUBSET Checkpoint
  BY <1>1 DEF OpenFrames, FramesIn
<1>5. GoodAt(B, Start, journal, doomed, checkpoints)
  BY DEF Good, Start
<1>6. /\ Sound(B, Start, journal, Listed, OpenFrames) /\ Current(Start, journal)
      /\ AllNamed(journal) /\ StagesGood(B, Start, journal, doomed, checkpoints)
      /\ Sound(B, Start, Start, {}, {})
  BY <1>5 DEF GoodAt, Listed, OpenFrames
<1>7. Leads(B, Start, Listed, OpenFrames, RevertTo(journal, Len(journal.entries)), journal)
  BY <1>1, <1>2, <1>3, <1>4, <1>6, LeadsBack
<1>8. RevertTo(journal, Len(journal.entries)) = journal
  BY <1>1, RevertStep
<1>9. \A a \in Addr : AcctGood(B, journal.acct[a], a)
  BY <1>6 DEF Sound, StateGood
<1> QED BY <1>1, <1>3, <1>4, <1>5, <1>6, <1>7, <1>8, <1>9

\* Fewer frames and a longer list ask for less.
LEMMA SoundLess ==
  ASSUME NEW B, NEW r, NEW s, NEW D, NEW C, NEW E, Sound(B, r, s, D, C), \A c \in E : c \in C
  PROVE  Sound(B, r, s, D, E)
BY DEF Sound, FramesGood

\* The open frames without the top one.
LEMMA FramesFewer ==
  ASSUME NEW B \in BOOLEAN, Inv, Good(B), FrameOpen
  PROVE  LET C == FramesIn(checkpoints, Len(checkpoints) - 1)
         IN  /\ Len(checkpoints) # 0 /\ Len(checkpoints) \in 1 .. Len(checkpoints)
             /\ Top \in Checkpoint /\ Top \in OpenFrames
             /\ C \in SUBSET Checkpoint /\ \A c \in C : c \in OpenFrames
             /\ Sound(B, Start, journal, Listed, C)
<1> DEFINE C == FramesIn(checkpoints, Len(checkpoints) - 1)
<1>1. checkpoints \in Seq(Checkpoint)
  BY GoodNow
<1>2. Len(checkpoints) # 0 /\ Len(checkpoints) \in 1 .. Len(checkpoints) /\ Top \in Checkpoint
  BY <1>1 DEF FrameOpen, Top
<1>3. Top \in OpenFrames
  BY <1>2 DEF Top, OpenFrames, FramesIn
<1>4. \A i \in 1 .. Len(checkpoints) - 1 : i \in 1 .. Len(checkpoints)
  BY <1>1
<1>5. \A c \in C : c \in OpenFrames
  BY <1>4 DEF OpenFrames, FramesIn
<1>6. C \in SUBSET Checkpoint
  BY <1>5, GoodNow
<1> HIDE DEF C
<1>7. Sound(B, Start, journal, Listed, C)
  BY <1>5, GoodNow, SoundLess
<1> QED BY <1>2, <1>3, <1>5, <1>6, <1>7 DEF C

\* What a step leaves alone: i frames were entered, then Point(i) entries were made, and
\* reverting to the frames that stay open gives what it gave before the step.
Point(i) == IF i = 0 THEN 0 ELSE checkpoints[i].journalI

Stays(B) ==
  \A i \in 0 .. Len(checkpoints) : i <= Len(checkpoints') =>
    Keeps(B, RevertTo(journal, Point(i)), RevertTo(journal', Point(i)))

\* The checkpoints lie within the log, and in order.
LEMMA PointBounds ==
  ASSUME NEW B \in BOOLEAN, Inv, Good(B), NEW i \in 0 .. Len(checkpoints)
  PROVE  /\ Point(i) \in 0 .. Len(journal.entries)
         /\ i <= Len(checkpoints) - 1 => Point(i) \in 0 .. Top.journalI
<1>1. checkpoints \in Seq(Checkpoint) /\ Len(journal.entries) \in Nat
  BY GoodNow DEF JournalRec
<1>2. CASE i = 0
  <2>1. Len(checkpoints) # 0 => Top \in Checkpoint
    BY <1>1 DEF Top
  <2>2. Top \in Checkpoint => Top.journalI \in Nat
    BY DEF Checkpoint
  <2>3. i <= Len(checkpoints) - 1 => Top.journalI \in Nat
    BY <1>1, <1>2, <2>1, <2>2
  <2> QED BY <1>1, <1>2, <2>3 DEF Point
<1>3. CASE i # 0
  <2>1. i \in 1 .. Len(checkpoints) /\ Len(checkpoints) \in 1 .. Len(checkpoints)
        /\ i \in 1 .. Len(checkpoints) /\ Point(i) = checkpoints[i].journalI
    BY <1>1, <1>3 DEF Point
  <2>2. checkpoints[i].journalI \in 0 .. Len(journal.entries)
    BY <2>1, GoodNow DEF StagesGood
  <2>3. checkpoints[i].journalI <= checkpoints[Len(checkpoints)].journalI
        /\ checkpoints[Len(checkpoints)].journalI \in 0 .. Len(journal.entries)
    BY <1>1, <2>1, GoodNow DEF StagesGood
  <2> QED BY <2>1, <2>2, <2>3 DEF Top
<1> QED BY <1>2, <1>3

\* A method that may be reverted leaves what the open frames would revert to.
LEMMA GrowStays ==
  ASSUME NEW B \in BOOLEAN, Inv, Good(B), NEW k, Reverts(B, journal, k), journal' = k
  PROVE  Stays(B)
BY PointBounds DEF Stays, Reverts

\* So does leaving a frame, for the frames around it.
LEMMA LeaveStays ==
  ASSUME NEW B \in BOOLEAN, Inv, Good(B), FrameOpen, NEW k, NEW T,
         T \in {journal, RevertTo(journal, Top.journalI)}, Reverts(B, T, k),
         journal' = k, Leave
  PROVE  Stays(B)
<1> DEFINE n == Top.journalI
<1>1. n \in Nat /\ n \in 0 .. Len(journal.entries) /\ Len(checkpoints) # 0
  BY TopBounds, FramesFewer
<1>2. checkpoints \in Seq(Checkpoint) /\ checkpoints' = SubSeq(checkpoints, 1, Len(checkpoints) - 1)
  BY GoodNow DEF Leave, Pop
<1>3. Len(checkpoints') = Len(checkpoints) - 1 /\ Len(checkpoints) \in Nat
  <2> HIDE DEF n
  <2>1. checkpoints \in Seq(Checkpoint) /\ Len(checkpoints) # 0
    BY <1>1, <1>2
  <2> QED BY <1>2, <2>1, FrontFields
<1>4. ASSUME NEW m \in 0 .. n PROVE Keeps(B, RevertTo(journal, m), RevertTo(k, m))
  <2> HIDE DEF n
  <2>1. m \in 0 .. Len(journal.entries) /\ Len(journal.entries) \in Nat
    BY <1>1, GoodNow DEF JournalRec
  <2>2. CASE T = journal
    BY <2>1, <2>2 DEF Reverts
  <2>3. CASE T = RevertTo(journal, n)
    <3>1. RevertTo(T, m) = RevertTo(journal, m) /\ Len(T.entries) = n
      BY <1>1, <2>3, GoodNow, RevertFacts
    <3> QED BY <3>1 DEF Reverts
  <2> QED BY <2>2, <2>3 DEF n
<1>5. ASSUME NEW i \in 0 .. Len(checkpoints), i <= Len(checkpoints')
      PROVE  Point(i) \in 0 .. n
  BY <1>3, <1>5, PointBounds
<1> HIDE DEF n
<1> QED BY <1>4, <1>5 DEF Stays

\* A method that leads to k preserves the invariant.
LEMMA GoodGrows ==
  ASSUME NEW B \in BOOLEAN, Inv, Good(B), NEW k,
         Leads(B, Start, Listed, OpenFrames, journal, k),
         journal' = k, UNCHANGED <<txid, doomed, checkpoints>>
  PROVE  Good(B)' /\ Stays(B)
<1>1. k \in JournalRec
  BY DEF Leads, Reverts
<1>2. GoodAt(B, RevertTo(k, 0), k, doomed, checkpoints)
  BY <1>1, GoodNow, GoodMove DEF Start, Listed, OpenFrames
<1> QED BY <1>2, GoodPrimed, GrowStays DEF Leads

\* One lemma per action from here on; each cites the lemma of its method.
LEMMA LoadAccountGood ==
  ASSUME NEW B \in BOOLEAN, Inv, Good(B), NEW a \in Addr, LoadAccount(a)
  PROVE  Good(B)' /\ Stays(B)
<1>1. Leads(B, Start, Listed, OpenFrames, journal, Load(journal, a))
  BY GoodNow, LeadsLoad
<1> QED BY <1>1, GoodGrows DEF LoadAccount, OnlyJournal

\* SLoadInto: a slot and its account may come into the maps.
LEMMA SLoadGood ==
  ASSUME NEW B \in BOOLEAN, Inv, Good(B), NEW a \in Addr, NEW k \in Key, SLoad(a, k)
  PROVE  Good(B)' /\ Stays(B)
<1>1. Leads(B, Start, Listed, OpenFrames, journal, SLoadSlot(journal, a, k))
  BY GoodNow, LeadsSLoad
<1> QED BY <1>1, GoodGrows DEF SLoad, OnlyJournal

\* What runs is warm, and has code or is being created: its storage may be written.
LEMMA RunningGood ==
  ASSUME NEW B \in BOOLEAN, Inv, Good(B), NEW a \in Addr, Running(a)
  PROVE  /\ journal.acct[a].loaded /\ WarmNow(journal.acct[a]) /\ ~Vacant(journal.acct[a])
         /\ journal.acct[a].code # NoCode \/ CreatedNow(journal.acct[a])
<1> DEFINE x == journal.acct[a]
<1>1. x.loaded /\ x.tx = txid /\ "Cold" \notin x.status
  BY DEF Running, Loaded, ColdInTx, Has
<1>2. x.code # NoCode \/ CreatedNow(x)
  BY <1>1 DEF Running, Has, CreatedNow
<1>3. AcctGood(B, x, a)
  BY GoodNow
<1> HIDE DEF x
<1>4. ~Vacant(x)
  BY <1>2, <1>3 DEF AcctGood, Vacant
<1> QED BY <1>1, <1>2, <1>4 DEF WarmNow, x

\* The account that stores runs: it is in the map, and not an empty one.
LEMMA SStoreGood ==
  ASSUME NEW B \in BOOLEAN, Inv, Good(B), NEW a \in Addr, NEW k \in Key, NEW v \in Value,
         SStore(a, k, v)
  PROVE  Good(B)' /\ Stays(B)
<1>1. journal.acct[a].loaded /\ ~Vacant(journal.acct[a])
  BY RunningGood DEF SStore
<1>2. Leads(B, Start, Listed, OpenFrames, journal, SStoreSlot(journal, a, k, v))
  BY <1>1, GoodNow, LeadsSStore
<1> QED BY <1>2, GoodGrows DEF SStore, OnlyJournal

\* TStore, by the account that runs.
LEMMA TStoreGood ==
  ASSUME NEW B \in BOOLEAN, Inv, Good(B), NEW a \in Addr, NEW k \in Key, NEW v \in Value,
         TStore(a, k, v)
  PROVE  Good(B)' /\ Stays(B)
<1>1. journal.acct[a].loaded
  BY RunningGood DEF TStore
<1>2. Leads(B, Start, Listed, OpenFrames, journal, TStoreSlot(journal, a, k, v))
  BY <1>1, GoodNow, LeadsTStore
<1> QED BY <1>2, GoodGrows DEF TStore, OnlyJournal

\* Touch: the touch of address 3 stays when the rest is reverted.
LEMMA TouchGood ==
  ASSUME NEW B \in BOOLEAN, Inv, Good(B), NEW a \in Addr, Touch(a)
  PROVE  Good(B)' /\ Stays(B)
<1>1. Leads(B, Start, Listed, OpenFrames, journal, TouchAccount(journal, a))
  BY GoodNow, LeadsTouch DEF Touch
<1> QED BY <1>1, GoodGrows DEF Touch, OnlyJournal

\* AppendLog: the journal is left alone.
LEMMA AppendLogGood ==
  ASSUME NEW B \in BOOLEAN, Inv, Good(B), NEW a \in Addr, AppendLog(a)
  PROVE  Good(B)' /\ Stays(B)
BY GoodNow, GoodGrows DEF AppendLog

\* BumpNonce, of an account that is not deleted and whose nonce does not wrap.
LEMMA BumpNonceGood ==
  ASSUME NEW B \in BOOLEAN, Inv, Good(B), NEW a \in Addr, BumpNonce(a)
  PROVE  Good(B)' /\ Stays(B)
<1> DEFINE n == journal.acct[a].nonce
           k == Record(SetNonce(journal, a, n + 1), [kind |-> "NonceChange", addr |-> a, nonce |-> n])
<1>1. /\ journal.acct[a].loaded /\ n < MaxNonce
      /\ ~Marked(journal.acct[a]) \/ Doomed(journal.acct[a])
  BY DEF BumpNonce, Loaded, Gone, Has, Marked, Doomed
<1>2. Leads(B, Start, Listed, OpenFrames, journal, k)
  BY <1>1, GoodNow, LeadsBumpNonce
<1>3. journal' = k /\ UNCHANGED <<txid, doomed, checkpoints>>
  BY DEF BumpNonce, OnlyJournal
<1> HIDE DEF k
<1> QED BY <1>2, <1>3, GoodGrows

\* BalanceIncr: the entry has the balance that was there.
LEMMA BalanceIncrGood ==
  ASSUME NEW B \in BOOLEAN, Inv, Good(B), NEW a \in Addr, NEW v \in Balance, BalanceIncr(a, v)
  PROVE  Good(B)' /\ Stays(B)
<1>1. Leads(B, Start, Listed, OpenFrames, journal, IncrBalance(journal, a, v))
  BY GoodNow, LeadsIncrBalance
<1> QED BY <1>1, GoodGrows DEF BalanceIncr, OnlyJournal

\* The one method that needs SupplyFits.
LEMMA TransferGood ==
  ASSUME NEW B \in BOOLEAN, Inv, Good(B), B => SupplyFits,
         NEW a \in Addr, NEW b \in Addr, NEW v \in Balance, Transfer(a, b, v)
  PROVE  Good(B)' /\ Stays(B)
<1>1. Leads(B, Start, Listed, OpenFrames, journal, TransferBalance(journal, a, b, v))
  BY GoodNow, LeadsTransferBalance DEF SupplyFits
<1> QED BY <1>1, GoodGrows DEF Transfer, OnlyJournal

\* A first destruction lists its account.
LEMMA SelfdestructGood ==
  ASSUME NEW B \in BOOLEAN, Inv, Good(B), NEW a \in Addr, NEW b \in Addr, Selfdestruct(a, b)
  PROVE  Good(B)' /\ Stays(B)
<1> DEFINE p == PayBeneficiary(journal, a, b)
           new == MayDestroy(p, a) /\ DestroyStatus(p, a) = "Global"
           d == IF new THEN Append(doomed, a) ELSE doomed
           k == Destroy(journal, a, b)
           E == ListedIn(d, Len(d))
<1>1. /\ WarmNow(journal.acct[a])
      /\ journal.acct[a].code # NoCode \/ CreatedNow(journal.acct[a])
  BY RunningGood DEF Selfdestruct
<1>2. /\ StagesGood(B, Start, journal, d, checkpoints) /\ d \in Seq(Addr)
      /\ \A x \in Listed : x \in E
      /\ new => a \in E
  <2>1. CASE new
    BY <2>1, GoodNow, StagesDoom DEF Listed
  <2>2. CASE ~new
    BY <2>2, GoodNow DEF Listed
  <2> QED BY <2>1, <2>2
<1>3. doomed' = d /\ journal' = k /\ UNCHANGED <<txid, checkpoints>>
  BY DEF Selfdestruct
<1> HIDE DEF p, new, d, k, E
<1>4. \A c \in OpenFrames : c.journalI <= Len(journal.entries)
  <2>1. ASSUME NEW i \in 1 .. Len(checkpoints)
        PROVE  checkpoints[i].journalI <= Len(journal.entries)
    <3>1. checkpoints[i].journalI \in 0 .. Len(journal.entries)
      BY GoodNow DEF StagesGood
    <3> QED BY <3>1
  <2> QED BY <2>1 DEF OpenFrames, FramesIn
<1>5. Leads(B, Start, E, OpenFrames, journal, k)
  <2>1. LET q == PayBeneficiary(journal, a, b)
        IN  MayDestroy(q, a) /\ DestroyStatus(q, a) = "Global" => a \in E
    BY <1>2 DEF p, new
  <2> QED BY <1>1, <1>2, <1>4, <2>1, GoodNow, LeadsDestroy DEF k
<1>6. k \in JournalRec
  BY <1>5 DEF Leads, Reverts
<1>7. GoodAt(B, RevertTo(k, 0), k, d, checkpoints)
  BY <1>2, <1>5, <1>6, GoodNow, GoodMove DEF Start, OpenFrames, E
<1> QED BY <1>3, <1>5, <1>7, GoodPrimed, GrowStays DEF Leads

\* A frame is entered with a sound journal, and its creation is one of this transaction.
LEMMA EnterGood ==
  ASSUME NEW B \in BOOLEAN, Inv, Good(B), NEW k, NEW a \in Addr \cup {None},
         Leads(B, Start, Listed, OpenFrames, journal, k),
         a # None => CreatedNow(k.acct[a]) /\ ~Doomed(k.acct[a]),
         journal' = k, Enter(a), UNCHANGED <<txid, doomed>>
  PROVE  Good(B)' /\ Stays(B)
<1> DEFINE c == [logI |-> Len(logs), journalI |-> Len(journal.entries),
                 doomedI |-> Len(doomed), created |-> a]
           cs == Append(checkpoints, c)
           C == FramesIn(cs, Len(cs))
<1>1. Len(logs) \in Nat /\ Len(journal.entries) \in Nat /\ Len(doomed) \in Nat
  BY Lengths DEF Inv
<1>2. c \in Checkpoint /\ c.journalI = Len(journal.entries) /\ c.doomedI = Len(doomed) /\ c.created = a
  BY <1>1 DEF Checkpoint
<1>3. checkpoints' = cs
  BY DEF Enter
<1> HIDE DEF c
<1>4. StagesGood(B, Start, journal, doomed, cs) /\ cs \in Seq(Checkpoint) /\ C = OpenFrames \cup {c}
  BY <1>2, GoodNow, StagesPush DEF Listed, OpenFrames
<1> HIDE DEF cs, C
<1>5. k \in JournalRec /\ Sound(B, Start, k, Listed, OpenFrames)
  BY DEF Leads, Reverts
<1>6. FramesGood(k, C)
  BY <1>2, <1>4, <1>5 DEF Sound, FramesGood
<1>7. Leads(B, Start, Listed, C, journal, k)
  BY <1>5, <1>6 DEF Leads, Sound
<1>8. GoodAt(B, RevertTo(k, 0), k, doomed, cs)
  BY <1>4, <1>5, <1>7, GoodNow, GoodMove, Zenon DEF Start, Listed, C
<1> QED BY <1>3, <1>8, <1>7, GoodPrimed, GrowStays DEF Leads

\* Entering a frame for a call.
LEMMA CheckptGood ==
  ASSUME NEW B \in BOOLEAN, Inv, Good(B), Checkpt
  PROVE  Good(B)' /\ Stays(B)
BY GoodNow, EnterGood DEF Checkpt

\* An overflow reverts what CreateAccountCheckpoint had done.
LEMMA LeadsUndone ==
  ASSUME NEW B \in BOOLEAN, NEW r \in JournalRec, NEW j \in JournalRec, NEW k,
         NEW D, NEW C \in SUBSET Checkpoint,
         Leads(B, r, D, C, j, j), Leads(B, r, D, C, j, k)
  PROVE  Leads(B, r, D, C, j, RevertTo(k, Len(j.entries)))
<1> DEFINE n == Len(j.entries)
           u == RevertTo(k, n)
<1>1. k \in JournalRec /\ n \in Nat /\ Len(k.entries) \in Nat /\ n <= Len(k.entries)
  BY DEF Leads, Reverts, JournalRec
<1>2. n \in 0 .. Len(k.entries) /\ n \in 0 .. n
  BY <1>1
<1>3. /\ u \in JournalRec /\ Len(u.entries) = n /\ \A p \in 1 .. n : u.entries[p] = k.entries[p]
      /\ Cools(k, u) /\ \A m \in 0 .. n : RevertTo(u, m) = RevertTo(k, m)
  BY <1>1, <1>2, RevertFacts
<1>4. Keeps(B, j, u)
  BY <1>2, RevertStep DEF Leads, Reverts
<1> HIDE DEF u
<1>5. \A p \in 1 .. n : u.entries[p] = j.entries[p]
  BY <1>3 DEF Leads, Reverts
<1>6. AllNamed(u)
  <2>1. ASSUME NEW p \in 1 .. n PROVE Named(u, j.entries[p])
    <3>1. j.entries[p] \in Entry /\ Named(j, j.entries[p])
      BY DEF JournalRec, Leads, Reverts, AllNamed
    <3> QED BY <1>3, <1>4, <3>1, NamedKeeps
  <2> QED BY <1>3, <1>5, <2>1 DEF AllNamed
<1>7. Reverts(B, j, u)
  <2>1. \A m \in 0 .. n : Keeps(B, RevertTo(j, m), RevertTo(u, m))
    BY <1>3 DEF Leads, Reverts
  <2>2. Len(j.entries) <= Len(u.entries)
    BY <1>1, <1>3
  <2> QED BY <1>3, <1>5, <1>6, <2>1, <2>2 DEF Reverts
<1>8. Sound(B, r, u, D, C)
  <2>1. Keeps(B, r, r) /\ Sound(B, r, j, D, C)
    BY KeepsTrans DEF Leads
  <2> QED BY <1>3, <1>4, <1>5, <2>1, SoundKeeps
<1>9. Current(r, u)
  <2>1. Current(r, k)
    BY DEF Leads
  <2> QED BY <1>3, <2>1, SMTT(30) DEF Current, Cools, SlotWarm
<1> QED BY <1>7, <1>8, <1>9 DEF Leads, u

\* Entering a frame for a creation.
LEMMA CreateGood ==
  ASSUME NEW B \in BOOLEAN, Inv, Good(B), NEW b \in Addr, NEW a \in Addr, NEW v \in Balance,
         CreateAccountCheckpoint(b, a, v)
  PROVE  Good(B)' /\ Stays(B)
<1> DEFINE m == NewAccount(journal, a)
           k == Endow(m, b, a, v)
           u == RevertTo(m, Len(journal.entries))
<1>1. /\ b # a /\ WarmNow(journal.acct[b]) /\ WarmNow(journal.acct[a])
      /\ v <= journal.acct[b].bal
      /\ SpuriousDragon \/ "Created" \notin journal.acct[a].status
      /\ ~Collides(journal, a)
      /\ UNCHANGED <<txid, doomed>>
      /\ \/ journal' = u /\ UNCHANGED checkpoints
         \/ journal' = k /\ Enter(a)
  BY DEF CreateAccountCheckpoint, Loaded, ColdInTx, Has, WarmNow
<1>2. /\ Leads(B, Start, Listed, OpenFrames, journal, m) /\ Puts(journal, m, a, m.acct[a])
      /\ CreatedNow(m.acct[a]) /\ ~Marked(m.acct[a]) /\ ~Doomed(m.acct[a]) /\ m.acct[a].loaded
  <2>1. /\ Leads(B, Start, Listed, OpenFrames, journal, m) /\ Puts(journal, m, a, m.acct[a])
        /\ CreatedFrom(journal.acct[a], m.acct[a])
    BY <1>1, GoodNow, LeadsNewAccount
  <2> QED BY <2>1 DEF CreatedFrom, WarmNow
<1> HIDE DEF m, k, u
<1>3. m \in JournalRec /\ m.acct[b] = journal.acct[b] /\ journal.acct[b].loaded
  BY <1>1, <1>2 DEF Puts, WarmNow
<1>4. Leads(B, Start, Listed, OpenFrames, journal, u)
  BY <1>2, GoodNow, LeadsUndone DEF u
<1>5. /\ Leads(B, Start, Listed, OpenFrames, journal, k)
      /\ k.acct[a] = WithBal(m.acct[a], k.acct[a].bal) /\ k.acct[a].bal \in Balance
  BY <1>1, <1>2, <1>3, GoodNow, LeadsEndow DEF k
<1>6. CreatedNow(k.acct[a]) /\ ~Doomed(k.acct[a])
  <2>1. m.acct[a] \in Account
    BY <1>3 DEF JournalRec
  <2> QED BY <1>2, <1>5, <2>1, WithBalFields
<1> QED BY <1>1, <1>4, <1>5, <1>6, GoodGrows, EnterGood

\* A frame ends: k may be reverted to what it was when some frames had been entered.
LEMMA LeaveGood ==
  ASSUME NEW B \in BOOLEAN, Inv, Good(B), FrameOpen, NEW k, NEW T, NEW f \in Seq(Addr),
         T \in {journal, RevertTo(journal, Top.journalI)},
         Top.doomedI <= Len(f), \A p \in 1 .. Top.doomedI : f[p] = doomed[p],
         Leads(B, Start, ListedIn(f, Len(f)), FramesIn(checkpoints, Len(checkpoints) - 1), T, k),
         journal' = k, doomed' = f, Leave, UNCHANGED txid
  PROVE  Good(B)' /\ Stays(B)
<1> DEFINE cs == SubSeq(checkpoints, 1, Len(checkpoints) - 1)
           n == Top.journalI
<1>1. n \in Nat /\ n \in 0 .. Len(journal.entries) /\ Len(checkpoints) # 0
  BY TopBounds, FramesFewer
<1>2. Top = checkpoints[Len(checkpoints)] /\ checkpoints' = cs
  BY DEF Top, Leave, Pop
<1>3. /\ StagesGood(B, Start, T, f, cs) /\ cs \in Seq(Checkpoint)
      /\ FramesIn(cs, Len(cs)) = FramesIn(checkpoints, Len(checkpoints) - 1)
  <2>1. /\ Start \in JournalRec /\ journal \in JournalRec /\ doomed \in Seq(Addr)
        /\ checkpoints \in Seq(Checkpoint) /\ StagesGood(B, Start, journal, doomed, checkpoints)
    BY GoodNow
  <2>2. Pops(doomed, f, checkpoints, cs, n)
    BY <1>1, <1>2 DEF Pops
  <2>3. T \in {journal, RevertTo(journal, n)}
    OBVIOUS
  <2> HIDE DEF n, cs
  <2> QED BY <2>1, <2>2, <2>3, StagesPop
<1>4. T \in JournalRec /\ RevertTo(T, 0) = Start
  <2>1. RevertTo(journal, n) \in JournalRec /\ RevertTo(RevertTo(journal, n), 0) = RevertTo(journal, 0)
    <3>1. 0 \in 0 .. n
      BY <1>1
    <3> HIDE DEF n
    <3> QED BY <1>1, <3>1, GoodNow, RevertFacts
  <2> QED BY <2>1, GoodNow DEF Start
<1> HIDE DEF cs, n
<1>5. k \in JournalRec
  BY DEF Leads, Reverts
<1>6. GoodAt(B, RevertTo(k, 0), k, f, cs)
  <2>1. Leads(B, Start, ListedIn(f, Len(f)), FramesIn(cs, Len(cs)), T, k)
    BY <1>3
  <2> QED BY <1>3, <1>4, <1>5, <2>1, GoodNow, GoodMove
<1> QED BY <1>2, <1>6, GoodPrimed, LeaveStays DEF Leads

\* Leaving a frame that succeeded.
LEMMA CheckpointCommitGood ==
  ASSUME NEW B \in BOOLEAN, Inv, Good(B), CheckpointCommit
  PROVE  Good(B)' /\ Stays(B)
<1>1. FrameOpen /\ Leave /\ UNCHANGED <<journal, txid, doomed>>
  BY DEF CheckpointCommit
<1>2. Top.doomedI <= Len(doomed)
  BY <1>1, TopBounds
<1>3. LET C == FramesIn(checkpoints, Len(checkpoints) - 1)
      IN  Leads(B, Start, Listed, C, journal, journal)
  BY <1>1, GoodNow, FramesFewer DEF Leads
<1>4. journal \in {journal, RevertTo(journal, Top.journalI)}
  OBVIOUS
<1> QED BY <1>1, <1>2, <1>3, <1>4, GoodNow, LeaveGood DEF Listed

\* What the innermost frame would be reverted to is sound.
LEMMA TopSound ==
  ASSUME NEW B \in BOOLEAN, Inv, Good(B), FrameOpen
  PROVE  LET C == FramesIn(checkpoints, Len(checkpoints) - 1)
             T == RevertTo(journal, Top.journalI)
         IN  Leads(B, Start, ListedIn(doomed, Top.doomedI), C, T, T)
<1> DEFINE C == FramesIn(checkpoints, Len(checkpoints) - 1)
           n == Top.journalI
           T == RevertTo(journal, n)
           D == ListedIn(doomed, Top.doomedI)
<1>1. n \in Nat /\ n \in 0 .. Len(journal.entries)
  BY TopBounds
<1>2. Sound(B, Start, T, D, C)
  BY FramesFewer, GoodNow DEF StagesGood, Top
<1> HIDE DEF n, D
<1>3. /\ T \in JournalRec /\ Len(T.entries) = n /\ \A i \in 1 .. n : T.entries[i] = journal.entries[i]
      /\ Cools(journal, T)
  BY <1>1, GoodNow, RevertFacts
<1>4. \A i \in 1 .. n : i \in 1 .. Len(journal.entries)
  BY <1>1
<1> HIDE DEF T
<1>5. Current(Start, T)
  <2>1. Current(Start, journal)
    BY GoodNow
  <2>2. \A a \in Addr : T.acct[a].tx = journal.acct[a].tx
    BY <1>3 DEF Cools
  <2>3. ASSUME NEW a \in Addr, NEW q \in Key
        PROVE  /\ T.slot[a][q].tx = journal.slot[a][q].tx
               /\ T.slot[a][q].orig = journal.slot[a][q].orig
               /\ SlotWarm(T.slot[a][q]) => SlotWarm(journal.slot[a][q])
    BY <1>3 DEF Cools, SlotWarm
  <2> QED BY <2>1, <2>2, <2>3 DEF Current
<1>6. AllNamed(T)
  <2>1. ASSUME NEW i \in 1 .. n PROVE Named(T, journal.entries[i])
    <3>1. journal.entries[i] \in Entry /\ Named(journal, journal.entries[i])
      BY <1>4, GoodNow DEF AllNamed, JournalRec
    <3> QED BY <1>3, <3>1, GoodNow, NamedCools
  <2> QED BY <1>3, <2>1 DEF AllNamed
<1>7. C \in SUBSET Checkpoint
  BY FramesFewer
<1> HIDE DEF C
<1>8. n \in 0 .. Len(T.entries) /\ RevertTo(T, n) = T
  BY <1>1, <1>3, RevertStep
<1>9. Leads(B, Start, D, C, RevertTo(T, n), T)
  BY <1>2, <1>3, <1>5, <1>6, <1>7, <1>8, GoodNow, LeadsBack
<1> QED BY <1>8, <1>9 DEF T, n, C, D

\* Leaving a frame that failed.
LEMMA CheckpointRevertGood ==
  ASSUME NEW B \in BOOLEAN, Inv, Good(B), CheckpointRevert
  PROVE  Good(B)' /\ Stays(B)
<1> DEFINE n == Top.doomedI
           f == SubSeq(doomed, 1, n)
           T == RevertTo(journal, Top.journalI)
           C == FramesIn(checkpoints, Len(checkpoints) - 1)
<1>1. FrameOpen /\ Leave /\ journal' = T /\ doomed' = f /\ UNCHANGED txid
  BY DEF CheckpointRevert
<1>2. n \in Nat /\ n \in 0 .. Len(doomed) /\ doomed \in Seq(Addr)
  BY <1>1, TopBounds, GoodNow
<1>3. \A p \in 1 .. n : p \in 1 .. Len(doomed)
  BY <1>2
<1> HIDE DEF n
<1>4. f \in Seq(Addr) /\ Len(f) = n /\ \A p \in 1 .. n : f[p] = doomed[p]
  BY <1>2, <1>3
<1> HIDE DEF f
<1>5. ListedIn(f, Len(f)) = ListedIn(doomed, n)
  BY <1>4 DEF ListedIn
<1>6. Leads(B, Start, ListedIn(doomed, n), C, T, T)
  BY <1>1, TopSound DEF n
<1>7. n <= Len(f)
  BY <1>2, <1>4
<1> QED BY <1>1, <1>4, <1>5, <1>6, <1>7, LeaveGood DEF n

\* Leaving a frame whose creation succeeded.
LEMMA FinishCreateGood ==
  ASSUME NEW B \in BOOLEAN, Inv, Good(B), NEW c \in Code, NEW byOpcode \in BOOLEAN,
         FinishCreate(c, byOpcode)
  PROVE  Good(B)' /\ Stays(B)
<1> DEFINE a == Top.created
           n == Top.journalI
           T == RevertTo(journal, n)
           C == FramesIn(checkpoints, Len(checkpoints) - 1)
           kept == IF byOpcode THEN journal ELSE Unmark(journal, a, DestroyMarks)
           k == IF c = NoCode THEN kept ELSE DeployCode(kept, a, c)
<1>1. /\ FrameOpen /\ Leave /\ a # None /\ journal' = k /\ UNCHANGED <<txid, doomed>>
      /\ byOpcode => c = NoCode
  BY DEF FinishCreate, DestroyMarks
<1>2. n \in 0 .. Len(journal.entries) /\ a \in Addr /\ Top.doomedI <= Len(doomed)
  BY <1>1, TopBounds
<1>3. C \in SUBSET Checkpoint /\ \A x \in C : x \in OpenFrames
  BY <1>1, FramesFewer
<1> HIDE DEF a, n, T, C, k, kept
<1>4. CASE byOpcode
  <2>1. k = journal /\ T \in {journal, RevertTo(journal, Top.journalI)}
    BY <1>1, <1>4 DEF k, kept, T, n
  <2>2. Sound(B, Start, journal, Listed, C)
    BY <1>1, FramesFewer DEF C
  <2>3. Leads(B, Start, Listed, C, T, journal)
    BY <1>2, <1>3, <2>2, GoodNow, LeadsBack DEF T
  <2> QED BY <1>1, <1>2, <2>1, <2>3, GoodNow, LeaveGood DEF C, Listed
<1>5. CASE ~byOpcode
  <2>1. kept = Unmark(journal, a, DestroyMarks)
    BY <1>5 DEF kept
  <2>2. Top \in OpenFrames /\ Top.journalI = n /\ Top.created = a
    BY <1>1, FramesFewer DEF n, a
  <2>3. Leads(B, Start, Listed, OpenFrames, T, kept) /\ CreatedNow(kept.acct[a]) /\ kept.acct[a].loaded
    BY <1>2, <2>1, <2>2, GoodNow, LeadsUnmark DEF T
  <2>4. Leads(B, Start, Listed, C, T, kept)
    <3>1. Sound(B, Start, kept, Listed, C)
      BY <1>3, <2>3, SoundLess DEF Leads
    <3> QED BY <2>3, <3>1 DEF Leads
  <2>5. Leads(B, Start, Listed, C, T, k)
    <3>1. T \in JournalRec /\ kept \in JournalRec
      BY <1>2, <2>4, GoodNow, RevertFacts DEF T, Leads, Reverts
    <3>2. CASE c = NoCode
      BY <2>4, <3>2 DEF k
    <3>3. CASE c # NoCode
      <4>1. Leads(B, Start, Listed, C, T, DeployCode(kept, a, c))
        BY <1>2, <1>3, <2>3, <2>4, <3>1, GoodNow, LeadsDeployCode
      <4> QED BY <3>3, <4>1 DEF k
    <3> QED BY <3>2, <3>3
  <2>6. T \in {journal, RevertTo(journal, Top.journalI)}
    BY DEF T, n
  <2> QED BY <1>1, <1>2, <2>5, <2>6, GoodNow, LeaveGood DEF C, Listed
<1> QED BY <1>4, <1>5

\* The end of a transaction, committed or discarded.
LEMMA EndTxGood ==
  ASSUME NEW B \in BOOLEAN, Inv, Good(B), CommitTx \/ DiscardTx
  PROVE  Good(B)'
<1>1. /\ ~FrameOpen /\ txid' = txid + 1 /\ doomed' = <<>> /\ UNCHANGED checkpoints
      /\ \/ journal' = NoTransient(Finalized(journal))
         \/ journal' = NoTransient(Start)
  BY DEF CommitTx, DiscardTx, NextTx, Start
<1>2. checkpoints' = <<>>
  BY <1>1 DEF FrameOpen
<1>3. TypeOK /\ txid \in Nat
  BY DEF Inv, TypeOK
<1>4. Settled(B, NoTransient(Finalized(journal)))
  BY <1>1, <1>3, GoodNow, CommitSettled
<1>5. Settled(B, NoTransient(Start))
  BY GoodNow, DiscardSettled DEF Start
<1> QED BY <1>1, <1>2, <1>3, <1>4, <1>5, SettledGood

\* Every step preserves the invariant and, within a transaction, what the open frames
\* would revert to.
LEMMA NextGood ==
  ASSUME NEW B \in BOOLEAN, Inv, Good(B), B => SupplyFits, [Next]_vars
  PROVE  Good(B)' /\ (txid' = txid => Stays(B))
<1>1. CASE FrameSteps
  BY <1>1, CheckptGood, CheckpointCommitGood, CheckpointRevertGood DEF FrameSteps
<1>2. CASE TxSteps
  <2>1. ASSUME NEW l, WarmAccessList(l) PROVE Good(B)' /\ Stays(B)
    BY <2>1, GoodNow, GoodGrows DEF WarmAccessList
  <2>2. CommitTx \/ DiscardTx => txid' # txid
    BY GoodNow DEF CommitTx, DiscardTx, NextTx
  <2>3. CommitTx \/ DiscardTx => Good(B)' /\ (txid' = txid => Stays(B))
    BY <2>2, EndTxGood
  <2> QED BY <1>2, <2>1, <2>3 DEF TxSteps
<1>3. CASE AccountSteps
  BY <1>3, LoadAccountGood, TouchGood, AppendLogGood, BumpNonceGood DEF AccountSteps
<1>4. CASE StorageSteps
  BY <1>4, SLoadGood, SStoreGood, TStoreGood DEF StorageSteps
<1>5. CASE BalanceSteps
  BY <1>5, ConstantsOK, BalanceIncrGood, TransferGood DEF BalanceSteps
<1>6. CASE LifecycleSteps
  BY <1>6, ConstantsOK, SelfdestructGood, CreateGood, FinishCreateGood DEF LifecycleSteps
<1>7. CASE UNCHANGED vars
  BY <1>7, GoodNow, GoodGrows DEF vars
<1> QED BY <1>1, <1>2, <1>3, <1>4, <1>5, <1>6, <1>7 DEF Next

-----------------------------------------------------------------------------
(***************************************************************************)
(* Theorems.  What does not depend on balances holds of every behaviour.   *)
(***************************************************************************)
\* The inductive invariant, without the balances, holds of every reachable journal.
LEMMA GoodAlways == Spec => [](Inv /\ Good(FALSE))
<1>1. Init => Inv /\ Good(FALSE)
  BY InitInv, InitGood, Zenon
<1>2. Inv /\ Good(FALSE) /\ [Next]_vars => (Inv /\ Good(FALSE))'
  BY NextInv, NextGood, Zenon
<1> QED BY <1>1, <1>2, PTL DEF Spec

\* Revert, which dereferences the account and the slot of every entry, never finds one
\* that is not in Journal.State.
THEOREM EntriesAlwaysRevertible == Spec => []EntriesRevertible
<1>1. Inv /\ Good(FALSE) => EntriesRevertible
  <2> SUFFICES ASSUME Inv, Good(FALSE) PROVE EntriesRevertible
    OBVIOUS
  <2>1. AllNamed(journal) /\ DOMAIN journal.entries = 1 .. Len(journal.entries)
    <3>1. journal \in JournalRec /\ AllNamed(journal)
      BY GoodNow, Zenon
    <3>2. journal.entries \in Seq(Entry)
      BY <3>1 DEF JournalRec
    <3> QED BY <3>1, <3>2
  <2> QED BY <2>1, ZenonT(30) DEF AllNamed, Named, EntriesRevertible
<1> QED BY <1>1, GoodAlways, PTL

\* loadAccountMutInternal resets the local flags of an account it finds cold: no cold
\* account has been doomed in the transaction.
THEOREM ColdAlwaysClean == Spec => []ColdIsClean
<1>1. Inv /\ Good(FALSE) => ColdIsClean
  <2> SUFFICES ASSUME Inv, Good(FALSE), NEW a \in Addr, ColdInTx(journal, a)
               PROVE  ~Has(journal, a, "SelfDestructLocal")
    BY DEF ColdIsClean
  <2>1. AcctGood(FALSE, journal.acct[a], a)
    BY GoodNow, Zenon
  <2> QED BY <2>1 DEF AcctGood, Doomed, WarmNow, ColdInTx, Has
<1> QED BY <1>1, GoodAlways, PTL

\* EIP-6780: from Cancun on, SELFDESTRUCT marks only accounts of this transaction.
THEOREM OnlyCreatedAlwaysDoomed == Spec => []OnlyCreatedDoomed
<1>1. Inv /\ Good(FALSE) => OnlyCreatedDoomed
  <2> SUFFICES ASSUME Inv, Good(FALSE), Cancun, NEW a \in Addr,
                      Has(journal, a, "SelfDestructLocal")
               PROVE  Has(journal, a, "CreatedLocal") /\ ~ColdInTx(journal, a)
    BY DEF OnlyCreatedDoomed
  <2>1. AcctGood(FALSE, journal.acct[a], a)
    BY GoodNow, Zenon
  <2> QED BY <2>1 DEF AcctGood, Doomed, CreatedNow, ColdInTx, Has
<1> QED BY <1>1, GoodAlways, PTL

\* CommitTx deletes by SelfdestructedAddresses what SELFDESTRUCT marked by the flag: the
\* list names every marked account, now and in what each open frame would revert to.
THEOREM DoomedAlwaysListed == Spec => []DoomedIsListed
<1>1. Inv /\ Good(FALSE) => DoomedIsListed
  <2> SUFFICES ASSUME Inv, Good(FALSE) PROVE DoomedIsListed
    OBVIOUS
  <2>1. \A a \in Addr : Has(journal, a, "SelfDestructLocal") => a \in ListedIn(doomed, Len(doomed))
    BY GoodNow, Zenon DEF Sound, ListGood, Doomed, Has, Listed
  <2>2. ASSUME NEW i \in 1 .. Len(checkpoints), NEW a \in Addr,
               Has(RevertTo(journal, checkpoints[i].journalI), a, "SelfDestructLocal")
        PROVE  a \in ListedIn(doomed, checkpoints[i].doomedI)
    BY <2>2, GoodNow, Zenon DEF StagesGood, Sound, ListGood, Doomed, Has
  <2> QED BY <2>1, <2>2 DEF DoomedIsListed, ListedIn
<1> QED BY <1>1, GoodAlways, PTL

\* What CurrentValue reads is the value the proofs speak of.
LEMMA CurrentIsValue ==
  ASSUME NEW B \in BOOLEAN, NEW j \in JournalRec, NEW a \in Addr, NEW q \in Key,
         AcctGood(B, j.acct[a], a)
  PROVE  CurrentValue(j, a, q) = ValueIn(j, a, q)
<1>1. InitialValue(j, a, q) = IF Cleared(j.acct[a]) THEN 0 ELSE DBStorage[a][q]
  BY InitialIsValue
<1>2. ValueIn(j, a, q) = IF j.slot[a][q].loaded THEN j.slot[a][q].present
                           ELSE IF Cleared(j.acct[a]) THEN 0 ELSE DBStorage[a][q]
  BY DEF ValueIn, SlotValue, Cleared
<1> QED BY <1>1, <1>2 DEF CurrentValue

\* EIP-2200: sload and sstore give a slot they find cold its present value as original,
\* and that is what it was when the transaction began.
THEOREM OriginalAlwaysTxStart == Spec => []OriginalIsTxStart
<1>1. Inv /\ Good(FALSE) => OriginalIsTxStart
  <2> SUFFICES ASSUME Inv, Good(FALSE), NEW a \in Addr, NEW k \in Key,
                      journal.slot[a][k].loaded /\ ~SlotColdInTx(journal, a, k)
               PROVE  journal.slot[a][k].orig = CurrentValue(Start, a, k)
    BY DEF OriginalIsTxStart, Start
  <2>1. journal.slot[a][k].orig = ValueIn(Start, a, k)
    BY GoodNow, Zenon DEF Current, SlotWarm, SlotColdInTx
  <2>2. AcctGood(FALSE, Start.acct[a], a)
    BY GoodNow, Zenon DEF Sound, StateGood
  <2> QED BY <2>1, <2>2, GoodNow, CurrentIsValue, Zenon
<1> QED BY <1>1, GoodAlways, PTL

-----------------------------------------------------------------------------
(***************************************************************************)
(* While no two balances sum to more than 2^256 - 1, which the supply of   *)
(* ether excludes, Transfer never stops half way, and reverting restores   *)
(* the balances too.                                                       *)
(***************************************************************************)
\* The inductive invariant with the balances.
LEMMA GoodSupplied == Spec /\ []SupplyFits => [](Inv /\ Good(TRUE))
<1>1. Init => Inv /\ Good(TRUE)
  BY InitInv, InitGood, Zenon
<1>2. Inv /\ Good(TRUE) /\ SupplyFits /\ [Next]_vars => (Inv /\ Good(TRUE))'
  BY NextInv, NextGood, Zenon
<1> QED BY <1>1, <1>2, PTL DEF Spec

\* CommitTx empties the accounts it deletes, and nothing but a touch, which revives it, is
\* done to one afterwards: it has no balance, nonce, code or storage.
THEOREM GoneAlwaysEmpty == Spec /\ []SupplyFits => []GoneIsEmpty
<1>1. Inv /\ Good(TRUE) => GoneIsEmpty
  <2> SUFFICES ASSUME Inv, Good(TRUE), NEW a \in Addr, Marked(journal.acct[a]),
                      ~Doomed(journal.acct[a])
               PROVE  /\ journal.acct[a].bal = 0 /\ journal.acct[a].nonce = 0
                      /\ journal.acct[a].code = NoCode /\ Cleared(journal.acct[a])
    BY DEF GoneIsEmpty, Marked, Doomed, Cleared
  <2>1. AcctGood(TRUE, journal.acct[a], a)
    BY GoodNow, Zenon
  <2> QED BY <2>1 DEF AcctGood
<1> QED BY <1>1, GoodSupplied, PTL

\* What looks alike is the same value to the EVM.
LEMMA CurrentKept ==
  ASSUME NEW B \in BOOLEAN, NEW j \in JournalRec, NEW k,
         NEW a \in Addr, NEW q \in Key, AcctGood(B, j.acct[a], a), Keeps(B, j, k)
  PROVE  CurrentValue(j, a, q) = CurrentValue(k, a, q)
<1>1. /\ SameAcct(B, j.acct[a], k.acct[a], a)
      /\ SameSlot(j.acct[a], k.acct[a], j.slot[a][q], k.slot[a][q], a, q)
  BY DEF Keeps
<1>2. /\ Has(j, a, "Created") <=> Has(k, a, "Created")
      /\ Has(j, a, "SelfDestructed") <=> Has(k, a, "SelfDestructed")
      /\ Has(j, a, "SelfDestructLocal") <=> Has(k, a, "SelfDestructLocal")
      /\ Has(j, a, "StorageCleared") <=> Has(k, a, "StorageCleared")
  BY <1>1, FlagsLast DEF SameAcct, Has
<1>3. InitialValue(k, a, q) = InitialValue(j, a, q)
  BY <1>2 DEF InitialValue, ShouldLoadFromDB
<1>4. InitialValue(j, a, q) = IF Cleared(j.acct[a]) THEN 0 ELSE DBStorage[a][q]
  BY InitialIsValue
<1>5. /\ CurrentValue(j, a, q) = SlotValue(j.acct[a], j.slot[a][q], a, q)
      /\ CurrentValue(k, a, q) = SlotValue(k.acct[a], k.slot[a][q], a, q)
  BY <1>2, <1>3, <1>4 DEF CurrentValue, SlotValue, Cleared, Has
<1> QED BY <1>1, <1>5 DEF SameSlot

\* Journals that agree are the same world.
LEMMA WorldKept ==
  ASSUME NEW j \in JournalRec, NEW k, NEW l,
         \A a \in Addr : AcctGood(TRUE, j.acct[a], a), Keeps(TRUE, j, k)
  PROVE  WorldOf(j, l) = WorldOf(k, l)
<1>1. \A a \in Addr : SameAcct(TRUE, j.acct[a], k.acct[a], a)
  BY Zenon DEF Keeps
<1>2. \A a \in Addr, q \in Key :
        SameSlot(j.acct[a], k.acct[a], j.slot[a][q], k.slot[a][q], a, q)
  BY DEF Keeps
<1>3. ASSUME NEW a \in Addr
      PROVE  /\ j.acct[a].bal = k.acct[a].bal /\ j.acct[a].nonce = k.acct[a].nonce
             /\ j.acct[a].code = k.acct[a].code
             /\ \A f \in Lasting : f \in j.acct[a].status <=> f \in k.acct[a].status
             /\ a \in Sticky \/ ("Touched" \in j.acct[a].status <=> "Touched" \in k.acct[a].status)
             /\ CreatedNow(j.acct[a]) <=> CreatedNow(k.acct[a])
             /\ IsWarm(a) \/ WarmNow(j.acct[a]) <=> IsWarm(a) \/ WarmNow(k.acct[a])
  BY <1>1 DEF SameAcct
<1>4. \A a \in Addr, q \in Key : CurrentValue(j, a, q) = CurrentValue(k, a, q)
  BY CurrentKept, ZenonT(60)
<1>5. \A s \in Addr \X Key : (s \in warmList.slots \/ SlotWarm(j.slot[s[1]][s[2]]))
                         <=> (s \in warmList.slots \/ SlotWarm(k.slot[s[1]][s[2]]))
  <2> SUFFICES ASSUME NEW a \in Addr, NEW q \in Key
               PROVE  (<<a, q>> \in warmList.slots \/ SlotWarm(j.slot[a][q]))
                        <=> (<<a, q>> \in warmList.slots \/ SlotWarm(k.slot[a][q]))
    OBVIOUS
  <2> QED BY <1>2 DEF SameSlot, IsStorageWarm
<1>6. /\ WorldOf(j, l).bal = WorldOf(k, l).bal
      /\ WorldOf(j, l).nonce = WorldOf(k, l).nonce
      /\ WorldOf(j, l).code = WorldOf(k, l).code
  BY <1>3 DEF WorldOf
<1>7. /\ WorldOf(j, l).storage = WorldOf(k, l).storage
      /\ WorldOf(j, l).transient = WorldOf(k, l).transient
      /\ WorldOf(j, l).logs = WorldOf(k, l).logs
  BY <1>4 DEF WorldOf, Keeps
<1>8. /\ WorldOf(j, l).warm = WorldOf(k, l).warm
      /\ WorldOf(j, l).created = WorldOf(k, l).created
  BY <1>3 DEF WorldOf, WarmNow, CreatedNow, ColdInTx, Has
<1>9. WorldOf(j, l).warmSlots = WorldOf(k, l).warmSlots
  BY <1>5, ZenonT(30) DEF WorldOf, SlotWarm, SlotColdInTx
<1>10. /\ WorldOf(j, l).touched = WorldOf(k, l).touched
       /\ WorldOf(j, l).doomed = WorldOf(k, l).doomed
       /\ WorldOf(j, l).gone = WorldOf(k, l).gone
  BY <1>3, FlagsLast DEF WorldOf
<1> QED BY <1>6, <1>7, <1>8, <1>9, <1>10, Zenon DEF WorldOf

\* The logs of a frame are cut to those of the frames around it.
LogsNested ==
  \A i \in 1 .. Len(checkpoints) :
    /\ checkpoints[i].logI \in 0 .. Len(logs)
    /\ \A m \in 1 .. i : checkpoints[m].logI <= checkpoints[i].logI

\* The logs a frame that stays open had when it was entered.
LogsStay ==
  \A i \in 1 .. Len(checkpoints) : i <= Len(checkpoints') =>
    SubSeq(logs', 1, checkpoints[i].logI) = SubSeq(logs, 1, checkpoints[i].logI)

\* A prefix of a prefix.
LEMMA SubSeqSame ==
  ASSUME NEW S, NEW s \in Seq(S), NEW t \in Seq(S), NEW n \in Nat, n <= Len(s), n <= Len(t),
         \A p \in 1 .. n : s[p] = t[p]
  PROVE  SubSeq(s, 1, n) = SubSeq(t, 1, n)
<1>1. /\ SubSeq(s, 1, n) \in Seq(S) /\ SubSeq(t, 1, n) \in Seq(S)
      /\ Len(SubSeq(s, 1, n)) = n /\ Len(SubSeq(t, 1, n)) = n
      /\ \A p \in 1 .. n : SubSeq(s, 1, n)[p] = s[p] /\ SubSeq(t, 1, n)[p] = t[p]
  OBVIOUS
<1> QED BY <1>1

\* Logs are appended, and a frame that is entered notes how many there are.
LEMMA LogsGrow ==
  ASSUME Inv, LogsNested, NEW a,
         \/ logs' = logs
         \/ logs' = Append(logs, a) /\ a \in Addr,
         \/ checkpoints' = checkpoints
         \/ \E c \in Checkpoint : c.logI = Len(logs) /\ checkpoints' = Append(checkpoints, c)
  PROVE  LogsNested' /\ LogsStay
<1>1. logs \in Seq(Addr) /\ checkpoints \in Seq(Checkpoint)
  BY DEF Inv, TypeOK
<1>2. Len(logs) \in Nat /\ Len(logs) <= Len(logs') /\ Len(logs') \in Nat
      /\ \A p \in 1 .. Len(logs) : logs'[p] = logs[p]
  BY <1>1
<1>3. LogsStay
  <2> SUFFICES ASSUME NEW i \in 1 .. Len(checkpoints)
               PROVE  SubSeq(logs', 1, checkpoints[i].logI) = SubSeq(logs, 1, checkpoints[i].logI)
    BY Zenon DEF LogsStay
  <2> DEFINE n == checkpoints[i].logI
  <2>1. n \in 0 .. Len(logs)
    BY DEF LogsNested
  <2> HIDE DEF n
  <2>2. CASE logs' = logs
    BY <2>2
  <2>3. CASE logs' = Append(logs, a) /\ a \in Addr
    <3>1. logs' \in Seq(Addr) /\ n \in Nat /\ n <= Len(logs) /\ n <= Len(logs')
          /\ \A p \in 1 .. n : logs'[p] = logs[p]
      BY <1>1, <1>2, <2>1, <2>3
    <3>2. SubSeq(logs', 1, n) = SubSeq(logs, 1, n)
      BY <1>1, <3>1, SubSeqSame
    <3> QED BY <3>2, Zenon DEF n
  <2> QED BY <2>2, <2>3, Zenon DEF n
<1>4. CASE checkpoints' = checkpoints
  BY <1>2, <1>3, <1>4 DEF LogsNested
<1>5. CASE \E c \in Checkpoint : c.logI = Len(logs) /\ checkpoints' = Append(checkpoints, c)
  <2>1. PICK c \in Checkpoint : c.logI = Len(logs) /\ checkpoints' = Append(checkpoints, c)
    BY <1>5
  <2>2. /\ Len(checkpoints') = Len(checkpoints) + 1 /\ Len(checkpoints) \in Nat
        /\ checkpoints'[Len(checkpoints) + 1] = c
        /\ \A i \in 1 .. Len(checkpoints) : checkpoints'[i] = checkpoints[i]
    BY <1>1, <2>1
  <2>3. ASSUME NEW i \in 1 .. Len(checkpoints')
        PROVE  /\ checkpoints'[i].logI \in 0 .. Len(logs')
               /\ \A m \in 1 .. i : checkpoints'[m].logI <= checkpoints'[i].logI
    <3>1. CASE i \in 1 .. Len(checkpoints)
      <4>1. \A m \in 1 .. i : m \in 1 .. Len(checkpoints) /\ checkpoints'[m] = checkpoints[m]
        BY <2>2, <3>1
      <4>2. checkpoints[i].logI \in 0 .. Len(logs)
            /\ \A m \in 1 .. i : checkpoints[m].logI <= checkpoints[i].logI
        BY <3>1 DEF LogsNested
      <4>3. i \in 1 .. i
        BY <2>2, <3>1
      <4>4. checkpoints'[i] = checkpoints[i]
        BY <4>1, <4>3
      <4> QED BY <1>2, <4>1, <4>2, <4>4, SMTT(30)
    <3>2. CASE i = Len(checkpoints) + 1
      <4>1. \A m \in 1 .. Len(checkpoints) :
              checkpoints[m].logI \in 0 .. Len(logs) /\ checkpoints'[m] = checkpoints[m]
        BY <2>2 DEF LogsNested
      <4>2. checkpoints'[i].logI = Len(logs)
        BY <2>1, <2>2, <3>2
      <4>3. \A m \in 1 .. i : m \in 1 .. Len(checkpoints) \/ m = i
        BY <2>2, <3>2
      <4> QED BY <1>2, <4>1, <4>2, <4>3
    <3> QED BY <2>2, <3>1, <3>2
  <2> QED BY <1>3, <2>3 DEF LogsNested
<1> QED BY <1>3, <1>4, <1>5

\* A frame that is left leaves the logs of the frames around it.
LEMMA LogsLeave ==
  ASSUME Inv, LogsNested, FrameOpen, checkpoints' = Pop,
         \/ logs' = logs
         \/ logs' = SubSeq(logs, 1, Top.logI)
  PROVE  LogsNested' /\ LogsStay
<1> DEFINE N == Len(checkpoints)
<1>1. logs \in Seq(Addr) /\ checkpoints \in Seq(Checkpoint) /\ N # 0 /\ N \in Nat
  BY DEF Inv, TypeOK, FrameOpen
<1>2. Len(checkpoints') = N - 1 /\ \A i \in 1 .. N - 1 : checkpoints'[i] = checkpoints[i]
  BY <1>1, FrontFields DEF Pop
<1>3. Top.logI \in 0 .. Len(logs) /\ \A m \in 1 .. N - 1 : checkpoints[m].logI \in 0 .. Top.logI
  BY <1>1 DEF LogsNested, Top
<1>4. ASSUME NEW n \in 0 .. Top.logI
      PROVE  n <= Len(logs') /\ SubSeq(logs', 1, n) = SubSeq(logs, 1, n)
  <2>1. CASE logs' = logs
    BY <1>3, <2>1
  <2>2. CASE logs' = SubSeq(logs, 1, Top.logI)
    <3> DEFINE t == Top.logI
    <3>1. t \in 0 .. Len(logs) /\ n \in 0 .. t
      BY <1>3
    <3>2. logs' = SubSeq(logs, 1, t)
      BY <2>2
    <3> HIDE DEF t
    <3>3. Len(logs') = t /\ \A p \in 1 .. t : logs'[p] = logs[p]
      BY <1>1, <3>1, <3>2
    <3> QED BY <1>1, <3>1, <3>2, <3>3
  <2> QED BY <2>1, <2>2
<1>5. LogsStay
  BY <1>1, <1>2, <1>3, <1>4 DEF LogsStay
<1>6. ASSUME NEW i \in 1 .. Len(checkpoints')
      PROVE  /\ checkpoints'[i].logI \in 0 .. Len(logs')
             /\ \A m \in 1 .. i : checkpoints'[m].logI <= checkpoints'[i].logI
  <2>1. i \in 1 .. N /\ i \in 1 .. N - 1
        /\ \A m \in 1 .. i : m \in 1 .. N /\ checkpoints'[m] = checkpoints[m]
    BY <1>1, <1>2
  <2>2. checkpoints[i].logI \in 0 .. Top.logI
    BY <1>3, <2>1
  <2>3. checkpoints[i].logI <= Len(logs')
    BY <1>4, <2>2
  <2> QED BY <2>1, <2>2, <2>3, SMTT(30) DEF LogsNested
<1> QED BY <1>5, <1>6 DEF LogsNested

\* Entering a frame leaves the logs.
LEMMA EnterLogs ==
  ASSUME Inv, LogsNested, NEW a \in Addr \cup {None}, Enter(a), logs' = logs
  PROVE  LogsNested' /\ LogsStay
<1> DEFINE c == [logI |-> Len(logs), journalI |-> Len(journal.entries),
                 doomedI |-> Len(doomed), created |-> a]
<1>1. c \in Checkpoint
  BY Lengths DEF Inv, Checkpoint
<1>2. c.logI = Len(logs) /\ checkpoints' = Append(checkpoints, c)
  BY DEF Enter
<1> QED BY <1>1, <1>2, LogsGrow

\* No step cuts into the logs of the frames around the top one.
LEMMA NextLogs ==
  ASSUME Inv, LogsNested, [Next]_vars
  PROVE  LogsNested' /\ (txid' = txid => LogsStay)
<1>1. CASE FrameSteps
  <2>1. CASE Checkpt
    BY <2>1, EnterLogs DEF Checkpt
  <2>2. CASE CheckpointCommit
    BY <2>2, LogsLeave DEF CheckpointCommit, Leave
  <2>3. CASE CheckpointRevert
    BY <2>3, LogsLeave DEF CheckpointRevert, Leave
  <2> QED BY <1>1, <2>1, <2>2, <2>3 DEF FrameSteps
<1>2. CASE TxSteps
  <2>1. ASSUME NEW l, WarmAccessList(l) PROVE LogsNested' /\ LogsStay
    BY <2>1, LogsGrow DEF WarmAccessList
  <2>2. CASE CommitTx \/ DiscardTx
    <3>1. checkpoints' = <<>> /\ txid' = txid + 1 /\ txid \in Nat
      BY <2>2 DEF CommitTx, DiscardTx, NextTx, FrameOpen, Inv, TypeOK
    <3> QED BY <3>1 DEF LogsNested
  <2> QED BY <1>2, <2>1, <2>2 DEF TxSteps
<1>3. CASE AccountSteps
  <2> SUFFICES ASSUME NEW a \in Addr, LoadAccount(a) \/ Touch(a) \/ AppendLog(a) \/ BumpNonce(a)
               PROVE  LogsNested' /\ LogsStay
    BY <1>3 DEF AccountSteps
  <2> QED BY LogsGrow DEF LoadAccount, Touch, AppendLog, BumpNonce, OnlyJournal
<1>4. CASE StorageSteps
  BY <1>4, LogsGrow DEF StorageSteps, SLoad, SStore, TStore, OnlyJournal
<1>5. CASE BalanceSteps
  BY <1>5, LogsGrow DEF BalanceSteps, BalanceIncr, Transfer, OnlyJournal
<1>6. CASE LifecycleSteps
  <2>1. ASSUME NEW a, NEW b, Selfdestruct(a, b) PROVE LogsNested' /\ LogsStay
    BY <2>1, LogsGrow DEF Selfdestruct
  <2>2. ASSUME NEW b \in Addr, NEW a \in Addr, NEW v, CreateAccountCheckpoint(b, a, v)
        PROVE  LogsNested' /\ LogsStay
    <3>1. logs' = logs /\ (checkpoints' = checkpoints \/ Enter(a))
      BY <2>2 DEF CreateAccountCheckpoint
    <3> QED BY <3>1, EnterLogs, LogsGrow
  <2>3. ASSUME NEW c, NEW byOpcode, FinishCreate(c, byOpcode) PROVE LogsNested' /\ LogsStay
    BY <2>3, LogsLeave DEF FinishCreate, Leave
  <2> QED BY <1>6, <2>1, <2>2, <2>3 DEF LifecycleSteps
<1>7. CASE UNCHANGED vars
  BY <1>7, LogsGrow DEF vars
<1> QED BY <1>1, <1>2, <1>3, <1>4, <1>5, <1>6, <1>7 DEF Next

\* Only between two transactions, or before the first frame, is the access list warmed.
LEMMA WarmListStays ==
  ASSUME [Next]_vars, FrameOpen, txid \in Nat, txid' = txid
  PROVE  warmList' = warmList
BY Zenon DEF Next, vars, FrameSteps, TxSteps, AccountSteps, StorageSteps, BalanceSteps, LifecycleSteps,
       Checkpt, CheckpointCommit, CheckpointRevert, WarmAccessList, CommitTx, DiscardTx, NextTx,
       LoadAccount, Touch, AppendLog, BumpNonce, SLoad, SStore, TStore, BalanceIncr, Transfer,
       Selfdestruct, CreateAccountCheckpoint, FinishCreate, OnlyJournal

\* The world of a snapshot, before and after a step.
LEMMA WorldAtIs ==
  ASSUME NEW n, NEW l
  PROVE  /\ WorldAt(n, l) = WorldOf(RevertTo(journal, n), l)
         /\ WorldAt(n, l)' = WorldOf(RevertTo(journal, n), l)'
<1>1. \A w : (CHOOSE v \in {w} : TRUE) = w
  OBVIOUS
<1> QED BY <1>1 DEF WorldAt

\* "CheckpointRevert reverts all changes since the given checkpoint": whatever the methods
\* do in a frame, every frame around it would be reverted to the same world as before.
THEOREM AlwaysReversesAll == Spec /\ []SupplyFits => RevertReversesAll
<1>1. Init => LogsNested
  BY DEF Init, LogsNested
<1>2. Inv /\ LogsNested /\ [Next]_vars => LogsNested'
  BY NextLogs
<1>3. Inv /\ Good(TRUE) /\ LogsNested /\ SupplyFits /\ (Inv /\ Good(TRUE))' /\ [Next]_vars =>
        [txid' = txid /\ FrameOpen =>
           \A i \in DOMAIN checkpoints \cap DOMAIN checkpoints' :
             checkpoints'[i] = checkpoints[i]
               => Snapshot(checkpoints[i])' = Snapshot(checkpoints[i])]_vars
  <2> SUFFICES ASSUME Inv, Good(TRUE), LogsNested, SupplyFits, [Next]_vars,
                      txid' = txid, FrameOpen,
                      NEW i \in DOMAIN checkpoints \cap DOMAIN checkpoints',
                      checkpoints'[i] = checkpoints[i]
               PROVE  Snapshot(checkpoints[i])' = Snapshot(checkpoints[i])
    OBVIOUS
  <2> DEFINE n == checkpoints[i].journalI
             l == checkpoints[i].logI
             j == RevertTo(journal, n)
             k == RevertTo(journal', n)
  <2>1. Inv' /\ Good(TRUE)' /\ Stays(TRUE) /\ LogsStay
    BY NextInv, NextGood, NextLogs, Zenon
  <2>2. /\ i \in 1 .. Len(checkpoints) /\ i <= Len(checkpoints')
        /\ i \in 0 .. Len(checkpoints) /\ i # 0
    BY <2>1, GoodNow DEF Inv, TypeOK
  <2>3. n = Point(i) /\ n \in 0 .. Len(journal.entries)
    BY <2>2, PointBounds, Zenon DEF Point
  <2>4. j \in JournalRec /\ Keeps(TRUE, j, k)
    BY <2>1, <2>2, <2>3, GoodNow, RevertFacts, Zenon DEF Stays
  <2>5. \A a \in Addr : AcctGood(TRUE, j.acct[a], a)
    BY <2>2, GoodNow, Zenon DEF StagesGood, Sound, StateGood
  <2>6. warmList' = warmList /\ SubSeq(logs', 1, l) = SubSeq(logs, 1, l)
    BY <2>1, <2>2, GoodNow, WarmListStays, Zenon DEF LogsStay
  <2>7. WorldOf(j, SubSeq(logs, 1, l)) = WorldOf(k, SubSeq(logs', 1, l))
    <3> HIDE DEF j, k, l
    <3> QED BY <2>4, <2>5, <2>6, WorldKept, Zenon
  <2>8. WorldOf(RevertTo(journal, n), SubSeq(logs, 1, l))'
          = WorldOf(RevertTo(journal', n), SubSeq(logs', 1, l))
    <3>1. n' = n /\ l' = l
      OBVIOUS
    <3> HIDE DEF n, l
    <3> QED BY <2>6, <3>1 DEF WorldOf, IsWarm, ColdInTx, SlotColdInTx, CurrentValue, InitialValue,
                              ShouldLoadFromDB, Has
  <2> QED BY <2>7, <2>8, WorldAtIs DEF Snapshot
<1> QED BY <1>1, <1>2, <1>3, GoodSupplied, PTL DEF Spec, RevertReversesAll

-----------------------------------------------------------------------------
(***************************************************************************)
(* The touch of address 3.                                                 *)
(***************************************************************************)
\* The touches that no revert takes back are still there.
Touches(j, k) ==
  \A a \in Sticky \cap Addr : "Touched" \in j.acct[a].status => "Touched" \in k.acct[a].status

\* Touches composes.
LEMMA TouchesTrans ==
  ASSUME NEW i, NEW j, NEW k, Touches(i, j), Touches(j, k)
  PROVE  Touches(i, k)
BY DEF Touches

\* No update of a field, and no mark, takes a touch away.
LEMMA TouchesUpdates ==
  ASSUME NEW j \in JournalRec, NEW a \in Addr
  PROVE  /\ Touches(j, j)
         /\ \A F : Touches(j, Mark(j, a, F))
         /\ \A F : "Touched" \notin F => Touches(j, Unmark(j, a, F))
         /\ \A v : /\ Touches(j, SetBalance(j, a, v)) /\ Touches(j, Credit(j, a, v))
                   /\ Touches(j, Debit(j, a, v)) /\ Touches(j, SetNonce(j, a, v))
                   /\ Touches(j, SetCode(j, a, v))
         /\ \A e : Touches(j, Record(j, e))
BY DEF Touches, JournalRec, Account,
       Mark, Unmark, SetBalance, Credit, Debit, SetNonce, SetCode, Record

\* Undoing an entry keeps the touch of address 3.
LEMMA TouchesUndo ==
  ASSUME NEW j \in JournalRec, NEW e \in Entry
  PROVE  Touches(j, Undo(j, e))
<1>1. e.addr \in Addr
  BY EntryFields
<1>2. CASE e.kind = "AccountTouched"
  <2>1. CASE SpuriousDragon /\ e.addr = Precompile3
    BY <1>2, <2>1, TouchesUpdates, EntryFields DEF Undo, UndoTouch
  <2>2. CASE ~(SpuriousDragon /\ e.addr = Precompile3)
    <3>1. e.addr \notin Sticky
      BY <2>2 DEF Sticky
    <3>2. Undo(j, e) = Unmark(j, e.addr, {"Touched"})
      BY <1>2, <2>2 DEF Undo, UndoTouch
    <3> QED BY <1>1, <3>1, <3>2 DEF Touches, Unmark, JournalRec, Account
  <2> QED BY <2>1, <2>2
<1>3. CASE e.kind = "AccountDestroyed"
  <2> DEFINE F == CASE e.status = "Global"   -> {"SelfDestructed", "SelfDestructLocal"}
                    [] e.status = "Local"    -> {"SelfDestructLocal"}
                    [] e.status = "Repeated" -> {}
             u == Unmark(j, e.addr, F)
             back == Credit(u, e.addr, e.bal)
  <2>1. e.status \in RevertStatus /\ e.target \in Addr /\ e.bal \in Balance
    BY <1>3, EntryFields
  <2>2. "Touched" \notin F /\ F \in SUBSET Flag
    BY <2>1 DEF RevertStatus, Flag
  <2>3. Undo(j, e) = IF e.addr # e.target THEN Debit(back, e.target, e.bal) ELSE back
    BY <1>3, Zenon DEF Undo, UndoDestroyed
  <2> HIDE DEF F
  <2>4. u \in JournalRec /\ Touches(j, u)
    BY <1>1, <2>2, TouchesUpdates, FieldUpdates, GrownTrans
  <2> HIDE DEF u
  <2>5. back \in JournalRec /\ Touches(j, back)
    BY <1>1, <2>1, <2>4, TouchesUpdates, TouchesTrans, FieldUpdates, GrownTrans, Zenon
  <2> HIDE DEF back
  <2>6. Touches(back, Debit(back, e.target, e.bal))
    BY <2>1, <2>5, TouchesUpdates
  <2> QED BY <2>3, <2>5, <2>6, TouchesTrans
<1>4. CASE e.kind = "BalanceTransfer"
  <2>1. e.target \in Addr /\ e.bal \in Balance
    BY <1>4, EntryFields
  <2>2. Undo(j, e) = Debit(Credit(j, e.addr, e.bal), e.target, e.bal)
    BY <1>4 DEF Undo
  <2>3. Credit(j, e.addr, e.bal) \in JournalRec /\ Touches(j, Credit(j, e.addr, e.bal))
    BY <1>1, <2>1, TouchesUpdates, FieldUpdates, GrownTrans
  <2> QED BY <2>1, <2>2, <2>3, TouchesUpdates, TouchesTrans
<1>5. CASE e.kind = "AccountCreated"
  <2> DEFINE F == {"CreatedLocal"} \cup (IF e.global THEN {"Created"} ELSE {})
             u == Unmark(j, e.addr, F)
  <2>1. "Touched" \notin F /\ F \in SUBSET Flag
    BY Zenon DEF Flag
  <2>2. Undo(j, e) = SetNonce(u, e.addr, 0)
    BY <1>5 DEF Undo, UndoCreated
  <2> HIDE DEF F
  <2>3. u \in JournalRec /\ Touches(j, u)
    BY <1>1, <2>1, TouchesUpdates, FieldUpdates, GrownTrans
  <2> HIDE DEF u
  <2> QED BY <1>1, <2>2, <2>3, TouchesUpdates, TouchesTrans
<1>6. CASE e.kind \in {"AccountWarmed", "SelfdestructCleared", "BalanceChange", "NonceChange",
                       "CodeChange"}
  BY <1>1, <1>6, TouchesUpdates, ZenonT(30) DEF Undo
<1>7. CASE e.kind \in {"StorageWarmed", "StorageChanged", "TransientChange"}
  BY <1>7 DEF Undo, Touches, JournalRec
<1> QED BY <1>2, <1>3, <1>4, <1>5, <1>6, <1>7, EntryFields

\* So does a revert, by induction on the entries undone.
LEMMA TouchesRevert ==
  ASSUME NEW j \in JournalRec, NEW n \in 0 .. Len(j.entries)
  PROVE  Touches(j, RevertTo(j, n))
<1> DEFINE N == Len(j.entries)
           R == Unwound(j)
           S == {m \in Nat : m <= N => Touches(j, R[m])}
<1>1. N \in Nat /\ j.entries \in Seq(Entry) /\ N - n \in 0 .. N
  BY DEF JournalRec
<1>2. \A i \in 0 .. N : /\ R[i] = IF i = 0 THEN j ELSE Undo(R[i-1], j.entries[N - i + 1])
                        /\ R[i] \in JournalRec
  BY UnwoundDef, UnwoundType DEF Same
<1>3. RevertTo(j, n) = [R[N - n] EXCEPT !.entries = SubSeq(@, 1, n)]
  BY DEF RevertTo
<1> HIDE DEF R
<1>4. 0 \in S
  BY <1>1, <1>2 DEF Touches
<1>5. ASSUME NEW m \in S PROVE m + 1 \in S
  <2>1. SUFFICES ASSUME m + 1 <= N PROVE Touches(j, R[m + 1])
    OBVIOUS
  <2>2. /\ m + 1 \in 0 .. N /\ m \in 0 .. N /\ m + 1 # 0 /\ (m + 1) - 1 = m
        /\ N - (m + 1) + 1 = N - m /\ N - m \in 1 .. N /\ m <= N
    BY <1>1, <2>1
  <2>3. R[m + 1] = Undo(R[m], j.entries[N - m])
    BY <1>2, <2>2
  <2>4. Touches(j, R[m]) /\ R[m] \in JournalRec /\ j.entries[N - m] \in Entry
    BY <1>1, <1>2, <2>2
  <2> QED BY <2>3, <2>4, TouchesUndo, TouchesTrans
<1>6. S = Nat
  <2>1. S \in SUBSET Nat
    OBVIOUS
  <2> HIDE DEF S
  <2> QED BY <1>4, <1>5, <2>1, SetInduction
<1>7. Touches(j, R[N - n]) /\ R[N - n] \in JournalRec
  <2>1. \A i \in 0 .. N : Touches(j, R[i]) /\ R[i] \in JournalRec
    BY <1>1, <1>2, <1>6
  <2> HIDE DEF S, N
  <2> QED BY <1>1, <2>1
<1>8. RevertTo(j, n).acct = R[N - n].acct
  BY <1>3, <1>7 DEF JournalRec
<1> QED BY <1>7, <1>8 DEF Touches

\* Touching takes no touch away.
LEMMA TouchesTouch ==
  ASSUME NEW j \in JournalRec, NEW a \in Addr
  PROVE  Touches(j, MarkTouched(j, a)) /\ Touches(j, TouchAccount(j, a))
<1>1. ASSUME NEW k \in JournalRec PROVE Touches(k, MarkTouched(k, a))
  <2> DEFINE m == Record(k, [kind |-> "AccountTouched", addr |-> a])
  <2>1. m \in JournalRec /\ Touches(k, m)
    <3>1. [kind |-> "AccountTouched", addr |-> a] \in Entry
      BY DEF Entry
    <3> QED BY <3>1, RecordType, GrownTrans, TouchesUpdates
  <2>2. MarkTouched(k, a) = IF Has(k, a, "Touched") THEN k ELSE Mark(m, a, {"Touched"})
    BY DEF MarkTouched
  <2> HIDE DEF m
  <2> QED BY <2>1, <2>2, TouchesUpdates, TouchesTrans
<1>2. Touches(j, Revive(j, a)) /\ Revive(j, a) \in JournalRec
  <2> DEFINE e == [kind |-> "SelfdestructCleared", addr |-> a]
             m == Record(j, e)
  <2>1. m \in JournalRec /\ Touches(j, m)
    <3>1. e \in Entry
      BY DEF Entry
    <3> QED BY <3>1, RecordType, GrownTrans, TouchesUpdates
  <2>2. \/ Revive(j, a) = j
        \/ Revive(j, a) = Unmark(m, a, {"SelfDestructed"})
    BY DEF Revive
  <2> HIDE DEF m
  <2>3. "Touched" \notin {"SelfDestructed"} /\ {"SelfDestructed"} \in SUBSET Flag
    BY DEF Flag
  <2>4. Unmark(m, a, {"SelfDestructed"}) \in JournalRec /\ Touches(m, Unmark(m, a, {"SelfDestructed"}))
    BY <2>1, <2>3, FieldUpdates, GrownTrans, TouchesUpdates
  <2> QED BY <2>1, <2>2, <2>4, TouchesUpdates, TouchesTrans
<1> QED BY <1>1, <1>2, TouchesTrans DEF TouchAccount

\* An account that is not in Journal.State carries no flag.
LEMMA TouchesLoad ==
  ASSUME NEW j \in JournalRec, NEW a \in Addr, ~j.acct[a].loaded => j.acct[a].status = {},
         txid \in Nat
  PROVE  /\ Touches(j, Load(j, a)) /\ Touches(j, LoadIfAbsent(j, a))
         /\ \A b \in Addr : (~j.acct[b].loaded => j.acct[b].status = {}) =>
              (~Load(j, a).acct[b].loaded => Load(j, a).acct[b].status = {})
<1> DEFINE OK(k) == /\ Touches(j, k)
                    /\ \A b \in Addr : (~j.acct[b].loaded => j.acct[b].status = {}) =>
                         (~k.acct[b].loaded => k.acct[b].status = {})
<1>1. OK(j)
  BY TouchesUpdates
<1>2. ASSUME NEW k \in JournalRec, OK(k), NEW e PROVE OK(Record(k, e))
  BY <1>2, Zenon DEF Touches, Record, JournalRec
<1>3. CASE ~j.acct[a].loaded
  <2> DEFINE st == IF DBInfo[a].exists THEN {} ELSE {"LoadedAsNotExist"}
             acc == [j.acct[a] EXCEPT !.loaded = TRUE, !.tx = txid, !.status = st]
             in == [j EXCEPT !.acct[a] = acc]
  <2>1. acc \in Account /\ acc.loaded
    <3>1. j.acct[a] \in Account /\ st \in SUBSET Flag
      BY DEF JournalRec, Flag
    <3> HIDE DEF st
    <3> QED BY <3>1, Zenon DEF Account
  <2>2. Load(j, a) = IF IsWarm(a) THEN in ELSE Record(in, AccountWarmed(a))
    BY <1>3 DEF Load, Insert
  <2> HIDE DEF acc
  <2>3. in \in JournalRec /\ OK(in)
    BY <1>3, <2>1, Zenon DEF JournalRec, Touches
  <2> HIDE DEF in
  <2> QED BY <1>2, <1>3, <2>2, <2>3, Zenon DEF LoadIfAbsent
<1>4. CASE j.acct[a].loaded /\ ColdInTx(j, a)
  <2> DEFINE clean == IF Has(j, a, "SelfDestructLocal") THEN Wipe(j, a) ELSE j
             acc == [clean.acct[a] EXCEPT
                       !.tx = txid,
                       !.status = @ \ {"Cold", "SelfDestructLocal", "CreatedLocal"}]
             warm == [clean EXCEPT !.acct[a] = acc]
  <2>1. /\ clean \in JournalRec /\ clean.acct[a].loaded
        /\ "Touched" \in j.acct[a].status => "Touched" \in clean.acct[a].status
        /\ \A b \in Addr : b # a => clean.acct[b] = j.acct[b]
    <3>1. Wipe(j, a) \in JournalRec
      BY WipeType, GrownTrans
    <3>2. /\ Wipe(j, a).acct[a].loaded
          /\ "Touched" \in j.acct[a].status => "Touched" \in Wipe(j, a).acct[a].status
          /\ \A b \in Addr : b # a => Wipe(j, a).acct[b] = j.acct[b]
      BY <1>4 DEF Wipe, Emptied, JournalRec, Account
    <3> QED BY <1>4, <3>1, <3>2
  <2>2. Load(j, a) = Record(warm, AccountWarmed(a))
    BY <1>4 DEF Load, Rewarm
  <2> HIDE DEF clean
  <2>3. /\ acc \in Account /\ acc.loaded
        /\ "Touched" \in j.acct[a].status => "Touched" \in acc.status
    <3>1. clean.acct[a] \in Account
      BY <2>1 DEF JournalRec
    <3> QED BY <2>1, <3>1, Zenon DEF Account
  <2> HIDE DEF acc
  <2>4. warm \in JournalRec /\ OK(warm)
    BY <1>4, <2>1, <2>3, Zenon DEF JournalRec, Touches
  <2> HIDE DEF warm
  <2> QED BY <1>1, <1>2, <1>4, <2>2, <2>4 DEF LoadIfAbsent
<1>5. CASE j.acct[a].loaded /\ ~ColdInTx(j, a)
  BY <1>1, <1>5 DEF Load, LoadIfAbsent
<1> QED BY <1>3, <1>4, <1>5

\* Nor does an access to a slot.
LEMMA TouchesSlot ==
  ASSUME NEW j \in JournalRec, NEW a \in Addr, NEW k \in Key, NEW v
  PROVE  /\ Touches(j, WarmSlot(j, a, k)) /\ Touches(j, TStoreSlot(j, a, k, v))
         /\ Touches(j, [j EXCEPT !.slot[a][k].present = v])
<1>1. \A s, e : Record([j EXCEPT !.slot[a][k] = s], e).acct = j.acct
                /\ [j EXCEPT !.slot[a][k] = s].acct = j.acct
  BY DEF Record, JournalRec
<1>2. WarmSlot(j, a, k).acct = j.acct
  BY <1>1 DEF WarmSlot
<1>3. TStoreSlot(j, a, k, v).acct = j.acct
  BY DEF TStoreSlot, Record, JournalRec
<1>4. [j EXCEPT !.slot[a][k].present = v].acct = j.acct
  BY DEF JournalRec
<1> QED BY <1>2, <1>3, <1>4 DEF Touches

\* No account outside Journal.State carries a flag.
Unflagged(j) == \A a \in Addr : ~j.acct[a].loaded => j.acct[a].status = {}

\* Nor do SLoad and SStore.
LEMMA TouchesStorage ==
  ASSUME NEW j \in JournalRec, Unflagged(j), NEW a \in Addr, NEW k \in Key, NEW v \in Value,
         txid \in Nat
  PROVE  Touches(j, SLoadSlot(j, a, k)) /\ Touches(j, SStoreSlot(j, a, k, v))
<1> DEFINE l == LoadIfAbsent(j, a)
           t == MarkTouched(l, a)
           w == WarmSlot(t, a, k)
<1>1. l \in JournalRec /\ Touches(j, l)
  BY LoadType, GrownTrans, TouchesLoad DEF Unflagged
<1>2. SLoadSlot(j, a, k) = WarmSlot(l, a, k)
  BY DEF SLoadSlot
<1>3. \/ SStoreSlot(j, a, k, v) = w
      \/ SStoreSlot(j, a, k, v) =
           Record([w EXCEPT !.slot[a][k].present = v],
                  [kind |-> "StorageChanged", addr |-> a, key |-> k, had |-> w.slot[a][k].present])
  BY DEF SStoreSlot
<1> HIDE DEF l
<1>4. t \in JournalRec /\ Touches(j, t)
  BY <1>1, TouchType, GrownTrans, TouchesTouch, TouchesTrans
<1> HIDE DEF t
<1>5. w \in JournalRec /\ Touches(j, w)
  BY <1>4, WarmSlotType, GrownTrans, TouchesSlot, TouchesTrans, Zenon
<1> HIDE DEF w
<1>6. \A e : Touches(w, Record([w EXCEPT !.slot[a][k].present = v], e))
  BY <1>5 DEF Touches, Record, JournalRec
<1>7. Touches(j, SStoreSlot(j, a, k, v))
  BY <1>3, <1>5, <1>6, TouchesTrans
<1> QED BY <1>1, <1>2, <1>7, TouchesSlot, TouchesTrans, Zenon

\* Nor do the methods that move ether.
LEMMA TouchesBalance ==
  ASSUME NEW j \in JournalRec, Unflagged(j), NEW a \in Addr, NEW b \in Addr, NEW v \in Balance,
         txid \in Nat
  PROVE  Touches(j, TransferBalance(j, a, b, v)) /\ Touches(j, IncrBalance(j, a, v))
<1>1. ASSUME NEW k \in JournalRec PROVE Touches(k, TransferLoaded(k, a, b, v))
  <2> DEFINE sender  == TouchAccount(k, a)
             paid    == Debit(sender, a, v)
             debited == TouchAccount(paid, b)
             done    == Credit(debited, b, v)
  <2>1. sender \in JournalRec /\ Touches(k, sender)
    BY TouchType, GrownTrans, TouchesTouch
  <2>2. \/ TransferLoaded(k, a, b, v) \in {k, TouchAccount(k, b), sender, debited}
        \/ TransferLoaded(k, a, b, v) = Record(done, BalanceTransfer(a, b, v))
    BY DEF TransferLoaded
  <2> HIDE DEF sender
  <2>3. paid \in JournalRec /\ Touches(k, paid)
    BY <2>1, FieldUpdates, GrownTrans, TouchesUpdates, TouchesTrans
  <2> HIDE DEF paid
  <2>4. debited \in JournalRec /\ Touches(k, debited)
    BY <2>3, TouchType, GrownTrans, TouchesTouch, TouchesTrans
  <2> HIDE DEF debited
  <2>5. done \in JournalRec /\ Touches(k, done)
    BY <2>4, FieldUpdates, GrownTrans, TouchesUpdates, TouchesTrans
  <2> HIDE DEF done
  <2>6. Touches(k, Record(done, BalanceTransfer(a, b, v)))
    BY <2>5, TouchesUpdates, TouchesTrans
  <2> QED BY <2>1, <2>2, <2>4, <2>6, TouchesTouch, TouchesUpdates
<1>2. Load(j, a) \in JournalRec /\ Touches(j, Load(j, a)) /\ Unflagged(Load(j, a))
  BY LoadType, GrownTrans, TouchesLoad, Zenon DEF Unflagged
<1>3. Touches(j, TransferBalance(j, a, b, v))
  <2> DEFINE l == Load(j, a)
             m == Load(l, b)
  <2>1. TransferBalance(j, a, b, v) = TransferLoaded(m, a, b, v)
    BY DEF TransferBalance
  <2> HIDE DEF l
  <2>2. m \in JournalRec /\ Touches(l, m)
    BY <1>2, LoadType, GrownTrans, TouchesLoad, Zenon DEF Unflagged, l
  <2> HIDE DEF m
  <2> QED BY <1>1, <1>2, <2>1, <2>2, TouchesTrans DEF l
<1>4. Touches(j, IncrBalance(j, a, v))
  <2> DEFINE t   == TouchAccount(Load(j, a), a)
             new == Credit(t, a, v)
  <2>1. t \in JournalRec /\ Touches(j, t)
    BY <1>2, TouchType, GrownTrans, TouchesTouch, TouchesTrans
  <2>2. \/ IncrBalance(j, a, v) = new
        \/ \E e : IncrBalance(j, a, v) = Record(new, e)
    BY DEF IncrBalance
  <2> HIDE DEF t
  <2>3. new \in JournalRec /\ Touches(j, new)
    BY <2>1, FieldUpdates, GrownTrans, TouchesUpdates, TouchesTrans
  <2> HIDE DEF new
  <2> QED BY <2>2, <2>3, TouchesUpdates, TouchesTrans
<1> QED BY <1>3, <1>4

\* Nor does a self-destruct.
LEMMA TouchesDestroy ==
  ASSUME NEW j \in JournalRec, Unflagged(j), NEW a \in Addr, NEW b \in Addr, txid \in Nat
  PROVE  Touches(j, Destroy(j, a, b))
<1> DEFINE l == Load(j, b)
           t == TouchAccount(l, b)
           p == PayBeneficiary(j, a, b)
           F == {"SelfDestructed", "SelfDestructLocal"}
           m == Mark(p, a, F)
<1>1. l \in JournalRec /\ Touches(j, l)
  BY LoadType, GrownTrans, TouchesLoad, Zenon DEF Unflagged
<1>2. t \in JournalRec /\ Touches(j, t)
  <2> HIDE DEF l
  <2> QED BY <1>1, TouchType, GrownTrans, TouchesTouch, TouchesTrans
<1>3. p \in JournalRec /\ Touches(j, p)
  <2>1. p = IF a = b THEN l ELSE Credit(t, b, l.acct[a].bal)
    BY DEF PayBeneficiary
  <2>2. l.acct[a].bal \in Balance
    <3> HIDE DEF l
    <3> QED BY <1>1 DEF JournalRec, Account
  <2> HIDE DEF l, t, p
  <2> QED BY <1>1, <1>2, <2>1, <2>2, FieldUpdates, GrownTrans, TouchesUpdates, TouchesTrans, Zenon
<1>4. \/ \E e : Destroy(j, a, b) = Record(SetBalance(m, a, 0), e)
      \/ \E e : Destroy(j, a, b) = Record(SetBalance(p, a, 0), e)
      \/ Destroy(j, a, b) = p
  BY DEF Destroy
<1> HIDE DEF p
<1>5. m \in JournalRec /\ Touches(j, m)
  <2>1. F \in SUBSET Flag
    BY DEF Flag
  <2> HIDE DEF F
  <2> QED BY <1>3, <2>1, FieldUpdates, GrownTrans, TouchesUpdates, TouchesTrans
<1> HIDE DEF m
<1>6. 0 \in Balance
  BY ConstantsOK DEF Balance
<1>7. /\ SetBalance(m, a, 0) \in JournalRec /\ Touches(j, SetBalance(m, a, 0))
      /\ SetBalance(p, a, 0) \in JournalRec /\ Touches(j, SetBalance(p, a, 0))
  BY <1>3, <1>5, <1>6, FieldUpdates, GrownTrans, TouchesUpdates, TouchesTrans, Zenon
<1>8. /\ \A e : Touches(j, Record(SetBalance(m, a, 0), e))
      /\ \A e : Touches(j, Record(SetBalance(p, a, 0), e))
  BY <1>7, TouchesUpdates, TouchesTrans
<1> QED BY <1>3, <1>4, <1>8

\* Nor does the creation of an account, or its code.
LEMMA TouchesCreate ==
  ASSUME NEW j \in JournalRec, NEW a \in Addr
  PROVE  /\ Touches(j, NewAccount(j, a))
         /\ \A b \in Addr, v \in Balance : Touches(j, Endow(j, b, a, v))
         /\ \A c \in Code : Touches(j, DeployCode(j, a, c))
<1>1. Touches(j, NewAccount(j, a))
  <2> DEFINE e    == [kind |-> "AccountCreated", addr |-> a, global |-> ~Has(j, a, "Created")]
             r    == Record(j, e)
             F    == {"Created", "CreatedLocal"}
             made == Mark(r, a, F)
             k    == IF SpuriousDragon THEN SetNonce(made, a, 1) ELSE made
  <2>1. e \in Entry
    BY DEF Entry, Has
  <2>2. NewAccount(j, a) = TouchAccount(k, a)
    BY DEF NewAccount
  <2>3. F \in SUBSET Flag /\ 1 \in Nonce
    BY ConstantsOK DEF Flag, Nonce
  <2> HIDE DEF e, F
  <2>4. r \in JournalRec /\ Touches(j, r)
    BY <2>1, RecordType, GrownTrans, TouchesUpdates
  <2> HIDE DEF r
  <2>5. made \in JournalRec /\ Touches(j, made)
    BY <2>3, <2>4, FieldUpdates, GrownTrans, TouchesUpdates, TouchesTrans
  <2> HIDE DEF made
  <2>6. k \in JournalRec /\ Touches(j, k)
    BY <2>3, <2>5, FieldUpdates, GrownTrans, TouchesUpdates, TouchesTrans
  <2> HIDE DEF k
  <2> QED BY <2>2, <2>6, TouchesTouch, TouchesTrans
<1>2. ASSUME NEW b \in Addr, NEW v \in Balance PROVE Touches(j, Endow(j, b, a, v))
  <2> DEFINE m == Credit(j, a, v)
             n == Debit(m, b, v)
  <2>1. Endow(j, b, a, v) = IF v = 0 THEN j ELSE Record(n, BalanceTransfer(b, a, v))
    BY DEF Endow
  <2>2. m \in JournalRec /\ Touches(j, m)
    BY FieldUpdates, GrownTrans, TouchesUpdates
  <2> HIDE DEF m
  <2>3. n \in JournalRec /\ Touches(j, n)
    BY <2>2, FieldUpdates, GrownTrans, TouchesUpdates, TouchesTrans
  <2> HIDE DEF n
  <2> QED BY <2>1, <2>3, TouchesUpdates, TouchesTrans
<1>3. ASSUME NEW c \in Code PROVE Touches(j, DeployCode(j, a, c))
  <2> DEFINE t == TouchAccount(j, a)
             e == [kind |-> "CodeChange", addr |-> a, code |-> t.acct[a].code]
             r == Record(t, e)
  <2>1. t \in JournalRec /\ Touches(j, t)
    BY TouchType, GrownTrans, TouchesTouch
  <2>2. DeployCode(j, a, c) = SetCode(r, a, c)
    BY DEF DeployCode
  <2> HIDE DEF t
  <2>3. e \in Entry
    BY <2>1 DEF Entry, JournalRec, Account
  <2> HIDE DEF e
  <2>4. r \in JournalRec /\ Touches(j, r)
    BY <2>1, <2>3, RecordType, GrownTrans, TouchesUpdates, TouchesTrans
  <2> HIDE DEF r
  <2> QED BY <2>2, <2>4, TouchesUpdates, TouchesTrans
<1> QED BY <1>1, <1>2, <1>3

\* Nor does the end of a transaction.
LEMMA TouchesEndTx ==
  ASSUME NEW j \in JournalRec
  PROVE  Touches(j, Finalized(j)) /\ \A k \in JournalRec : Touches(k, NoTransient(k))
<1>1. ASSUME NEW a \in Addr
      PROVE  "Touched" \in j.acct[a].status =>
               "Touched" \in Unmark(Wipe(j, a), a, {"SelfDestructLocal"}).acct[a].status
  BY DEF Unmark, Wipe, Emptied, JournalRec, Account
<1>2. \A a \in Addr : Finalized(j).acct[a] \in {j.acct[a], Unmark(Wipe(j, a), a, {"SelfDestructLocal"}).acct[a]}
  BY DEF Finalized, JournalRec
<1>3. \A k \in JournalRec : NoTransient(k).acct = k.acct
  BY DEF NoTransient, JournalRec
<1> QED BY <1>1, <1>2, <1>3 DEF Touches

\* No step takes away a touch that no revert takes back.
LEMMA NextTouches ==
  ASSUME Inv, Good(FALSE), [Next]_vars
  PROVE  Touches(journal, journal')
<1>1. /\ journal \in JournalRec /\ txid \in Nat /\ 0 \in 0 .. Len(journal.entries)
      /\ Unflagged(journal) /\ Touches(journal, journal)
  <2>1. journal \in JournalRec /\ txid \in Nat /\ Len(journal.entries) \in Nat
    <3>1. journal \in JournalRec /\ txid \in Nat
      BY GoodNow, Zenon
    <3> QED BY <3>1 DEF JournalRec
  <2>2. Unflagged(journal)
    BY GoodNow, Zenon DEF Unflagged, AcctGood
  <2> QED BY <2>1, <2>2 DEF Touches
<1>2. CASE FrameSteps
  BY <1>1, <1>2, TopBounds, TouchesRevert
     DEF FrameSteps, Checkpt, CheckpointCommit, CheckpointRevert
<1>3. CASE TxSteps
  <2>1. CASE CommitTx
    BY <1>1, <2>1, TouchesEndTx, EndTxType, TouchesTrans DEF CommitTx
  <2>2. CASE DiscardTx
    BY <1>1, <2>2, TouchesEndTx, TouchesRevert, RevertFacts, TouchesTrans DEF DiscardTx
  <2> QED BY <1>1, <1>3, <2>1, <2>2 DEF TxSteps, WarmAccessList
<1>4. CASE AccountSteps
  <2> SUFFICES ASSUME NEW a \in Addr, LoadAccount(a) \/ Touch(a) \/ AppendLog(a) \/ BumpNonce(a)
               PROVE  Touches(journal, journal')
    BY <1>4 DEF AccountSteps
  <2>1. CASE LoadAccount(a)
    BY <1>1, <2>1, TouchesLoad DEF LoadAccount, Unflagged
  <2>2. CASE BumpNonce(a)
    <3> DEFINE n == journal.acct[a].nonce
               m == SetNonce(journal, a, n + 1)
    <3>1. \E e : journal' = Record(m, e)
      BY <2>2 DEF BumpNonce
    <3>2. n + 1 \in Nonce
      BY <1>1, <2>2, ConstantsOK DEF BumpNonce, JournalRec, Account, Nonce
    <3> HIDE DEF n
    <3>3. m \in JournalRec /\ Touches(journal, m)
      BY <1>1, <3>2, FieldUpdates, GrownTrans, TouchesUpdates
    <3> HIDE DEF m
    <3> QED BY <3>1, <3>3, TouchesUpdates, TouchesTrans
  <2> QED BY <1>1, <2>1, <2>2, TouchesTouch DEF Touch, AppendLog
<1>5. CASE StorageSteps
  <2> SUFFICES ASSUME NEW a \in Addr, NEW k \in Key, NEW v \in Value,
                      SLoad(a, k) \/ SStore(a, k, v) \/ TStore(a, k, v)
               PROVE  Touches(journal, journal')
    BY <1>5, ConstantsOK DEF StorageSteps
  <2> QED BY <1>1, TouchesStorage, TouchesSlot, Zenon DEF SLoad, SStore, TStore
<1>6. CASE BalanceSteps
  <2> SUFFICES ASSUME NEW a \in Addr, NEW b \in Addr, NEW v \in Balance,
                      BalanceIncr(a, v) \/ Transfer(a, b, v)
               PROVE  Touches(journal, journal')
    BY <1>6, ConstantsOK DEF BalanceSteps
  <2> QED BY <1>1, TouchesBalance DEF BalanceIncr, Transfer
<1>7. CASE LifecycleSteps
  <2>1. ASSUME NEW a \in Addr, NEW b \in Addr, Selfdestruct(a, b) PROVE Touches(journal, journal')
    BY <1>1, <2>1, TouchesDestroy DEF Selfdestruct
  <2>2. ASSUME NEW b \in Addr, NEW a \in Addr, NEW v \in Balance, CreateAccountCheckpoint(b, a, v)
        PROVE  Touches(journal, journal')
    <3> DEFINE made == NewAccount(journal, a)
               n == Len(journal.entries)
    <3>1. made \in JournalRec /\ Touches(journal, made) /\ n \in 0 .. Len(made.entries)
      BY <1>1, CreateType, TouchesCreate DEF Grown
    <3>2. journal' = RevertTo(made, n) \/ journal' = Endow(made, b, a, v)
      BY <2>2 DEF CreateAccountCheckpoint
    <3> HIDE DEF made, n
    <3> QED BY <3>1, <3>2, TouchesRevert, TouchesCreate, TouchesTrans
  <2>3. ASSUME NEW c \in Code, NEW byOpcode \in BOOLEAN, FinishCreate(c, byOpcode)
        PROVE  Touches(journal, journal')
    <3> DEFINE a == Top.created
               F == {"SelfDestructed", "SelfDestructLocal"}
               kept == IF byOpcode THEN journal ELSE Unmark(journal, a, F)
    <3>1. a \in Addr
      BY <2>3, TopBounds DEF FinishCreate
    <3>2. journal' = IF c = NoCode THEN kept ELSE DeployCode(kept, a, c)
      BY <2>3 DEF FinishCreate
    <3>3. F \in SUBSET Flag /\ "Touched" \notin F
      BY DEF Flag
    <3> HIDE DEF a, F
    <3>4. kept \in JournalRec /\ Touches(journal, kept)
      BY <1>1, <3>1, <3>3, FieldUpdates, GrownTrans, TouchesUpdates
    <3> HIDE DEF kept
    <3> QED BY <3>1, <3>2, <3>4, TouchesCreate, TouchesTrans
  <2> QED BY <1>7, <2>1, <2>2, <2>3, ConstantsOK DEF LifecycleSteps
<1>8. CASE UNCHANGED vars
  BY <1>1, <1>8 DEF vars
<1> QED BY <1>2, <1>3, <1>4, <1>5, <1>6, <1>7, <1>8 DEF Next

\* The exception Revert makes for address 3 (EIP-161 as it was on the main chain): no step,
\* a revert least of all, takes the touch of RIPEMD160 back.
THEOREM RipemdTouchAlwaysSurvives == Spec => RipemdTouchSurvives
<1>1. Inv /\ Good(FALSE) /\ [Next]_vars =>
        [\A a \in Sticky \cap Addr : Has(journal, a, "Touched") => Has(journal', a, "Touched")]_vars
  BY NextTouches DEF Touches, Has
<1> QED BY <1>1, GoodAlways, PTL DEF Spec, RipemdTouchSurvives
=============================================================================
