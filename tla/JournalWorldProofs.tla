------------------------- MODULE JournalWorldProofs -------------------------
(***************************************************************************)
(* The undo log implements the snapshot stack, for every value of the      *)
(* constants, provided that no two balances sum to more than 2^256 - 1:    *)
(* JournalImplementsWorld.                                                 *)
(*                                                                         *)
(* The worlds of WorldState.tla are compared with journals through one     *)
(* predicate: Shows(w, j, l) says, account by account and slot by slot,    *)
(* that the world w is the one the EVM sees in the journal j with the logs *)
(* l.  The argument has four parts.                                        *)
(*   1. Only WorldOf(j, l) shows j and l (WorldShows, ShownIsWorld).       *)
(*   2. A world that shows a journal still does when the same account, slot*)
(*      or mark is replaced in both (the lemmas Shows...), and so each     *)
(*      method of Journal maps to a change of the world (World...).        *)
(*   3. The stack of snapshots stays, is pushed or is popped with the      *)
(*      checkpoints: what a frame that stays open would revert to does not *)
(*      change (StackSame, StackPushed, StackPopped).  This is where the   *)
(*      invariant Good and the step property Stays are used.               *)
(*   4. Every step is one of the world, or none (NextWorld).               *)
(***************************************************************************)
EXTENDS JournalProofs

\* The worlds.
WorldRec ==
  [bal : [Addr -> Balance], nonce : [Addr -> Nonce], code : [Addr -> Code],
   storage : [Addr -> [Key -> Value]], transient : [Addr -> [Key -> Value]],
   warm : SUBSET Addr, warmSlots : SUBSET (Addr \X Key), touched : SUBSET Addr,
   created : SUBSET Addr, doomed : SUBSET Addr, gone : SUBSET Addr, logs : Seq(Addr)]

ShowsAcct(w, x, a) ==
  /\ w.bal[a] = x.bal /\ w.nonce[a] = x.nonce /\ w.code[a] = x.code
  /\ a \in w.warm <=> IsWarm(a) \/ WarmNow(x)
  /\ a \in w.touched <=> "Touched" \in x.status /\ a \notin Sticky
  /\ a \in w.created <=> CreatedNow(x)
  /\ a \in w.doomed <=> Doomed(x)
  /\ a \in w.gone <=> Marked(x) /\ ~Doomed(x)

ShowsSlot(w, x, s, a, q) ==
  /\ w.storage[a][q] = SlotValue(x, s, a, q)
  /\ <<a, q>> \in w.warmSlots <=> IsStorageWarm(a, q) \/ SlotWarm(s)

\* The world w is the one the EVM sees in the journal j with the logs l.
Shows(w, j, l) ==
  /\ w \in WorldRec
  /\ \A a \in Addr : ShowsAcct(w, j.acct[a], a)
  /\ \A a \in Addr, q \in Key : ShowsSlot(w, j.acct[a], j.slot[a][q], a, q)
  /\ w.transient = j.transient /\ w.logs = l

\* Worlds are equal when all that can be seen of them is.
LEMMA WorldSame ==
  ASSUME NEW v \in WorldRec, NEW w \in WorldRec,
         \A a \in Addr : /\ v.bal[a] = w.bal[a] /\ v.nonce[a] = w.nonce[a] /\ v.code[a] = w.code[a]
                         /\ a \in v.warm <=> a \in w.warm
                         /\ a \in v.touched <=> a \in w.touched
                         /\ a \in v.created <=> a \in w.created
                         /\ a \in v.doomed <=> a \in w.doomed
                         /\ a \in v.gone <=> a \in w.gone,
         \A a \in Addr, q \in Key : /\ v.storage[a][q] = w.storage[a][q]
                                    /\ <<a, q>> \in v.warmSlots <=> <<a, q>> \in w.warmSlots,
         v.transient = w.transient, v.logs = w.logs
  PROVE  v = w
<1>1. v.bal = w.bal /\ v.nonce = w.nonce /\ v.code = w.code
  BY DEF WorldRec
<1>2. v.warm = w.warm /\ v.touched = w.touched /\ v.created = w.created
      /\ v.doomed = w.doomed /\ v.gone = w.gone
  BY Zenon DEF WorldRec
<1>3. v.storage = w.storage
  <2>1. v.storage \in [Addr -> [Key -> Value]] /\ w.storage \in [Addr -> [Key -> Value]]
    BY DEF WorldRec
  <2>2. ASSUME NEW a \in Addr PROVE v.storage[a] = w.storage[a]
    <3>1. v.storage[a] \in [Key -> Value] /\ w.storage[a] \in [Key -> Value]
      BY <2>1
    <3>2. \A q \in Key : v.storage[a][q] = w.storage[a][q]
      BY Zenon
    <3> QED BY <3>1, <3>2
  <2> QED BY <2>1, <2>2
<1>4. v.warmSlots = w.warmSlots
  <2>1. v.warmSlots \subseteq Addr \X Key /\ w.warmSlots \subseteq Addr \X Key
    BY DEF WorldRec
  <2>2. ASSUME NEW s \in Addr \X Key PROVE s \in v.warmSlots <=> s \in w.warmSlots
    <3>1. PICK a \in Addr, q \in Key : s = <<a, q>>
      OBVIOUS
    <3> QED BY <3>1
  <2> QED BY <2>1, <2>2, Zenon
<1> QED BY <1>1, <1>2, <1>3, <1>4, SMTT(30) DEF WorldRec

\* The mapping shows the journal.
LEMMA WorldShows ==
  ASSUME NEW j \in JournalRec, NEW l \in Seq(Addr), warmList \in AccessList,
         \A a \in Addr : AcctGood(TRUE, j.acct[a], a)
  PROVE  Shows(WorldOf(j, l), j, l)
<1> DEFINE w == WorldOf(j, l)
<1>1. ASSUME NEW a \in Addr, NEW q \in Key
      PROVE  CurrentValue(j, a, q) = ValueIn(j, a, q) /\ CurrentValue(j, a, q) \in Value
  <2>1. TRUE \in BOOLEAN /\ AcctGood(TRUE, j.acct[a], a)
    BY Zenon
  <2>2. CurrentValue(j, a, q) = ValueIn(j, a, q)
    BY <2>1, CurrentIsValue, Zenon
  <2>3. ValueIn(j, a, q) \in Value
    BY ConstantsOK DEF JournalRec, Slot, ValueIn, SlotValue
  <2> QED BY <2>2, <2>3
<1>2. w \in WorldRec
  <2>1. \A a \in Addr : j.acct[a].bal \in Balance /\ j.acct[a].nonce \in Nonce /\ j.acct[a].code \in Code
    BY DEF JournalRec, Account
  <2> QED BY <1>1, <2>1 DEF WorldOf, WorldRec, JournalRec
<1>3. ASSUME NEW a \in Addr PROVE ShowsAcct(w, j.acct[a], a)
  BY DEF WorldOf, ShowsAcct, WarmNow, CreatedNow, Doomed, Marked, ColdInTx, Has
<1>4. ASSUME NEW a \in Addr, NEW q \in Key PROVE ShowsSlot(w, j.acct[a], j.slot[a][q], a, q)
  BY <1>1 DEF WorldOf, ShowsSlot, ValueIn, IsStorageWarm, SlotWarm, SlotColdInTx
<1> QED BY <1>2, <1>3, <1>4, Zenon DEF Shows, WorldOf

\* A journal is shown by one world only.
LEMMA ShownIsWorld ==
  ASSUME NEW j \in JournalRec, NEW l \in Seq(Addr), warmList \in AccessList,
         \A a \in Addr : AcctGood(TRUE, j.acct[a], a),
         NEW w, Shows(w, j, l)
  PROVE  WorldOf(j, l) = w
<1>1. Shows(WorldOf(j, l), j, l)
  BY WorldShows, Zenon
<1> QED BY <1>1, WorldSame DEF Shows, ShowsAcct, ShowsSlot

-----------------------------------------------------------------------------
(***************************************************************************)
(* The world is changed as the journal is: one account, or one slot.       *)
(***************************************************************************)
\* The worlds v and w agree on all accounts but a.
Elsewhere(w, v, a) ==
  \A b \in Addr : b # a =>
    /\ v.bal[b] = w.bal[b] /\ v.nonce[b] = w.nonce[b] /\ v.code[b] = w.code[b]
    /\ b \in v.warm <=> b \in w.warm
    /\ b \in v.touched <=> b \in w.touched
    /\ b \in v.created <=> b \in w.created
    /\ b \in v.doomed <=> b \in w.doomed
    /\ b \in v.gone <=> b \in w.gone

SameStorage(w, v) ==
  /\ v.storage = w.storage /\ v.warmSlots = w.warmSlots /\ v.transient = w.transient
  /\ v.logs = w.logs

\* An account is replaced, and its storage stays what it was.
LEMMA ShowsPut ==
  ASSUME NEW j \in JournalRec, NEW l, NEW w, Shows(w, j, l), NEW k, NEW a \in Addr, NEW y,
         Puts(j, k, a, y), Cleared(y) <=> Cleared(j.acct[a]),
         NEW v \in WorldRec, Elsewhere(w, v, a), SameStorage(w, v), ShowsAcct(v, y, a)
  PROVE  Shows(v, k, l)
<1>1. ASSUME NEW b \in Addr PROVE ShowsAcct(v, k.acct[b], b)
  <2>1. CASE b = a
    BY <2>1 DEF Puts
  <2>2. CASE b # a
    <3>1. k.acct[b] = j.acct[b]
      BY <2>2 DEF Puts
    <3>2. ShowsAcct(w, j.acct[b], b)
      BY DEF Shows
    <3> QED BY <2>2, <3>1, <3>2 DEF ShowsAcct, Elsewhere
  <2> QED BY <2>1, <2>2
<1>2. ASSUME NEW b \in Addr, NEW q \in Key PROVE ShowsSlot(v, k.acct[b], k.slot[b][q], b, q)
  <2>1. ShowsSlot(w, j.acct[b], j.slot[b][q], b, q)
    BY DEF Shows
  <2>2. Cleared(k.acct[b]) <=> Cleared(j.acct[b])
    BY DEF Puts
  <2>3. k.slot[b][q] = j.slot[b][q]
    BY DEF Puts
  <2> QED BY <2>1, <2>2, <2>3 DEF ShowsSlot, SameStorage, SlotValue, Cleared
<1> QED BY <1>1, <1>2 DEF Shows, Puts, SameStorage

\* A load warms the account.
LEMMA ShowsLoaded ==
  ASSUME NEW j \in JournalRec, NEW l, NEW w, Shows(w, j, l), NEW k, NEW a \in Addr, NEW y,
         Puts(j, k, a, y), LoadedAs(j.acct[a], y)
  PROVE  Shows(World!Access(w, a), k, l)
<1> DEFINE v == World!Access(w, a)
           x == j.acct[a]
<1>1. w \in WorldRec /\ ShowsAcct(w, x, a)
  BY DEF Shows
<1>2. v \in WorldRec /\ Elsewhere(w, v, a) /\ SameStorage(w, v)
  BY <1>1, Zenon DEF World!Access, WorldRec, Elsewhere, SameStorage
<1>3. /\ v.bal = w.bal /\ v.nonce = w.nonce /\ v.code = w.code /\ v.touched = w.touched
      /\ v.created = w.created /\ v.doomed = w.doomed /\ v.gone = w.gone /\ a \in v.warm
  BY <1>1 DEF World!Access, WorldRec
<1>4. /\ Marked(y) <=> Marked(x)
      /\ Doomed(y) <=> Doomed(x)
      /\ Cleared(y) <=> Cleared(x)
      /\ "Touched" \in y.status <=> "Touched" \in x.status
      /\ CreatedNow(y) <=> CreatedNow(x)
      /\ WarmNow(y) /\ y.bal = x.bal /\ y.nonce = x.nonce /\ y.code = x.code
  BY FlagsLast DEF LoadedAs, Marked, Doomed, Cleared
<1> HIDE DEF v
<1>5. ShowsAcct(v, y, a)
  BY <1>1, <1>3, <1>4 DEF ShowsAcct
<1>6. Shows(v, k, l)
  BY <1>2, <1>4, <1>5, ShowsPut
<1> QED BY <1>6 DEF v

\* A touch, which revives what an earlier transaction deleted.
LEMMA ShowsTouched ==
  ASSUME NEW j \in JournalRec, NEW l, NEW w, Shows(w, j, l), NEW k, NEW a \in Addr,
         \/ Puts(j, k, a, TouchOf(j.acct[a]))
         \/ /\ Puts(j, k, a, WithTouch(j.acct[a]))
            /\ ~Marked(j.acct[a]) \/ Doomed(j.acct[a])
  PROVE  Shows(World!TouchAcc(w, a), k, l)
<1> DEFINE v == World!TouchAcc(w, a)
           x == j.acct[a]
<1>1. w \in WorldRec /\ ShowsAcct(w, x, a) /\ x \in Account
  BY DEF Shows, JournalRec
<1>2. v \in WorldRec /\ Elsewhere(w, v, a) /\ SameStorage(w, v)
  BY <1>1, Zenon DEF World!TouchAcc, WorldRec, Elsewhere, SameStorage
<1>3. /\ v.bal = w.bal /\ v.nonce = w.nonce /\ v.code = w.code /\ v.warm = w.warm
      /\ v.created = w.created /\ v.doomed = w.doomed
      /\ a \notin v.gone /\ (a \in v.touched <=> a \in w.touched \/ a \notin Sticky)
  BY <1>1 DEF World!TouchAcc, WorldRec
<1>4. PICK y \in Account :
        /\ Puts(j, k, a, y)
        /\ y.bal = x.bal /\ y.nonce = x.nonce /\ y.code = x.code
        /\ Doomed(y) <=> Doomed(x)
        /\ Cleared(y) <=> Cleared(x)
        /\ CreatedNow(y) <=> CreatedNow(x)
        /\ WarmNow(y) <=> WarmNow(x)
        /\ Marked(y) => Doomed(y)
        /\ "Touched" \in y.status
  BY <1>1, TouchOfFields
<1> HIDE DEF v
<1>5. ShowsAcct(v, y, a)
  BY <1>1, <1>3, <1>4 DEF ShowsAcct
<1>6. Shows(v, k, l)
  BY <1>2, <1>4, <1>5, ShowsPut
<1> QED BY <1>6 DEF v

\* One value of an account is set.
LEMMA ShowsValues ==
  ASSUME NEW j \in JournalRec, NEW l, NEW w, Shows(w, j, l), NEW k, NEW a \in Addr,
         NEW y \in Account, Puts(j, k, a, y),
         y.status = j.acct[a].status, y.loaded = j.acct[a].loaded, y.tx = j.acct[a].tx
  PROVE  /\ y.nonce = j.acct[a].nonce /\ y.code = j.acct[a].code
              => Shows([w EXCEPT !.bal[a] = y.bal], k, l)
         /\ y.bal = j.acct[a].bal /\ y.code = j.acct[a].code
              => Shows([w EXCEPT !.nonce[a] = y.nonce], k, l)
         /\ y.bal = j.acct[a].bal /\ y.nonce = j.acct[a].nonce
              => Shows([w EXCEPT !.code[a] = y.code], k, l)
<1> DEFINE x == j.acct[a]
<1>1. w \in WorldRec /\ ShowsAcct(w, x, a) /\ x \in Account
      /\ y.bal \in Balance /\ y.nonce \in Nonce /\ y.code \in Code
  BY DEF Shows, JournalRec, Account
<1>2. /\ Marked(y) <=> Marked(x)
      /\ Doomed(y) <=> Doomed(x)
      /\ Cleared(y) <=> Cleared(x)
      /\ CreatedNow(y) <=> CreatedNow(x)
      /\ WarmNow(y) <=> WarmNow(x)
      /\ "Touched" \in y.status <=> "Touched" \in x.status
  BY DEF Marked, Doomed, Cleared, CreatedNow, WarmNow
<1>3. ASSUME NEW v \in WorldRec, Elsewhere(w, v, a), SameStorage(w, v),
             v.warm = w.warm, v.touched = w.touched, v.created = w.created,
             v.doomed = w.doomed, v.gone = w.gone,
             v.bal[a] = y.bal, v.nonce[a] = y.nonce, v.code[a] = y.code
      PROVE  Shows(v, k, l)
  <2>1. ShowsAcct(v, y, a)
    BY <1>1, <1>2, <1>3 DEF ShowsAcct
  <2> QED BY <1>2, <1>3, <2>1, ShowsPut
<1>4. ASSUME y.nonce = x.nonce, y.code = x.code
      PROVE  Shows([w EXCEPT !.bal[a] = y.bal], k, l)
  <2> DEFINE v == [w EXCEPT !.bal[a] = y.bal]
  <2>1. /\ v \in WorldRec /\ Elsewhere(w, v, a) /\ SameStorage(w, v)
        /\ v.warm = w.warm /\ v.touched = w.touched /\ v.created = w.created
        /\ v.doomed = w.doomed /\ v.gone = w.gone
        /\ v.bal[a] = y.bal /\ v.nonce = w.nonce /\ v.code = w.code
    BY <1>1, Zenon DEF WorldRec, Elsewhere, SameStorage
  <2> HIDE DEF v
  <2>2. Shows(v, k, l)
    BY <1>1, <1>3, <1>4, <2>1 DEF ShowsAcct
  <2> QED BY <2>2 DEF v
<1>5. ASSUME y.bal = x.bal, y.code = x.code
      PROVE  Shows([w EXCEPT !.nonce[a] = y.nonce], k, l)
  <2> DEFINE v == [w EXCEPT !.nonce[a] = y.nonce]
  <2>1. /\ v \in WorldRec /\ Elsewhere(w, v, a) /\ SameStorage(w, v)
        /\ v.warm = w.warm /\ v.touched = w.touched /\ v.created = w.created
        /\ v.doomed = w.doomed /\ v.gone = w.gone
        /\ v.bal = w.bal /\ v.nonce[a] = y.nonce /\ v.code = w.code
    BY <1>1, Zenon DEF WorldRec, Elsewhere, SameStorage
  <2> HIDE DEF v
  <2>2. Shows(v, k, l)
    BY <1>1, <1>3, <1>5, <2>1 DEF ShowsAcct
  <2> QED BY <2>2 DEF v
<1>6. ASSUME y.bal = x.bal, y.nonce = x.nonce
      PROVE  Shows([w EXCEPT !.code[a] = y.code], k, l)
  <2> DEFINE v == [w EXCEPT !.code[a] = y.code]
  <2>1. /\ v \in WorldRec /\ Elsewhere(w, v, a) /\ SameStorage(w, v)
        /\ v.warm = w.warm /\ v.touched = w.touched /\ v.created = w.created
        /\ v.doomed = w.doomed /\ v.gone = w.gone
        /\ v.bal = w.bal /\ v.nonce = w.nonce /\ v.code[a] = y.code
    BY <1>1, Zenon DEF WorldRec, Elsewhere, SameStorage
  <2> HIDE DEF v
  <2>2. Shows(v, k, l)
    BY <1>1, <1>3, <1>6, <2>1 DEF ShowsAcct
  <2> QED BY <2>2 DEF v
<1> QED BY <1>4, <1>5, <1>6

\* The flags of an account change: it is created, doomed, or spared.
LEMMA ShowsMarks ==
  ASSUME NEW j \in JournalRec, NEW l, NEW w, Shows(w, j, l), NEW k, NEW a \in Addr,
         NEW y \in Account, Puts(j, k, a, y),
         y.bal = j.acct[a].bal, y.nonce = j.acct[a].nonce, y.code = j.acct[a].code,
         WarmNow(y) <=> WarmNow(j.acct[a]), Cleared(y) <=> Cleared(j.acct[a]),
         "Touched" \in y.status <=> "Touched" \in j.acct[a].status
  PROVE  /\ CreatedNow(y) /\ (Marked(y) <=> Marked(j.acct[a])) /\ (Doomed(y) <=> Doomed(j.acct[a]))
              => Shows([w EXCEPT !.created = @ \cup {a}], k, l)
         /\ (CreatedNow(y) <=> CreatedNow(j.acct[a])) /\ Marked(y) /\ Doomed(y)
            /\ (~Marked(j.acct[a]) \/ Doomed(j.acct[a]))
              => Shows([w EXCEPT !.doomed = @ \cup {a}], k, l)
         /\ (CreatedNow(y) <=> CreatedNow(j.acct[a])) /\ ~Marked(y) /\ ~Doomed(y)
              => Shows([w EXCEPT !.doomed = @ \ {a}, !.gone = @ \ {a}], k, l)
<1> DEFINE x == j.acct[a]
<1>1. w \in WorldRec /\ ShowsAcct(w, x, a) /\ x \in Account
  BY DEF Shows, JournalRec
<1>2. ASSUME NEW v \in WorldRec, Elsewhere(w, v, a), SameStorage(w, v), ShowsAcct(v, y, a)
      PROVE  Shows(v, k, l)
  BY <1>2, ShowsPut
<1>3. ASSUME CreatedNow(y), Marked(y) <=> Marked(x), Doomed(y) <=> Doomed(x)
      PROVE  Shows([w EXCEPT !.created = @ \cup {a}], k, l)
  <2> DEFINE v == [w EXCEPT !.created = @ \cup {a}]
  <2>1. /\ v \in WorldRec /\ Elsewhere(w, v, a) /\ SameStorage(w, v)
        /\ v.warm = w.warm /\ v.touched = w.touched /\ a \in v.created
        /\ v.doomed = w.doomed /\ v.gone = w.gone
        /\ v.bal = w.bal /\ v.nonce = w.nonce /\ v.code = w.code
    BY <1>1, Zenon DEF WorldRec, Elsewhere, SameStorage
  <2> HIDE DEF v
  <2>2. ShowsAcct(v, y, a)
    BY <1>1, <1>3, <2>1 DEF ShowsAcct
  <2> QED BY <1>2, <2>1, <2>2 DEF v
<1>4. ASSUME CreatedNow(y) <=> CreatedNow(x), Marked(y), Doomed(y), ~Marked(x) \/ Doomed(x)
      PROVE  Shows([w EXCEPT !.doomed = @ \cup {a}], k, l)
  <2> DEFINE v == [w EXCEPT !.doomed = @ \cup {a}]
  <2>1. /\ v \in WorldRec /\ Elsewhere(w, v, a) /\ SameStorage(w, v)
        /\ v.warm = w.warm /\ v.touched = w.touched /\ v.created = w.created
        /\ a \in v.doomed /\ v.gone = w.gone
        /\ v.bal = w.bal /\ v.nonce = w.nonce /\ v.code = w.code
    BY <1>1, Zenon DEF WorldRec, Elsewhere, SameStorage
  <2> HIDE DEF v
  <2>2. ShowsAcct(v, y, a)
    BY <1>1, <1>4, <2>1 DEF ShowsAcct
  <2> QED BY <1>2, <2>1, <2>2 DEF v
<1>5. ASSUME CreatedNow(y) <=> CreatedNow(x), ~Marked(y), ~Doomed(y)
      PROVE  Shows([w EXCEPT !.doomed = @ \ {a}, !.gone = @ \ {a}], k, l)
  <2> DEFINE v == [w EXCEPT !.doomed = @ \ {a}, !.gone = @ \ {a}]
  <2>1. /\ v \in WorldRec /\ Elsewhere(w, v, a) /\ SameStorage(w, v)
        /\ v.warm = w.warm /\ v.touched = w.touched /\ v.created = w.created
        /\ a \notin v.doomed /\ a \notin v.gone
        /\ v.bal = w.bal /\ v.nonce = w.nonce /\ v.code = w.code
    BY <1>1, Zenon DEF WorldRec, Elsewhere, SameStorage
  <2> HIDE DEF v
  <2>2. ShowsAcct(v, y, a)
    BY <1>1, <1>5, <2>1 DEF ShowsAcct
  <2> QED BY <1>2, <2>1, <2>2 DEF v
<1> QED BY <1>3, <1>4, <1>5 DEF CreatedNow, Marked, Doomed

\* A slot is replaced.
LEMMA ShowsPutSlot ==
  ASSUME NEW j \in JournalRec, NEW l, NEW w, Shows(w, j, l), NEW k, NEW a \in Addr,
         NEW q \in Key, NEW t \in Slot, PutsSlot(j, k, a, q, t), t.loaded
  PROVE  /\ SlotWarm(t) /\ t.present = ValueIn(j, a, q)
              => Shows([w EXCEPT !.warmSlots = @ \cup {<<a, q>>}], k, l)
         /\ SlotWarm(t) /\ SlotWarm(j.slot[a][q])
              => Shows([w EXCEPT !.storage[a][q] = t.present], k, l)
<1>1. w \in WorldRec /\ ShowsSlot(w, j.acct[a], j.slot[a][q], a, q) /\ t.present \in Value
  BY DEF Shows, Slot
<1>2. ASSUME NEW v \in WorldRec, v.transient = w.transient, v.logs = w.logs,
             \A b \in Addr : ShowsAcct(w, j.acct[b], b) => ShowsAcct(v, j.acct[b], b),
             \A b \in Addr, p \in Key : b # a \/ p # q =>
               v.storage[b][p] = w.storage[b][p] /\ (<<b, p>> \in v.warmSlots <=> <<b, p>> \in w.warmSlots),
             ShowsSlot(v, j.acct[a], t, a, q)
      PROVE  Shows(v, k, l)
  <2>1. k.acct = j.acct /\ k.transient = j.transient /\ k.slot[a][q] = t
    BY DEF PutsSlot
  <2>2. ASSUME NEW b \in Addr, NEW p \in Key PROVE ShowsSlot(v, k.acct[b], k.slot[b][p], b, p)
    <3>1. CASE b = a /\ p = q
      BY <1>2, <2>1, <3>1
    <3>2. CASE b # a \/ p # q
      <4>1. k.slot[b][p] = j.slot[b][p] /\ ShowsSlot(w, j.acct[b], j.slot[b][p], b, p)
        BY <3>2 DEF PutsSlot, Shows
      <4> QED BY <1>2, <2>1, <3>2, <4>1 DEF ShowsSlot
    <3> QED BY <3>1, <3>2
  <2> QED BY <1>2, <2>1, <2>2 DEF Shows
<1>3. ASSUME SlotWarm(t), t.present = ValueIn(j, a, q)
      PROVE  Shows([w EXCEPT !.warmSlots = @ \cup {<<a, q>>}], k, l)
  <2> DEFINE v == [w EXCEPT !.warmSlots = @ \cup {<<a, q>>}]
  <2>1. /\ v \in WorldRec /\ v.storage = w.storage /\ v.transient = w.transient /\ v.logs = w.logs
        /\ v.warm = w.warm /\ v.touched = w.touched /\ v.created = w.created
        /\ v.doomed = w.doomed /\ v.gone = w.gone
        /\ v.bal = w.bal /\ v.nonce = w.nonce /\ v.code = w.code
        /\ v.warmSlots = w.warmSlots \cup {<<a, q>>}
    <3>1. w.warmSlots \cup {<<a, q>>} \in SUBSET (Addr \X Key)
      BY <1>1 DEF WorldRec
    <3> QED BY <1>1, <3>1, Zenon DEF WorldRec
  <2> HIDE DEF v
  <2>2. ShowsSlot(v, j.acct[a], t, a, q)
    BY <1>1, <1>3, <2>1 DEF ShowsSlot, SlotValue, ValueIn
  <2>3. \A b \in Addr : ShowsAcct(w, j.acct[b], b) => ShowsAcct(v, j.acct[b], b)
    BY <2>1 DEF ShowsAcct
  <2> QED BY <1>2, <2>1, <2>2, <2>3, Zenon DEF v
<1>4. ASSUME SlotWarm(t), SlotWarm(j.slot[a][q])
      PROVE  Shows([w EXCEPT !.storage[a][q] = t.present], k, l)
  <2> DEFINE v == [w EXCEPT !.storage[a][q] = t.present]
  <2>1. /\ v \in WorldRec /\ v.warmSlots = w.warmSlots /\ v.transient = w.transient
        /\ v.logs = w.logs
        /\ v.warm = w.warm /\ v.touched = w.touched /\ v.created = w.created
        /\ v.doomed = w.doomed /\ v.gone = w.gone
        /\ v.bal = w.bal /\ v.nonce = w.nonce /\ v.code = w.code
    BY <1>1, Zenon DEF WorldRec
  <2>2. /\ v.storage[a][q] = t.present
        /\ \A b \in Addr, p \in Key : b # a \/ p # q => v.storage[b][p] = w.storage[b][p]
    BY <1>1 DEF WorldRec
  <2> HIDE DEF v
  <2>3. ShowsSlot(v, j.acct[a], t, a, q)
    BY <1>1, <1>4, <2>1, <2>2 DEF ShowsSlot, SlotValue
  <2>4. \A b \in Addr : ShowsAcct(w, j.acct[b], b) => ShowsAcct(v, j.acct[b], b)
    BY <2>1 DEF ShowsAcct
  <2> QED BY <1>2, <2>1, <2>2, <2>3, <2>4, Zenon DEF v
<1> QED BY <1>3, <1>4

\* The log of entries is not part of the world.
LEMMA ShowsRecord ==
  ASSUME NEW j \in JournalRec, NEW l, NEW w, Shows(w, j, l), NEW e \in Entry
  PROVE  Shows(w, Record(j, e), l)
BY RecordFields DEF Shows

\* Transient storage and logs are the same in the world and in the journal.
LEMMA ShowsTransient ==
  ASSUME NEW j \in JournalRec, NEW l, NEW w, Shows(w, j, l), NEW a \in Addr, NEW q \in Key,
         NEW v \in Value
  PROVE  Shows([w EXCEPT !.transient[a][q] = v], [j EXCEPT !.transient[a][q] = v], l)
<1> DEFINE k == [j EXCEPT !.transient[a][q] = v]
           u == [w EXCEPT !.transient[a][q] = v]
<1>1. w \in WorldRec
  BY DEF Shows
<1>2. /\ u \in WorldRec /\ u.storage = w.storage /\ u.warmSlots = w.warmSlots
      /\ u.warm = w.warm /\ u.touched = w.touched /\ u.created = w.created
      /\ u.doomed = w.doomed /\ u.gone = w.gone /\ u.logs = w.logs
      /\ u.bal = w.bal /\ u.nonce = w.nonce /\ u.code = w.code
      /\ u.transient = [w.transient EXCEPT ![a][q] = v]
  BY <1>1, Zenon DEF WorldRec
<1>3. k.acct = j.acct /\ k.slot = j.slot /\ k.transient = [j.transient EXCEPT ![a][q] = v]
  BY DEF JournalRec
<1> HIDE DEF u, k
<1>4. Shows(u, k, l)
  BY <1>2, <1>3 DEF Shows, ShowsAcct, ShowsSlot
<1> QED BY <1>4 DEF u, k

\* A log is emitted: Journal.Log.
LEMMA ShowsLog ==
  ASSUME NEW j \in JournalRec, NEW l, NEW w, Shows(w, j, l), NEW a \in Addr
  PROVE  Shows([w EXCEPT !.logs = Append(@, a)], j, Append(l, a))
<1> DEFINE u == [w EXCEPT !.logs = Append(@, a)]
<1>1. w \in WorldRec
  BY DEF Shows
<1>2. /\ u \in WorldRec /\ u.storage = w.storage /\ u.warmSlots = w.warmSlots
      /\ u.warm = w.warm /\ u.touched = w.touched /\ u.created = w.created
      /\ u.doomed = w.doomed /\ u.gone = w.gone /\ u.transient = w.transient
      /\ u.bal = w.bal /\ u.nonce = w.nonce /\ u.code = w.code
      /\ u.logs = Append(w.logs, a)
  <2>1. Append(w.logs, a) \in Seq(Addr)
    BY <1>1 DEF WorldRec
  <2> QED BY <1>1, <2>1, Zenon DEF WorldRec
<1> HIDE DEF u
<1>4. Shows(u, j, Append(l, a))
  BY <1>2 DEF Shows, ShowsAcct, ShowsSlot
<1> QED BY <1>4 DEF u

-----------------------------------------------------------------------------
(***************************************************************************)
(* What each method of the journal does to the world.  Sane says that the  *)
(* methods so far have kept the journal sound: the lemmas about Leads then *)
(* say which account, or slot, the next one replaces.                      *)
(***************************************************************************)
Sane(j) ==
  /\ txid \in Nat /\ j \in JournalRec
  /\ \E r \in JournalRec, i \in JournalRec, C \in SUBSET Checkpoint :
       \E D : Leads(TRUE, r, D, C, i, j)

\* What is sound of a journal.
LEMMA SaneGood ==
  ASSUME NEW j, Sane(j)
  PROVE  /\ j \in JournalRec /\ AllNamed(j)
         /\ \A a \in Addr : j.acct[a] \in Account /\ AcctGood(TRUE, j.acct[a], a)
         /\ \A a \in Addr : Vacant(j.acct[a]) => \A q \in Key : ValueIn(j, a, q) = 0
BY Zenon DEF Sane, Leads, Reverts, Sound, StateGood, JournalRec

\* A load.
LEMMA WorldLoad ==
  ASSUME NEW j, Sane(j), NEW a \in Addr, NEW l, NEW w, Shows(w, j, l)
  PROVE  /\ Sane(Load(j, a)) /\ Shows(World!Access(w, a), Load(j, a), l)
         /\ Puts(j, Load(j, a), a, Load(j, a).acct[a])
         /\ LoadedAs(j.acct[a], Load(j, a).acct[a])
<1> DEFINE k == Load(j, a)
<1>1. PICK r \in JournalRec, i \in JournalRec, C \in SUBSET Checkpoint :
        \E D : Leads(TRUE, r, D, C, i, j)
  BY Zenon DEF Sane
<1>2. PICK D : Leads(TRUE, r, D, C, i, j)
  BY <1>1, Zenon
<1>3. j \in JournalRec /\ txid \in Nat
  BY DEF Sane
<1>4. /\ Leads(TRUE, r, D, C, i, k)
      /\ Puts(j, k, a, k.acct[a]) /\ LoadedAs(j.acct[a], k.acct[a])
  BY <1>2, <1>3, LeadsLoad, Zenon
<1> HIDE DEF k
<1>5. Sane(k)
  BY <1>3, <1>4, Zenon DEF Sane, Leads, Reverts
<1>6. Shows(World!Access(w, a), k, l)
  BY <1>3, <1>4, ShowsLoaded
<1> QED BY <1>4, <1>5, <1>6 DEF k

\* A touch.
LEMMA WorldTouch ==
  ASSUME NEW j, Sane(j), NEW a \in Addr, NEW l, NEW w, Shows(w, j, l), j.acct[a].loaded
  PROVE  /\ Sane(TouchAccount(j, a)) /\ Shows(World!TouchAcc(w, a), TouchAccount(j, a), l)
         /\ Puts(j, TouchAccount(j, a), a, TouchOf(j.acct[a]))
         /\ Sane(MarkTouched(j, a))
         /\ Puts(j, MarkTouched(j, a), a, WithTouch(j.acct[a]))
         /\ ~Marked(j.acct[a]) \/ Doomed(j.acct[a])
              => Shows(World!TouchAcc(w, a), MarkTouched(j, a), l)
<1> DEFINE k == TouchAccount(j, a)
           m == MarkTouched(j, a)
<1>1. PICK r \in JournalRec, i \in JournalRec, C \in SUBSET Checkpoint :
        \E D : Leads(TRUE, r, D, C, i, j)
  BY Zenon DEF Sane
<1>2. PICK D : Leads(TRUE, r, D, C, i, j)
  BY <1>1, Zenon
<1>3. j \in JournalRec /\ txid \in Nat
  BY DEF Sane
<1>4. /\ Leads(TRUE, r, D, C, i, k) /\ Puts(j, k, a, TouchOf(j.acct[a]))
      /\ Leads(TRUE, r, D, C, i, m) /\ Puts(j, m, a, WithTouch(j.acct[a]))
  BY <1>2, <1>3, LeadsTouch, Zenon
<1> HIDE DEF k, m
<1>5. Sane(k) /\ Sane(m)
  BY <1>3, <1>4, Zenon DEF Sane, Leads, Reverts
<1>6. Shows(World!TouchAcc(w, a), k, l)
  BY <1>3, <1>4, ShowsTouched
<1>7. ASSUME ~Marked(j.acct[a]) \/ Doomed(j.acct[a]) PROVE Shows(World!TouchAcc(w, a), m, l)
  BY <1>3, <1>4, <1>7, ShowsTouched
<1> QED BY <1>4, <1>5, <1>6, <1>7 DEF k, m

\* A slot is warmed.
WarmedSlot(j, a, q) ==
  IF ~j.slot[a][q].loaded
    THEN [loaded |-> TRUE, present |-> InitialValue(j, a, q), orig |-> InitialValue(j, a, q),
          tx |-> txid, cold |-> FALSE]
    ELSE [j.slot[a][q] EXCEPT !.orig = IF SlotColdInTx(j, a, q) THEN j.slot[a][q].present ELSE @,
                              !.tx = txid, !.cold = FALSE]

\* The slot an SLOAD or SSTORE accesses is warm, and has the value it had.
LEMMA WorldWarm ==
  ASSUME NEW j, Sane(j), NEW a \in Addr, NEW q \in Key, NEW l, NEW w, Shows(w, j, l),
         j.acct[a].loaded
  PROVE  LET k == WarmSlot(j, a, q)
         IN  /\ Sane(k) /\ Shows([w EXCEPT !.warmSlots = @ \cup {<<a, q>>}], k, l)
             /\ k.slot[a][q] \in Slot /\ SlotWarm(k.slot[a][q])
             /\ k.slot[a][q].present = ValueIn(j, a, q)
<1> DEFINE k == WarmSlot(j, a, q)
           t == k.slot[a][q]
<1>1. PICK r \in JournalRec, i \in JournalRec, C \in SUBSET Checkpoint :
        \E D : Leads(TRUE, r, D, C, i, j)
  BY Zenon DEF Sane
<1>2. PICK D : Leads(TRUE, r, D, C, i, j)
  BY <1>1, Zenon
<1>3. j \in JournalRec /\ txid \in Nat
  BY DEF Sane
<1>4. /\ Leads(TRUE, r, D, C, i, k) /\ PutsSlot(j, k, a, q, t) /\ t \in Slot
      /\ SlotWarm(t) /\ t.present = ValueIn(j, a, q)
  <2>1. TRUE \in BOOLEAN /\ j.acct[a].loaded
    OBVIOUS
  <2>2. Leads(TRUE, r, D, C, i, k) /\ PutsSlot(j, k, a, q, t) /\ t \in Slot /\ SlotWarm(t)
    BY <1>2, <1>3, <2>1, LeadsWarmSlot, ZenonT(60)
  <2>3. t.present = IF j.slot[a][q].loaded THEN j.slot[a][q].present ELSE InitialValue(j, a, q)
    <3>1. t = WarmedSlot(j, a, q)
      BY <1>3, Zenon DEF WarmSlot, WarmedSlot, Record, JournalRec
    <3>2. j.slot[a][q] \in Slot
      BY <1>3 DEF JournalRec
    <3> HIDE DEF t
    <3> QED BY <3>1, <3>2 DEF WarmedSlot, Slot
  <2>4. InitialValue(j, a, q) = IF Cleared(j.acct[a]) THEN 0 ELSE DBStorage[a][q]
    BY <1>3, <2>1, SaneGood, InitialIsValue, ZenonT(60)
  <2> HIDE DEF k
  <2> QED BY <2>2, <2>3, <2>4, Zenon DEF ValueIn, SlotValue, Cleared
<1> HIDE DEF k
<1>5. Sane(k)
  BY <1>3, <1>4, Zenon DEF Sane, Leads, Reverts
<1>6. t.loaded
  BY <1>4 DEF SlotWarm
<1>7. Shows([w EXCEPT !.warmSlots = @ \cup {<<a, q>>}], k, l)
  <2> HIDE DEF t
  <2> QED BY <1>3, <1>4, <1>6, ShowsPutSlot, Zenon
<1> QED BY <1>4, <1>5, <1>7 DEF k

\* The journal a step starts from is sane.
LEMMA SaneNow ==
  ASSUME Inv, Good(TRUE)
  PROVE  Sane(journal)
<1>1. TRUE \in BOOLEAN
  OBVIOUS
<1>2. /\ journal \in JournalRec /\ txid \in Nat /\ Start \in JournalRec /\ OpenFrames \in SUBSET Checkpoint
      /\ Leads(TRUE, Start, Listed, OpenFrames, journal, journal)
  BY <1>1, GoodNow, Zenon
<1> QED BY <1>2, Zenon DEF Sane

\* SLoad loads the account if it has to, and warms the slot.
LEMMA WorldSLoad ==
  ASSUME NEW j, Sane(j), NEW a \in Addr, NEW q \in Key, NEW l, NEW w, Shows(w, j, l),
         j.acct[a].loaded => ~ColdInTx(j, a)
  PROVE  Shows([World!Access(w, a) EXCEPT !.warmSlots = @ \cup {<<a, q>>}], SLoadSlot(j, a, q), l)
<1>1. LoadIfAbsent(j, a) = Load(j, a)
  BY DEF LoadIfAbsent, Load
<1>2. Sane(Load(j, a)) /\ Shows(World!Access(w, a), Load(j, a), l) /\ Load(j, a).acct[a].loaded
  BY WorldLoad DEF LoadedAs, WarmNow
<1>3. Shows([World!Access(w, a) EXCEPT !.warmSlots = @ \cup {<<a, q>>}], WarmSlot(Load(j, a), a, q), l)
  BY <1>2, WorldWarm
<1> QED BY <1>1, <1>3 DEF SLoadSlot

\* SStore touches the account, warms the slot and writes it.
LEMMA WorldSStore ==
  ASSUME NEW j, Sane(j), NEW a \in Addr, NEW q \in Key, NEW v \in Value, NEW l, NEW w,
         Shows(w, j, l), j.acct[a].loaded, ~Marked(j.acct[a]) \/ Doomed(j.acct[a])
  PROVE  Shows([World!TouchAcc(w, a) EXCEPT !.warmSlots = @ \cup {<<a, q>>}, !.storage[a][q] = v],
               SStoreSlot(j, a, q, v), l)
<1> DEFINE t == MarkTouched(j, a)
           m == WarmSlot(t, a, q)
           u == World!TouchAcc(w, a)
           x == [u EXCEPT !.warmSlots = @ \cup {<<a, q>>}]
           z == [x EXCEPT !.storage[a][q] = v]
           s == m.slot[a][q]
           e == [kind |-> "StorageChanged", addr |-> a, key |-> q, had |-> s.present]
<1>1. LoadIfAbsent(j, a) = j
  BY DEF LoadIfAbsent
<1>2. Sane(t) /\ Shows(u, t, l) /\ t.acct[a].loaded
  <2>1. Sane(t) /\ Shows(u, t, l) /\ t.acct[a] = WithTouch(j.acct[a])
    BY WorldTouch DEF Puts
  <2>2. WithTouch(j.acct[a]).loaded = j.acct[a].loaded
    BY SaneGood, TouchOfFields, Zenon
  <2> QED BY <2>1, <2>2
<1> HIDE DEF t, u
<1>3. /\ Sane(m) /\ Shows(x, m, l)
      /\ s \in Slot /\ SlotWarm(s)
  BY <1>2, WorldWarm
<1>4. m \in JournalRec
  BY <1>3, SaneGood, Zenon
<1>5. SStoreSlot(j, a, q, v) = IF s.present = v THEN m ELSE Record(WriteSlot(m, a, q, v), e)
  BY <1>1 DEF SStoreSlot, t, WriteSlot
<1> HIDE DEF m
<1>6. x \in WorldRec /\ ShowsSlot(x, m.acct[a], s, a, q)
  BY <1>3, Zenon DEF Shows
<1>7. CASE s.present = v
  <2>1. x.storage[a][q] = v
    BY <1>3, <1>6, <1>7 DEF ShowsSlot, SlotValue, SlotWarm
  <2> HIDE DEF x
  <2>2. z = x
    BY <1>6, <2>1 DEF WorldRec
  <2>3. Shows(z, SStoreSlot(j, a, q, v), l)
    BY <1>3, <1>5, <1>7, <2>2
  <2> QED BY <2>3 DEF x, u
<1>8. CASE s.present # v
  <2> DEFINE k == WriteSlot(m, a, q, v)
             y == Written(s, v)
  <2>1. /\ k \in JournalRec /\ k.acct = m.acct /\ k.transient = m.transient
        /\ \A b \in Addr, p \in Key : k.slot[b][p] = IF b = a /\ p = q THEN y ELSE m.slot[b][p]
    <3>1. y \in Slot
      BY <1>3 DEF Written, Slot
    <3>2. k = PutSlot(m, a, q, y)
      BY <1>4 DEF WriteSlot, Written, PutSlot, JournalRec
    <3> HIDE DEF y, k
    <3> QED BY <1>4, <3>1, <3>2, PutSlotFields DEF Same
  <2>2. y \in Slot /\ y.loaded /\ SlotWarm(y) /\ y.present = v
    BY <1>3 DEF Written, Slot, SlotWarm
  <2> HIDE DEF k, y, s
  <2>3. PutsSlot(m, k, a, q, y) /\ s = m.slot[a][q]
    BY <2>1 DEF PutsSlot, s
  <2> HIDE DEF x
  <2>4. Shows(z, k, l)
    BY <1>3, <1>4, <2>2, <2>3, ShowsPutSlot, Zenon
  <2>5. e \in Entry
    BY <1>3 DEF Entry, Slot
  <2> HIDE DEF z, e
  <2>6. Shows(z, Record(k, e), l)
    BY <2>1, <2>4, <2>5, ShowsRecord
  <2>7. Shows(z, SStoreSlot(j, a, q, v), l)
    BY <1>5, <1>8, <2>6 DEF k
  <2> QED BY <2>7 DEF z, x, u
<1> QED BY <1>7, <1>8

\* Balance, nonce and code are set.
LEMMA WorldSet ==
  ASSUME NEW j \in JournalRec, NEW a \in Addr, NEW l, NEW w, Shows(w, j, l)
  PROVE  /\ \A v \in Balance : /\ SetBalance(j, a, v) \in JournalRec
                               /\ SetBalance(j, a, v).entries = j.entries
                               /\ SetBalance(j, a, v).acct[a].bal = v
                               /\ Shows([w EXCEPT !.bal[a] = v], SetBalance(j, a, v), l)
         /\ \A n \in Nonce : /\ SetNonce(j, a, n) \in JournalRec
                             /\ SetNonce(j, a, n).entries = j.entries
                             /\ Shows([w EXCEPT !.nonce[a] = n], SetNonce(j, a, n), l)
         /\ \A c \in Code : /\ SetCode(j, a, c) \in JournalRec
                            /\ SetCode(j, a, c).entries = j.entries
                            /\ Shows([w EXCEPT !.code[a] = c], SetCode(j, a, c), l)
<1> DEFINE x == j.acct[a]
<1>1. x \in Account
  BY DEF JournalRec
<1>2. ASSUME NEW y \in Account
      PROVE  /\ Puts(j, PutAcct(j, a, y), a, y) /\ PutAcct(j, a, y) \in JournalRec
             /\ PutAcct(j, a, y).entries = j.entries /\ PutAcct(j, a, y).acct[a] = y
  BY PutAcctFields DEF Puts, Same
<1>3. ASSUME NEW v \in Balance
      PROVE  /\ SetBalance(j, a, v) \in JournalRec
             /\ SetBalance(j, a, v).entries = j.entries
             /\ SetBalance(j, a, v).acct[a].bal = v
             /\ Shows([w EXCEPT !.bal[a] = v], SetBalance(j, a, v), l)
  <2> DEFINE y == [x EXCEPT !.bal = v]
  <2>1. /\ y \in Account /\ y.bal = v /\ y.nonce = x.nonce /\ y.code = x.code
        /\ y.status = x.status /\ y.loaded = x.loaded /\ y.tx = x.tx
    BY <1>1 DEF Account
  <2>2. SetBalance(j, a, v) = PutAcct(j, a, y)
    BY DEF SetBalance, PutAcct, JournalRec
  <2> HIDE DEF y
  <2>3. Shows([w EXCEPT !.bal[a] = y.bal], PutAcct(j, a, y), l)
    BY <1>2, <2>1, ShowsValues, Zenon
  <2> QED BY <1>2, <2>1, <2>2, <2>3
<1>4. ASSUME NEW n \in Nonce
      PROVE  /\ SetNonce(j, a, n) \in JournalRec
             /\ SetNonce(j, a, n).entries = j.entries
             /\ Shows([w EXCEPT !.nonce[a] = n], SetNonce(j, a, n), l)
  <2> DEFINE y == [x EXCEPT !.nonce = n]
  <2>1. /\ y \in Account /\ y.bal = x.bal /\ y.nonce = n /\ y.code = x.code
        /\ y.status = x.status /\ y.loaded = x.loaded /\ y.tx = x.tx
    BY <1>1 DEF Account
  <2>2. SetNonce(j, a, n) = PutAcct(j, a, y)
    BY DEF SetNonce, PutAcct, JournalRec
  <2> HIDE DEF y
  <2>3. Shows([w EXCEPT !.nonce[a] = y.nonce], PutAcct(j, a, y), l)
    BY <1>2, <2>1, ShowsValues, Zenon
  <2> QED BY <1>2, <2>1, <2>2, <2>3
<1>5. ASSUME NEW c \in Code
      PROVE  /\ SetCode(j, a, c) \in JournalRec
             /\ SetCode(j, a, c).entries = j.entries
             /\ Shows([w EXCEPT !.code[a] = c], SetCode(j, a, c), l)
  <2> DEFINE y == [x EXCEPT !.code = c]
  <2>1. /\ y \in Account /\ y.bal = x.bal /\ y.nonce = x.nonce /\ y.code = c
        /\ y.status = x.status /\ y.loaded = x.loaded /\ y.tx = x.tx
    BY <1>1 DEF Account
  <2>2. SetCode(j, a, c) = PutAcct(j, a, y)
    BY DEF SetCode, PutAcct, JournalRec
  <2> HIDE DEF y
  <2>3. Shows([w EXCEPT !.code[a] = y.code], PutAcct(j, a, y), l)
    BY <1>2, <2>1, ShowsValues, Zenon
  <2> QED BY <1>2, <2>1, <2>2, <2>3
<1> QED BY <1>3, <1>4, <1>5

\* Credits and debits.
LEMMA WorldPay ==
  ASSUME NEW j \in JournalRec, NEW a \in Addr, NEW l, NEW w, Shows(w, j, l), NEW v \in Balance
  PROVE  /\ Credit(j, a, v) \in JournalRec /\ Debit(j, a, v) \in JournalRec
         /\ Shows(World!Pay(w, a, v), Credit(j, a, v), l)
         /\ w.bal[a] = j.acct[a].bal /\ w.bal[a] \in Balance
         /\ w.bal[a] + v <= MaxBalance => Shows([w EXCEPT !.bal[a] = @ + v], Credit(j, a, v), l)
         /\ v <= w.bal[a] => Shows([w EXCEPT !.bal[a] = @ - v], Debit(j, a, v), l)
<1> DEFINE b == j.acct[a].bal
<1>1. b \in Balance /\ w.bal[a] = b
  BY DEF Shows, ShowsAcct, JournalRec, Account
<1>2. Credit(j, a, v) = SetBalance(j, a, Plus(b, v)) /\ Debit(j, a, v) = SetBalance(j, a, Minus(b, v))
  BY DEF Credit, Debit, SetBalance, JournalRec
<1>3. /\ Plus(b, v) \in Balance /\ Minus(b, v) \in Balance
      /\ v <= b => Minus(b, v) = b - v
      /\ b + v <= MaxBalance => Plus(b, v) = b + v
  BY <1>1, PlusMinus
<1> HIDE DEF b
<1>4. /\ Shows([w EXCEPT !.bal[a] = Plus(b, v)], Credit(j, a, v), l)
      /\ Shows([w EXCEPT !.bal[a] = Minus(b, v)], Debit(j, a, v), l)
      /\ Credit(j, a, v) \in JournalRec /\ Debit(j, a, v) \in JournalRec
  BY <1>2, <1>3, WorldSet
<1>5. World!Pay(w, a, v) = [w EXCEPT !.bal[a] = Plus(b, v)]
  <2>1. World!Plus(b, v) = Plus(b, v)
    BY DEF World!Plus, Plus
  <2> QED BY <1>1, <2>1 DEF World!Pay
<1> QED BY <1>1, <1>3, <1>4, <1>5 DEF b

\* Transient storage.
LEMMA WorldTStore ==
  ASSUME NEW j \in JournalRec, NEW a \in Addr, NEW q \in Key, NEW v \in Value, NEW l, NEW w,
         Shows(w, j, l)
  PROVE  Shows([w EXCEPT !.transient[a][q] = v], TStoreSlot(j, a, q, v), l)
<1> DEFINE u == [w EXCEPT !.transient[a][q] = v]
           k == [j EXCEPT !.transient[a][q] = v]
           e == [kind |-> "TransientChange", addr |-> a, key |-> q, had |-> j.transient[a][q]]
<1>1. w \in WorldRec /\ w.transient = j.transient
  BY DEF Shows
<1>2. TStoreSlot(j, a, q, v) = IF j.transient[a][q] = v THEN j ELSE Record(k, e)
  BY DEF TStoreSlot
<1>3. CASE j.transient[a][q] = v
  <2>1. u = w
    BY <1>1, <1>3 DEF WorldRec
  <2> QED BY <1>2, <1>3, <2>1
<1>4. CASE j.transient[a][q] # v
  <2>1. k \in JournalRec /\ Shows(u, k, l)
    <3>1. k \in JournalRec
      BY SlotUpdate DEF Same
    <3> QED BY <3>1, ShowsTransient
  <2>2. e \in Entry
    BY DEF Entry, JournalRec
  <2> HIDE DEF e, k, u
  <2>3. Shows(u, Record(k, e), l)
    BY <2>1, <2>2, ShowsRecord
  <2> QED BY <1>2, <1>4, <2>3 DEF u
<1> QED BY <1>3, <1>4

\* A nonce is incremented.
LEMMA WorldBump ==
  ASSUME NEW j \in JournalRec, NEW a \in Addr, NEW l, NEW w, Shows(w, j, l),
         j.acct[a].nonce < MaxNonce
  PROVE  LET n == j.acct[a].nonce
         IN  Shows([w EXCEPT !.nonce[a] = @ + 1],
                   Record(SetNonce(j, a, n + 1), [kind |-> "NonceChange", addr |-> a, nonce |-> n]), l)
<1> DEFINE n == j.acct[a].nonce
           e == [kind |-> "NonceChange", addr |-> a, nonce |-> n]
<1>1. n \in Nonce /\ n + 1 \in Nonce /\ w.nonce[a] = n
  BY ConstantsOK DEF Shows, ShowsAcct, JournalRec, Account, Nonce
<1>2. e \in Entry
  BY <1>1 DEF Entry
<1> HIDE DEF n, e
<1>3. Shows([w EXCEPT !.nonce[a] = n + 1], Record(SetNonce(j, a, n + 1), e), l)
  BY <1>1, <1>2, WorldSet, ShowsRecord
<1> QED BY <1>1, <1>3 DEF n, e

\* AddBalance: the account is loaded, touched and credited.
LEMMA WorldIncr ==
  ASSUME NEW j, Sane(j), NEW a \in Addr, NEW v \in Balance, NEW l, NEW w, Shows(w, j, l)
  PROVE  Shows(World!Pay(World!TouchAcc(World!Access(w, a), a), a, v), IncrBalance(j, a, v), l)
<1> DEFINE m == Load(j, a)
           t == TouchAccount(m, a)
           n == Credit(t, a, v)
           e == [kind |-> "BalanceChange", addr |-> a, bal |-> t.acct[a].bal]
           u == World!TouchAcc(World!Access(w, a), a)
           z == World!Pay(u, a, v)
<1>1. IncrBalance(j, a, v) = IF n.acct[a].bal = t.acct[a].bal THEN n ELSE Record(n, e)
  BY DEF IncrBalance
<1>2. Sane(m) /\ Shows(World!Access(w, a), m, l) /\ m.acct[a].loaded
  BY WorldLoad DEF LoadedAs, WarmNow
<1> HIDE DEF m
<1>3. Sane(t) /\ Shows(u, t, l)
  BY <1>2, WorldTouch
<1> HIDE DEF t, u
<1>4. t \in JournalRec /\ t.acct[a].bal \in Balance
  BY <1>3, SaneGood, Zenon DEF Account
<1>5. n \in JournalRec /\ Shows(z, n, l)
  BY <1>3, <1>4, WorldPay, Zenon
<1>6. e \in Entry
  BY <1>4 DEF Entry
<1> HIDE DEF n, e, z
<1>7. Shows(z, Record(n, e), l)
  BY <1>5, <1>6, ShowsRecord
<1>8. Shows(z, IncrBalance(j, a, v), l)
  BY <1>1, <1>5, <1>7
<1> QED BY <1>8 DEF z, u

\* The world once the value v has moved from a to b.
Moved(w, a, b, v) == [w EXCEPT !.bal[a] = @ - v, !.bal[b] = @ + v]

\* Debiting the one and crediting the other, in either order.
LEMMA WorldMove ==
  ASSUME NEW j \in JournalRec, NEW a \in Addr, NEW b \in Addr, a # b, NEW l, NEW w,
         Shows(w, j, l), NEW v \in Balance, v <= w.bal[a], w.bal[b] + v <= MaxBalance
  PROVE  LET k == Record(Debit(Credit(j, b, v), a, v), BalanceTransfer(a, b, v))
         IN  Shows(Moved(w, a, b, v), k, l)
<1> DEFINE c == Credit(j, b, v)
           d == Debit(c, a, v)
           x == [w EXCEPT !.bal[b] = @ + v]
           y == [x EXCEPT !.bal[a] = @ - v]
           e == BalanceTransfer(a, b, v)
<1>1. w \in WorldRec /\ w.bal \in [Addr -> Balance]
  BY DEF Shows, WorldRec
<1>2. c \in JournalRec /\ Shows(x, c, l)
  BY WorldPay, Zenon
<1>3. x.bal[a] = w.bal[a]
  BY <1>1 DEF WorldRec
<1>4. Moved(w, a, b, v) = y
  <2> DEFINE f == w.bal
             p == f[a] - v
             q == f[b] + v
  <2>1. [f EXCEPT ![a] = p, ![b] = q] = [f EXCEPT ![b] = q, ![a] = p]
    <3> HIDE DEF p, q, f
    <3>1. f \in [Addr -> Balance]
      BY <1>1 DEF f
    <3> QED BY <3>1, Zenon
  <2>2. Moved(w, a, b, v) = [w EXCEPT !.bal = [f EXCEPT ![a] = p, ![b] = q]]
    BY <1>1, Zenon DEF Moved, WorldRec
  <2>3. y = [w EXCEPT !.bal = [f EXCEPT ![b] = q, ![a] = p]]
    BY <1>1, Zenon DEF WorldRec
  <2> QED BY <2>1, <2>2, <2>3
<1> HIDE DEF c, x
<1>5. d \in JournalRec /\ Shows(y, d, l)
  BY <1>2, <1>3, WorldPay, Zenon
<1>6. e \in Entry
  BY DEF Entry, BalanceTransfer
<1> HIDE DEF d, y, e
<1>7. Shows(y, Record(d, e), l)
  BY <1>5, <1>6, ShowsRecord
<1> QED BY <1>4, <1>7 DEF d, c, e

\* What Transfer does to the world.
Transferred(w, a, b, v) ==
  IF a = b THEN w
    ELSE IF v > w.bal[a] THEN World!TouchAcc(w, a)
    ELSE Moved(World!TouchAcc(World!TouchAcc(w, a), b), a, b, v)

\* A transfer between loaded accounts.
LEMMA WorldTransferLoaded ==
  ASSUME NEW j, Sane(j), NEW a \in Addr, NEW b \in Addr, NEW v \in Balance, v # 0,
         NEW l, NEW w, Shows(w, j, l), j.acct[a].loaded, j.acct[b].loaded,
         a # b => j.acct[a].bal + j.acct[b].bal <= MaxBalance
  PROVE  Shows(Transferred(w, a, b, v), TransferLoaded(j, a, b, v), l)
<1>1. CASE a = b
  BY <1>1 DEF Transferred, TransferLoaded
<1>2. CASE a # b
  <2> DEFINE s == TouchAccount(j, a)
             t == TouchAccount(s, b)
             d == TouchAccount(Debit(s, a, v), b)
             x == World!TouchAcc(w, a)
             y == World!TouchAcc(x, b)
  <2>1. /\ j \in JournalRec /\ j.acct[a] \in Account /\ j.acct[b] \in Account
        /\ j.acct[a].bal \in Balance /\ j.acct[b].bal \in Balance
        /\ w.bal[a] = j.acct[a].bal /\ w.bal[b] = j.acct[b].bal
    <3>1. j \in JournalRec /\ j.acct[a] \in Account /\ j.acct[b] \in Account
      BY SaneGood, Zenon
    <3>2. w.bal[a] = j.acct[a].bal /\ w.bal[b] = j.acct[b].bal
      BY DEF Shows, ShowsAcct
    <3> QED BY <3>1, <3>2 DEF Account
  <2>2. /\ Sane(s) /\ Shows(x, s, l) /\ s \in JournalRec
        /\ s.acct[a] = TouchOf(j.acct[a]) /\ s.acct[b] = j.acct[b]
    <3>1. Sane(s) /\ Shows(x, s, l) /\ Puts(j, s, a, TouchOf(j.acct[a]))
      BY WorldTouch
    <3> QED BY <1>2, <3>1, SaneGood DEF Puts
  <2>3. s.acct[a].bal = j.acct[a].bal
    BY <2>1, <2>2, TouchOfFields
  <2>4. TransferLoaded(j, a, b, v) =
          IF v > s.acct[a].bal THEN s
            ELSE IF d.acct[b].bal + v > MaxBalance THEN d
            ELSE Record(Credit(d, b, v), BalanceTransfer(a, b, v))
    BY <1>2 DEF TransferLoaded
  <2>5. d = Debit(t, a, v)
    <3> HIDE DEF s
    <3> QED BY <1>2, <2>2, DebitTouch
  <2> HIDE DEF s, x
  <2>6. Sane(t) /\ Shows(y, t, l) /\ t \in JournalRec /\ t.acct[b] = TouchOf(s.acct[b])
    <3>1. Sane(t) /\ Shows(y, t, l) /\ Puts(s, t, b, TouchOf(s.acct[b]))
      BY <2>2, WorldTouch
    <3> QED BY <3>1, SaneGood DEF Puts
  <2> HIDE DEF d, t
  <2>7. CASE v > j.acct[a].bal
    BY <1>2, <2>1, <2>2, <2>3, <2>4, <2>7 DEF Transferred, x
  <2>8. CASE ~(v > j.acct[a].bal)
    <3>1. /\ y.bal[a] = j.acct[a].bal /\ y.bal[b] = j.acct[b].bal
      <4>1. y.bal = w.bal
        BY <2>1 DEF y, x, World!TouchAcc, Shows, WorldRec
      <4> QED BY <2>1, <4>1
    <3>2. v <= y.bal[a] /\ y.bal[b] + v <= MaxBalance
      BY <1>2, <2>1, <2>8, <3>1, ConstantsOK DEF Balance
    <3>3. d.acct[b].bal = j.acct[b].bal
      <4>1. Debit(t, a, v).acct[b] = t.acct[b]
        BY <1>2, <2>6 DEF Debit, JournalRec
      <4> QED BY <2>1, <2>2, <2>5, <2>6, <4>1, TouchOfFields
    <3>4. Credit(d, b, v) = Debit(Credit(t, b, v), a, v)
      BY <1>2, <2>5, <2>6, MoveForms
    <3>5. TransferLoaded(j, a, b, v) =
            Record(Debit(Credit(t, b, v), a, v), BalanceTransfer(a, b, v))
      BY <1>2, <2>1, <2>3, <2>4, <2>8, <3>3, <3>4, ConstantsOK DEF Balance
    <3> HIDE DEF y
    <3>6. Shows(Moved(y, a, b, v), TransferLoaded(j, a, b, v), l)
      BY <1>2, <2>6, <3>2, <3>5, WorldMove
    <3> QED BY <1>2, <2>1, <2>8, <3>6 DEF Transferred, y, x
  <2> QED BY <2>7, <2>8
<1> QED BY <1>1, <1>2

\* Both accounts are loaded first.
LEMMA WorldTransfer ==
  ASSUME NEW j, Sane(j), NEW a \in Addr, NEW b \in Addr, NEW v \in Balance, v # 0,
         NEW l, NEW w, Shows(w, j, l),
         a # b => j.acct[a].bal + j.acct[b].bal <= MaxBalance
  PROVE  Shows(Transferred(World!Access(World!Access(w, a), b), a, b, v),
               TransferBalance(j, a, b, v), l)
<1> DEFINE m == Load(j, a)
           n == Load(m, b)
           x == World!Access(w, a)
           y == World!Access(x, b)
<1>1. /\ Sane(m) /\ Shows(x, m, l) /\ Puts(j, m, a, m.acct[a]) /\ LoadedAs(j.acct[a], m.acct[a])
  BY WorldLoad
<1> HIDE DEF m, x
<1>2. /\ Sane(n) /\ Shows(y, n, l) /\ Puts(m, n, b, n.acct[b]) /\ LoadedAs(m.acct[b], n.acct[b])
  BY <1>1, WorldLoad
<1> HIDE DEF n, y
<1>3. m.acct[a].loaded /\ m.acct[a].bal = j.acct[a].bal /\ n.acct[b].loaded
  BY <1>1, <1>2 DEF LoadedAs, WarmNow
<1>4. n.acct[a].loaded /\ (a # b => n.acct[a].bal = j.acct[a].bal /\ n.acct[b].bal = j.acct[b].bal)
  BY <1>1, <1>2, <1>3 DEF Puts, LoadedAs
<1>5. Shows(Transferred(y, a, b, v), TransferLoaded(n, a, b, v), l)
  BY <1>2, <1>3, <1>4, WorldTransferLoaded
<1> QED BY <1>5 DEF TransferBalance, n, m, y, x

\* The balance of a destroyed account is paid to the target of its SELFDESTRUCT.
Paid(w, a, b) ==
  IF a = b THEN World!Access(w, b)
    ELSE World!Pay(World!TouchAcc(World!Access(w, b), b), b, World!Access(w, b).bal[a])

\* Selfdestruct, up to the balance move: the beneficiary is loaded and paid.
LEMMA WorldBeneficiary ==
  ASSUME NEW j, Sane(j), NEW a \in Addr, NEW b \in Addr, NEW l, NEW w, Shows(w, j, l),
         WarmNow(j.acct[a])
  PROVE  LET p == PayBeneficiary(j, a, b)
         IN  /\ p \in JournalRec /\ Shows(Paid(w, a, b), p, l)
             /\ WarmNow(p.acct[a])
             /\ Marked(p.acct[a]) <=> Marked(j.acct[a])
             /\ Doomed(p.acct[a]) <=> Doomed(j.acct[a])
             /\ CreatedNow(p.acct[a]) <=> CreatedNow(j.acct[a])
<1> DEFINE m == Load(j, b)
           x == World!Access(w, b)
           p == PayBeneficiary(j, a, b)
<1>1. /\ Sane(m) /\ Shows(x, m, l) /\ Puts(j, m, b, m.acct[b]) /\ LoadedAs(j.acct[b], m.acct[b])
  BY WorldLoad
<1>2. p = IF a = b THEN m ELSE Credit(TouchAccount(m, b), b, m.acct[a].bal)
  BY DEF PayBeneficiary
<1> HIDE DEF m, p
<1>3. m \in JournalRec /\ m.acct[a] \in Account /\ m.acct[b].loaded
  BY <1>1, SaneGood, Zenon DEF LoadedAs, WarmNow
<1>4. CASE a = b
  <2>1. p.acct[a] = m.acct[b] /\ j.acct[a] = j.acct[b]
    BY <1>2, <1>4
  <2>2. /\ WarmNow(m.acct[b])
        /\ Marked(m.acct[b]) <=> Marked(j.acct[b])
        /\ Doomed(m.acct[b]) <=> Doomed(j.acct[b])
        /\ CreatedNow(m.acct[b]) <=> CreatedNow(j.acct[b])
    BY <1>1, FlagsLast DEF LoadedAs, Marked, Doomed
  <2>3. Shows(Paid(w, a, b), p, l)
    BY <1>1, <1>2, <1>4 DEF Paid
  <2> QED BY <1>2, <1>3, <1>4, <2>1, <2>2, <2>3 DEF p
<1>5. CASE a # b
  <2> DEFINE t == TouchAccount(m, b)
             y == World!TouchAcc(x, b)
             v == m.acct[a].bal
  <2>1. m.acct[a] = j.acct[a] /\ v \in Balance /\ x.bal[a] = v
    BY <1>1, <1>3, <1>5 DEF Puts, Shows, ShowsAcct, Account
  <2> HIDE DEF x, v
  <2>2. Sane(t) /\ Shows(y, t, l) /\ Puts(m, t, b, TouchOf(m.acct[b]))
    BY <1>1, <1>3, WorldTouch
  <2> HIDE DEF t, y
  <2>3. t \in JournalRec /\ t.acct[a] = m.acct[a]
    BY <1>5, <2>2, SaneGood DEF Puts
  <2>4. Credit(t, b, v) \in JournalRec /\ Shows(World!Pay(y, b, v), Credit(t, b, v), l)
    BY <2>1, <2>2, <2>3, WorldPay, Zenon
  <2>5. Credit(t, b, v).acct[a] = t.acct[a]
    BY <1>5, <2>3 DEF Credit, JournalRec
  <2>6. p = Credit(t, b, v)
    BY <1>2, <1>5 DEF t, v
  <2>7. Paid(w, a, b) = World!Pay(y, b, v)
    BY <1>5, <2>1 DEF Paid, y, x
  <2> QED BY <2>1, <2>3, <2>4, <2>5, <2>6, <2>7 DEF p
<1> QED BY <1>4, <1>5

\* What Selfdestruct does to the world.
Destroyed(w, a, b) ==
  IF a \in w.created \/ ~Cancun
    THEN [Paid(w, a, b) EXCEPT !.bal[a] = 0, !.doomed = @ \cup {a}]
    ELSE IF a = b THEN Paid(w, a, b) ELSE [Paid(w, a, b) EXCEPT !.bal[a] = 0]

\* Selfdestruct, whether EIP-6780 lets it mark the account or not.
LEMMA WorldDestroy ==
  ASSUME NEW j, Sane(j), NEW a \in Addr, NEW b \in Addr, NEW l, NEW w, Shows(w, j, l),
         WarmNow(j.acct[a]), ~Marked(j.acct[a]) \/ Doomed(j.acct[a])
  PROVE  Shows(Destroyed(w, a, b), Destroy(j, a, b), l)
<1> DEFINE p == PayBeneficiary(j, a, b)
           u == Paid(w, a, b)
           v == p.acct[a].bal
           F == {"SelfDestructed", "SelfDestructLocal"}
           m == Mark(p, a, F)
           y == [p.acct[a] EXCEPT !.status = @ \cup F]
           d == [kind |-> "AccountDestroyed", addr |-> a, target |-> b,
                 status |-> DestroyStatus(p, a), bal |-> v]
           e == BalanceTransfer(a, b, v)
<1>1. /\ p \in JournalRec /\ Shows(u, p, l) /\ WarmNow(p.acct[a])
      /\ Marked(p.acct[a]) <=> Marked(j.acct[a])
      /\ Doomed(p.acct[a]) <=> Doomed(j.acct[a])
      /\ CreatedNow(p.acct[a]) <=> CreatedNow(j.acct[a])
  BY WorldBeneficiary
<1>2. /\ a \in w.created <=> CreatedNow(j.acct[a])
      /\ MayDestroy(p, a) <=> CreatedNow(p.acct[a]) \/ ~Cancun
  BY <1>1 DEF Shows, ShowsAcct, MayDestroy, Has, CreatedNow, WarmNow
<1>3. Destroy(j, a, b) =
        IF MayDestroy(p, a) THEN Record(SetBalance(m, a, 0), d)
          ELSE IF a # b THEN Record(SetBalance(p, a, 0), e) ELSE p
  BY DEF Destroy
<1> HIDE DEF p, u
<1>4. p.acct[a] \in Account /\ v \in Balance /\ 0 \in Balance
  BY <1>1, ConstantsOK DEF JournalRec, Account, Balance
<1>5. d \in Entry /\ e \in Entry
  <2>1. DestroyStatus(p, a) \in RevertStatus
    BY DEF DestroyStatus, RevertStatus
  <2> QED BY <1>4, <2>1 DEF Entry, BalanceTransfer
<1> HIDE DEF v, d, e
<1>6. CASE MayDestroy(p, a)
  <2> DEFINE x == [u EXCEPT !.doomed = @ \cup {a}]
             z == [x EXCEPT !.bal[a] = 0]
  <2>1. /\ y \in Account /\ y.bal = p.acct[a].bal /\ y.nonce = p.acct[a].nonce
        /\ y.code = p.acct[a].code
        /\ WarmNow(y) <=> WarmNow(p.acct[a])
        /\ Cleared(y) <=> Cleared(p.acct[a])
        /\ "Touched" \in y.status <=> "Touched" \in p.acct[a].status
        /\ CreatedNow(y) <=> CreatedNow(p.acct[a])
        /\ Marked(y) /\ Doomed(y)
    BY <1>4 DEF Account, Flag, WarmNow, CreatedNow, Marked, Doomed, Cleared
  <2>2. Puts(p, m, a, y) /\ m \in JournalRec
    <3>1. m = PutAcct(p, a, y)
      BY <1>1, <1>4 DEF Mark, PutAcct, JournalRec
    <3> HIDE DEF m, y
    <3> QED BY <1>1, <2>1, <3>1, PutAcctFields DEF Puts, Same
  <2> HIDE DEF m, y
  <2>3. Shows(x, m, l)
    BY <1>1, <2>1, <2>2, ShowsMarks, Zenon
  <2> HIDE DEF x
  <2>4. SetBalance(m, a, 0) \in JournalRec /\ Shows(z, SetBalance(m, a, 0), l)
    BY <1>4, <2>2, <2>3, WorldSet
  <2> HIDE DEF z
  <2>5. Shows(z, Record(SetBalance(m, a, 0), d), l)
    BY <1>5, <2>4, ShowsRecord
  <2>6. Destroyed(w, a, b) = z
    <3>1. Destroyed(w, a, b) = [u EXCEPT !.bal[a] = 0, !.doomed = @ \cup {a}]
      BY <1>1, <1>2, <1>6 DEF Destroyed, u
    <3>2. u \in WorldRec
      BY <1>1 DEF Shows
    <3> QED BY <3>1, <3>2, Zenon DEF z, x, WorldRec
  <2> QED BY <1>3, <1>6, <2>5, <2>6
<1>7. CASE ~MayDestroy(p, a)
  <2>1. Destroyed(w, a, b) = IF a = b THEN u ELSE [u EXCEPT !.bal[a] = 0]
    BY <1>1, <1>2, <1>7 DEF Destroyed, u
  <2>2. /\ SetBalance(p, a, 0) \in JournalRec
        /\ Shows([u EXCEPT !.bal[a] = 0], SetBalance(p, a, 0), l)
    BY <1>1, <1>4, WorldSet
  <2>3. Shows([u EXCEPT !.bal[a] = 0], Record(SetBalance(p, a, 0), e), l)
    BY <1>5, <2>2, ShowsRecord
  <2> QED BY <1>1, <1>3, <1>7, <2>1, <2>3
<1> QED BY <1>6, <1>7

\* The account that a creation may take over has nothing in it.
LEMMA WorldUncollided ==
  ASSUME NEW j, Sane(j), NEW a \in Addr, NEW l, NEW w, Shows(w, j, l), ~Collides(j, a),
         SpuriousDragon \/ "Created" \notin j.acct[a].status
  PROVE  /\ w.code[a] = NoCode /\ w.nonce[a] = 0 /\ \A q \in Key : w.storage[a][q] = 0
         /\ ~Doomed(j.acct[a])
<1> DEFINE x == j.acct[a]
<1>1. /\ x \in Account /\ AcctGood(TRUE, x, a)
      /\ Vacant(x) => \A q \in Key : ValueIn(j, a, q) = 0
      /\ ShowsAcct(w, x, a) /\ \A q \in Key : ShowsSlot(w, x, j.slot[a][q], a, q)
  BY SaneGood, Zenon DEF Shows
<1>2. x.code = NoCode /\ x.nonce = 0 /\ ~HasStorage(j, a)
  BY DEF Collides
<1>3. ~Doomed(x)
  BY <1>1, <1>2 DEF AcctGood, CreatedNow
<1>4. Marked(x) => Cleared(x)
  BY <1>1, <1>3 DEF AcctGood
<1>5. ASSUME NEW q \in Key PROVE w.storage[a][q] = 0
  <2>1. w.storage[a][q] = ValueIn(j, a, q)
    BY <1>1, Zenon DEF ShowsSlot, ValueIn
  <2>2. CASE Cleared(x)
    BY <1>1, <1>2, <2>1, <2>2 DEF Vacant
  <2>3. CASE ~Cleared(x)
    <3>1. (j.slot[a][q].loaded => j.slot[a][q].present = 0) /\ DBStorage[a][q] = 0
      BY <1>2, <1>4, <2>3 DEF HasStorage, Has, Marked, Cleared
    <3> QED BY <2>1, <3>1 DEF ValueIn, SlotValue
  <2> QED BY <2>2, <2>3
<1> QED BY <1>1, <1>2, <1>3, <1>5 DEF ShowsAcct

\* The world once a has been created.
Born(w, a) ==
  [World!TouchAcc(w, a) EXCEPT !.nonce[a] = IF SpuriousDragon THEN 1 ELSE 0,
                               !.created = @ \cup {a}]

\* CreateAccountCheckpoint, up to the value transfer.
LEMMA WorldNew ==
  ASSUME NEW j, Sane(j), NEW a \in Addr, NEW l, NEW w, Shows(w, j, l),
         WarmNow(j.acct[a]), ~Collides(j, a),
         SpuriousDragon \/ "Created" \notin j.acct[a].status
  PROVE  LET k == NewAccount(j, a)
         IN  /\ k \in JournalRec /\ Shows(Born(w, a), k, l)
             /\ Puts(j, k, a, k.acct[a]) /\ k.acct[a].bal = j.acct[a].bal
<1> DEFINE k == NewAccount(j, a)
           x == j.acct[a]
           y == k.acct[a]
           v == Born(w, a)
<1>1. PICK r \in JournalRec, i \in JournalRec, C \in SUBSET Checkpoint :
        \E D : Leads(TRUE, r, D, C, i, j)
  BY Zenon DEF Sane
<1>2. PICK D : Leads(TRUE, r, D, C, i, j)
  BY <1>1, Zenon
<1>3. j \in JournalRec /\ TRUE \in BOOLEAN
  BY DEF Sane
<1>4. Puts(j, k, a, y) /\ CreatedFrom(x, y)
  BY <1>2, <1>3, LeadsNewAccount, Zenon
<1>5. w.code[a] = NoCode /\ w.nonce[a] = 0 /\ ~Doomed(x) /\ x.nonce = 0
  <2>1. x.nonce = 0
    BY DEF Collides
  <2> QED BY <2>1, WorldUncollided
<1>6. w \in WorldRec /\ ShowsAcct(w, x, a)
  BY DEF Shows
<1> HIDE DEF k, x, y
<1>7. v \in WorldRec /\ Elsewhere(w, v, a) /\ SameStorage(w, v)
  <2>1. 1 \in Nonce /\ 0 \in Nonce
    BY ConstantsOK DEF Nonce
  <2> QED BY <1>6, <2>1, ZenonT(60) DEF Born, World!TouchAcc, WorldRec, Elsewhere, SameStorage
<1>8. /\ v.bal = w.bal /\ v.nonce[a] = (IF SpuriousDragon THEN 1 ELSE 0) /\ v.code = w.code
      /\ v.warm = w.warm /\ a \in v.created /\ v.doomed = w.doomed
      /\ a \notin v.gone /\ (a \in v.touched <=> a \in w.touched \/ a \notin Sticky)
  BY <1>6 DEF Born, World!TouchAcc, WorldRec
<1> HIDE DEF v
<1>9. ShowsAcct(v, y, a)
  <2>1. WarmNow(x)
    BY DEF x
  <2> QED BY <1>4, <1>5, <1>6, <1>8, <2>1 DEF ShowsAcct, CreatedFrom
<1>10. Shows(v, k, l)
  <2>1. Cleared(y) <=> Cleared(j.acct[a])
    BY <1>4 DEF CreatedFrom, x
  <2> QED BY <1>3, <1>4, <1>7, <1>9, <2>1, ShowsPut DEF x
<1> QED BY <1>4, <1>10 DEF k, x, y, v, Puts, CreatedFrom

\* The value that comes with a creation.
LEMMA WorldCreate ==
  ASSUME NEW j, Sane(j), NEW a \in Addr, NEW b \in Addr, a # b, NEW v \in Balance,
         NEW l, NEW w, Shows(w, j, l),
         WarmNow(j.acct[b]), ~Collides(j, b),
         SpuriousDragon \/ "Created" \notin j.acct[b].status,
         v <= j.acct[a].bal, j.acct[a].bal + j.acct[b].bal <= MaxBalance
  PROVE  /\ NewAccount(j, b).acct[b].bal + v <= MaxBalance
         /\ Shows(Moved(Born(w, b), a, b, v), Endow(NewAccount(j, b), a, b, v), l)
<1> DEFINE k == NewAccount(j, b)
           u == Born(w, b)
<1>1. /\ k \in JournalRec /\ Shows(u, k, l)
      /\ k.acct[b].bal = j.acct[b].bal /\ k.acct[a] = j.acct[a]
  BY WorldNew DEF Puts
<1>2. j.acct[a].bal \in Balance /\ j.acct[b].bal \in Balance
  BY SaneGood, Zenon DEF Account
<1> HIDE DEF k, u
<1>3. u \in WorldRec /\ u.bal[a] = j.acct[a].bal /\ u.bal[b] = j.acct[b].bal
  BY <1>1 DEF Shows, ShowsAcct
<1>4. v <= u.bal[a] /\ j.acct[b].bal + v <= MaxBalance
  BY <1>2, <1>3, ConstantsOK DEF Balance
<1>5. CASE v = 0
  <2>1. Moved(u, a, b, 0) = u
    <3>1. u.bal[a] - 0 = u.bal[a] /\ u.bal[b] + 0 = u.bal[b] /\ u.bal \in [Addr -> Balance]
      BY <1>2, <1>3, ConstantsOK DEF Balance, WorldRec
    <3> QED BY <1>3, <3>1, Zenon DEF Moved, WorldRec
  <2> QED BY <1>1, <1>4, <1>5, <2>1 DEF Endow, k, u
<1>6. CASE v # 0
  <2>1. Shows(Moved(u, a, b, v), Record(Debit(Credit(k, b, v), a, v), BalanceTransfer(a, b, v)), l)
    BY <1>1, <1>3, <1>4, WorldMove
  <2> QED BY <1>1, <1>4, <1>6, <2>1 DEF Endow, k, u
<1> QED BY <1>5, <1>6

\* SetCode: the account is touched and gets its code.
LEMMA WorldDeploy ==
  ASSUME NEW j, Sane(j), NEW a \in Addr, NEW c \in Code, NEW l, NEW w, Shows(w, j, l),
         j.acct[a].loaded
  PROVE  Shows([World!TouchAcc(w, a) EXCEPT !.code[a] = c], DeployCode(j, a, c), l)
<1> DEFINE t == TouchAccount(j, a)
           e == [kind |-> "CodeChange", addr |-> a, code |-> t.acct[a].code]
           u == World!TouchAcc(w, a)
           r == Record(t, e)
<1>1. DeployCode(j, a, c) = SetCode(r, a, c)
  BY DEF DeployCode
<1>2. Sane(t) /\ Shows(u, t, l)
  BY WorldTouch
<1> HIDE DEF t, u
<1>3. t \in JournalRec /\ e \in Entry
  BY <1>2, SaneGood, Zenon DEF Entry, Account
<1> HIDE DEF e
<1>4. r \in JournalRec /\ Shows(u, r, l)
  BY <1>2, <1>3, ShowsRecord, RecordFields
<1> HIDE DEF r
<1>5. Shows([u EXCEPT !.code[a] = c], SetCode(r, a, c), l)
  BY <1>4, WorldSet
<1> QED BY <1>1, <1>5 DEF u

\* The world once the creation of a has ended well, with the code c.
Spared(w, a) == [w EXCEPT !.doomed = @ \ {a}, !.gone = @ \ {a}]

Finished(w, a, c) ==
  IF c = NoCode THEN w ELSE [World!TouchAcc(w, a) EXCEPT !.code[a] = c]

\* The end of a creation: the account it marked is spared, and its code stored.
LEMMA WorldFinish ==
  ASSUME Inv, Good(TRUE), NEW c \in Code, NEW byOpcode \in BOOLEAN, FinishCreate(c, byOpcode),
         NEW l, NEW w, Shows(w, journal, l)
  PROVE  /\ Top.created \in Addr /\ Top.created \in w.created
         /\ Shows(Finished(IF byOpcode THEN w ELSE Spared(w, Top.created), Top.created, c),
                  journal', l)
<1> DEFINE a == Top.created
           n == Top.journalI
           T == RevertTo(journal, n)
           kept == Unmark(journal, a, DestroyMarks)
           x == journal.acct[a]
           y == [x EXCEPT !.status = @ \ DestroyMarks]
           u == Spared(w, a)
<1>1. /\ FrameOpen /\ a # None /\ (byOpcode => c = NoCode)
      /\ journal' = LET k == IF byOpcode THEN journal ELSE kept
                    IN  IF c = NoCode THEN k ELSE DeployCode(k, a, c)
  BY DEF FinishCreate, DestroyMarks
<1>2. TRUE \in BOOLEAN
  OBVIOUS
<1>3. /\ n \in 0 .. Len(journal.entries) /\ a \in Addr /\ Top \in OpenFrames
      /\ journal \in JournalRec /\ OpenFrames \in SUBSET Checkpoint /\ Start \in JournalRec
      /\ txid \in Nat /\ Sound(TRUE, Start, journal, Listed, OpenFrames)
      /\ Current(Start, journal) /\ AllNamed(journal)
  BY <1>1, <1>2, TopBounds, FramesFewer, GoodNow, Zenon
<1> HIDE DEF a, n
<1>4. CreatedNow(x)
  BY <1>1, <1>3 DEF Sound, FramesGood, a
<1>5. a \in w.created
  BY <1>3, <1>4 DEF Shows, ShowsAcct
<1>6. CASE byOpcode
  BY <1>1, <1>3, <1>5, <1>6 DEF Finished, a
<1>7. CASE ~byOpcode
  <2>1. /\ Leads(TRUE, Start, Listed, OpenFrames, T, kept)
        /\ CreatedNow(kept.acct[a]) /\ kept.acct[a].loaded
    <3>1. Top.journalI = n /\ Top.created = a
      BY DEF n, a
    <3> QED BY <1>2, <1>3, <3>1, LeadsUnmark, Zenon
  <2>2. T \in JournalRec
    BY <1>3, RevertFacts
  <2> HIDE DEF T
  <2>3. kept \in JournalRec /\ Sane(kept)
    BY <1>3, <2>1, <2>2, Zenon DEF Sane, Leads, Reverts
  <2>4. x \in Account
    BY <1>3 DEF JournalRec
  <2>5. /\ y \in Account /\ y.bal = x.bal /\ y.nonce = x.nonce /\ y.code = x.code
        /\ WarmNow(y) <=> WarmNow(x)
        /\ Cleared(y) <=> Cleared(x)
        /\ "Touched" \in y.status <=> "Touched" \in x.status
        /\ CreatedNow(y) <=> CreatedNow(x)
        /\ ~Marked(y) /\ ~Doomed(y)
    BY <2>4 DEF Account, WarmNow, Cleared, CreatedNow, Marked, Doomed, DestroyMarks
  <2>6. Puts(journal, kept, a, y)
    <3>1. kept = PutAcct(journal, a, y)
      BY Zenon DEF Unmark, PutAcct
    <3> HIDE DEF kept, y
    <3> QED BY <1>3, <2>5, <3>1, PutAcctFields DEF Puts, Same
  <2> HIDE DEF kept, y
  <2>7. Shows(u, kept, l)
    BY <1>3, <2>5, <2>6, ShowsMarks, Zenon DEF Spared
  <2> HIDE DEF u
  <2>8. Shows(Finished(u, a, c), IF c = NoCode THEN kept ELSE DeployCode(kept, a, c), l)
    BY <1>3, <2>1, <2>3, <2>7, WorldDeploy DEF Finished
  <2> QED BY <1>1, <1>3, <1>5, <1>7, <2>8 DEF a, u
<1> QED BY <1>6, <1>7

-----------------------------------------------------------------------------
(***************************************************************************)
(* The stack of snapshots.                                                 *)
(***************************************************************************)
\* What the steps keep.
Ready == Inv /\ Good(TRUE) /\ LogsNested

\* The logs there were when i frames had been entered, and the world.
StageLogs(i) == IF i = 0 THEN <<>> ELSE SubSeq(logs, 1, checkpoints[i].logI)
StageWorld(i) == WorldOf(RevertTo(journal, Point(i)), StageLogs(i))

\* Every step keeps it, and the snapshots with it while the transaction lasts.
LEMMA ReadyNext ==
  ASSUME Ready, SupplyFits, [Next]_vars
  PROVE  Ready' /\ (txid' = txid => Stays(TRUE) /\ LogsStay)
<1>1. TRUE \in BOOLEAN /\ Inv /\ Good(TRUE) /\ LogsNested
  BY Zenon DEF Ready
<1>2. Inv' /\ Good(TRUE)' /\ LogsNested'
      /\ (txid' = txid => Stays(TRUE) /\ LogsStay)
  BY <1>1, NextInv, NextGood, NextLogs, Zenon
<1> QED BY <1>2, Zenon DEF Ready

\* What is ready is typed and, at every stage, sound.
LEMMA ReadyFacts ==
  ASSUME Ready
  PROVE  /\ journal \in JournalRec /\ logs \in Seq(Addr) /\ warmList \in AccessList
         /\ checkpoints \in Seq(Checkpoint) /\ Len(checkpoints) \in Nat
         /\ \A a \in Addr : AcctGood(TRUE, journal.acct[a], a)
         /\ \A i \in 0 .. Len(checkpoints) :
              /\ Point(i) \in 0 .. Len(journal.entries)
              /\ RevertTo(journal, Point(i)) \in JournalRec
              /\ StageLogs(i) \in Seq(Addr)
              /\ \A a \in Addr : AcctGood(TRUE, RevertTo(journal, Point(i)).acct[a], a)
<1>1. TRUE \in BOOLEAN /\ Inv /\ Good(TRUE) /\ LogsNested
  BY Zenon DEF Ready
<1>2. /\ journal \in JournalRec /\ warmList \in AccessList
      /\ checkpoints \in Seq(Checkpoint) /\ StagesGood(TRUE, Start, journal, doomed, checkpoints)
      /\ Sound(TRUE, Start, Start, {}, {})
      /\ \A a \in Addr : AcctGood(TRUE, journal.acct[a], a)
  BY <1>1, GoodNow, Zenon
<1>3. logs \in Seq(Addr) /\ Len(checkpoints) \in Nat
  BY <1>1, <1>2 DEF Inv, TypeOK
<1>4. ASSUME NEW i \in 0 .. Len(checkpoints)
      PROVE  /\ Point(i) \in 0 .. Len(journal.entries)
             /\ RevertTo(journal, Point(i)) \in JournalRec
             /\ StageLogs(i) \in Seq(Addr)
             /\ \A a \in Addr : AcctGood(TRUE, RevertTo(journal, Point(i)).acct[a], a)
  <2>1. Point(i) \in 0 .. Len(journal.entries)
    BY <1>1, PointBounds, Zenon
  <2>2. RevertTo(journal, Point(i)) \in JournalRec
    BY <1>2, <2>1, RevertFacts
  <2>3. CASE i = 0
    <3>1. RevertTo(journal, Point(i)) = Start
      BY <2>3 DEF Point, Start
    <3>2. StageLogs(i) = <<>> /\ <<>> \in Seq(Addr)
      BY <2>3 DEF StageLogs
    <3>3. \A a \in Addr : AcctGood(TRUE, Start.acct[a], a)
      BY <1>2, Zenon DEF Sound, StateGood
    <3> QED BY <2>1, <2>2, <3>1, <3>2, <3>3, Zenon
  <2>4. CASE i # 0
    <3>1. i \in 1 .. Len(checkpoints) /\ Point(i) = checkpoints[i].journalI
      BY <1>3, <2>4 DEF Point
    <3>2. \A a \in Addr : AcctGood(TRUE, RevertTo(journal, Point(i)).acct[a], a)
      BY <1>2, <3>1, Zenon DEF StagesGood, Sound, StateGood
    <3>3. StageLogs(i) \in Seq(Addr)
      <4> DEFINE n == checkpoints[i].logI
      <4>1. n \in 0 .. Len(logs)
        BY <1>1, <3>1 DEF LogsNested
      <4> HIDE DEF n
      <4>2. SubSeq(logs, 1, n) \in Seq(Addr)
        BY <1>3, <4>1
      <4> QED BY <2>4, <4>2 DEF StageLogs, n
    <3> QED BY <2>1, <2>2, <3>2, <3>3, Zenon
  <2> QED BY <2>3, <2>4, Zenon
<1> QED BY <1>2, <1>3, <1>4, Zenon

\* The current world, and no other, shows the current journal.
LEMMA NowShown == Ready => Shows(Now, journal, logs) /\ \A v : Shows(v, journal, logs) => v = Now
BY ReadyFacts, WorldShows, ShownIsWorld, Zenon DEF Now

\* A world in front of a sequence of worlds.
LEMMA ConsFields ==
  ASSUME NEW S, NEW x \in S, NEW n \in Nat, NEW f \in [1 .. n -> S]
  PROVE  /\ <<x>> \o f \in Seq(S) /\ Len(<<x>> \o f) = n + 1 /\ (<<x>> \o f)[1] = x
         /\ \A i \in 1 .. n : (<<x>> \o f)[i + 1] = f[i]
<1>1. f \in Seq(S) /\ Len(f) = n
  OBVIOUS
<1>2. <<x>> \in Seq(S) /\ Len(<<x>>) = 1 /\ <<x>>[1] = x
  OBVIOUS
<1> DEFINE y == <<x>>
<1> HIDE DEF y
<1>3. y \o f \in Seq(S) /\ Len(y \o f) = n + 1 /\ (y \o f)[1] = x
      /\ \A i \in 1 .. n : (y \o f)[i + 1] = f[i]
  BY <1>1, <1>2 DEF y
<1> QED BY <1>3 DEF y

\* The stack is that of the worlds the open frames would revert to.
LEMMA StackIs ==
  Ready => /\ Snapshots \in Seq(WorldRec) /\ Len(Snapshots) = Len(checkpoints) + 1
           /\ \A i \in 0 .. Len(checkpoints) : Snapshots[i + 1] = StageWorld(i)
<1> SUFFICES ASSUME Ready
             PROVE  /\ Snapshots \in Seq(WorldRec) /\ Len(Snapshots) = Len(checkpoints) + 1
                    /\ \A i \in 0 .. Len(checkpoints) : Snapshots[i + 1] = StageWorld(i)
  OBVIOUS
<1> DEFINE n == Len(checkpoints)
           f == [i \in 1 .. n |-> Snapshot(checkpoints[i])]
<1>1. n \in Nat
  BY ReadyFacts
<1>2. ASSUME NEW i \in 0 .. n PROVE StageWorld(i) \in WorldRec
  <2>1. Shows(StageWorld(i), RevertTo(journal, Point(i)), StageLogs(i))
    BY ReadyFacts, WorldShows, Zenon DEF StageWorld
  <2> QED BY <2>1 DEF Shows
<1>3. TxStart = StageWorld(0) /\ 0 \in 0 .. n
  BY <1>1, WorldAtIs DEF TxStart, StageWorld, StageLogs, Point
<1>4. \A i \in 1 .. n : f[i] = StageWorld(i) /\ i \in 0 .. n
  BY <1>1, WorldAtIs DEF Snapshot, StageWorld, StageLogs, Point
<1>5. f \in [1 .. n -> WorldRec] /\ TxStart \in WorldRec
  BY <1>2, <1>3, <1>4
<1>6. Snapshots = <<TxStart>> \o f
  BY DEF Snapshots
<1> HIDE DEF n, f
<1>7. /\ Snapshots \in Seq(WorldRec) /\ Len(Snapshots) = n + 1 /\ Snapshots[1] = TxStart
      /\ \A i \in 1 .. n : Snapshots[i + 1] = f[i]
  BY <1>1, <1>5, <1>6, ConsFields
<1>8. ASSUME NEW i \in 0 .. n PROVE Snapshots[i + 1] = StageWorld(i)
  <2>1. CASE i = 0
    BY <1>3, <1>7, <2>1
  <2>2. CASE i # 0
    <3>1. i \in 1 .. n
      BY <1>1, <2>2
    <3> QED BY <1>4, <1>7, <3>1
  <2> QED BY <2>1, <2>2
<1> QED BY <1>7, <1>8 DEF n

\* The same of the next state.
LEMMA NowShownNext ==
  (Ready => Shows(Now, journal, logs) /\ \A v : Shows(v, journal, logs) => v = Now)'
BY NowShown, PTL

\* The same of the next state.
LEMMA StackIsNext ==
  (Ready => /\ Snapshots \in Seq(WorldRec) /\ Len(Snapshots) = Len(checkpoints) + 1
            /\ \A i \in 0 .. Len(checkpoints) : Snapshots[i + 1] = StageWorld(i))'
BY StackIs, PTL

\* What a world shows depends on the transaction and on its access list only.
LEMMA ShowsPrimed ==
  ASSUME NEW v, NEW j, NEW l, txid' = txid, warmList' = warmList, Shows(v, j, l)
  PROVE  Shows(v, j, l)'
BY DEF Shows, ShowsAcct, ShowsSlot, SlotValue, WarmNow, CreatedNow, SlotWarm, IsWarm,
       IsStorageWarm, Doomed, Marked

\* A world that shows the next journal is the next world.
LEMMA NowIs ==
  ASSUME NEW v, NEW j, NEW l, Ready', journal' = j, logs' = l, txid' = txid,
         warmList' = warmList, Shows(v, j, l)
  PROVE  v = Now'
<1>1. Shows(v, j, l)'
  BY ShowsPrimed
<1>2. Shows(v, journal, logs)'
  BY <1>1
<1> QED BY <1>2, NowShownNext

\* The stack before and after a step, snapshot by snapshot.
LEMMA StackParts ==
  ASSUME Ready, Ready'
  PROVE  /\ Snapshots \in Seq(WorldRec) /\ Len(Snapshots) = Len(checkpoints) + 1
         /\ Snapshots' \in Seq(WorldRec) /\ Len(Snapshots') = Len(checkpoints') + 1
         /\ Len(checkpoints) \in Nat /\ Len(checkpoints') \in Nat
         /\ \A i \in 0 .. Len(checkpoints) : Snapshots[i + 1] = StageWorld(i)
         /\ \A i \in 0 .. Len(checkpoints') : Snapshots'[i + 1] = StageWorld(i)'
<1>1. Ready' => Len(checkpoints') \in Nat
  BY DEF Ready, Inv, TypeOK
<1>2. WorldRec' = WorldRec
  BY DEF WorldRec, Balance, Nonce
<1> QED BY <1>1, <1>2, StackIs, StackIsNext, ReadyFacts

\* Sequences of the same values, and one value more or less.
LEMMA SeqChange ==
  ASSUME NEW S, NEW s \in Seq(S), NEW t \in Seq(S)
  PROVE  /\ Len(t) = Len(s) /\ (\A i \in 1 .. Len(s) : t[i] = s[i]) => t = s
         /\ \A x : /\ Len(t) = Len(s) + 1 /\ t[Len(t)] = x
                   /\ \A i \in 1 .. Len(s) : t[i] = s[i]
                   => t = Append(s, x)
         /\ Len(s) # 0 /\ Len(t) = Len(s) - 1 /\ (\A i \in 1 .. Len(t) : t[i] = s[i])
              => t = SubSeq(s, 1, Len(s) - 1)
<1>1. Len(t) = Len(s) /\ (\A i \in 1 .. Len(s) : t[i] = s[i]) => t = s
  OBVIOUS
<1>2. ASSUME NEW x, Len(t) = Len(s) + 1, t[Len(t)] = x, \A i \in 1 .. Len(s) : t[i] = s[i]
      PROVE  t = Append(s, x)
  <2>1. Len(s) \in Nat /\ Len(t) \in 1 .. Len(t)
    BY <1>2
  <2>2. x \in S
    BY <1>2, <2>1
  <2>3. Append(s, x) \in Seq(S) /\ Len(Append(s, x)) = Len(s) + 1
        /\ Append(s, x)[Len(s) + 1] = x /\ \A i \in 1 .. Len(s) : Append(s, x)[i] = s[i]
    BY <2>2
  <2>4. \A i \in 1 .. Len(t) : t[i] = Append(s, x)[i]
    BY <1>2, <2>1, <2>3
  <2> QED BY <1>2, <2>3, <2>4
<1>3. ASSUME Len(s) # 0, Len(t) = Len(s) - 1, \A i \in 1 .. Len(t) : t[i] = s[i]
      PROVE  t = SubSeq(s, 1, Len(s) - 1)
  <2> DEFINE u == SubSeq(s, 1, Len(s) - 1)
  <2>1. u \in Seq(S) /\ Len(u) = Len(s) - 1 /\ \A i \in 1 .. Len(s) - 1 : u[i] = s[i]
    BY <1>3, FrontFields
  <2> HIDE DEF u
  <2>2. t = u
    BY <1>3, <2>1, SMTT(30)
  <2> QED BY <2>2 DEF u
<1> QED BY <1>1, <1>2, <1>3

\* An enclosing frame would be reverted to the same world as before.
LEMMA StageKept ==
  ASSUME Ready, Stays(TRUE), LogsStay, txid' = txid, warmList' = warmList,
         NEW i \in 0 .. Len(checkpoints), i <= Len(checkpoints'),
         i # 0 => checkpoints'[i] = checkpoints[i]
  PROVE  StageWorld(i)' = StageWorld(i)
<1> DEFINE n == Point(i)
           l == StageLogs(i)
           j == RevertTo(journal, n)
           k == RevertTo(journal', n)
<1>1. j \in JournalRec /\ \A a \in Addr : AcctGood(TRUE, j.acct[a], a)
  BY ReadyFacts, Zenon
<1>2. Keeps(TRUE, j, k)
  BY Zenon DEF Stays
<1>3. n' = n
  BY DEF Point
<1>4. l' = l
  <2>1. CASE i = 0
    BY <2>1 DEF StageLogs
  <2>2. CASE i # 0
    <3>1. i \in 1 .. Len(checkpoints)
      BY <2>2, ReadyFacts
    <3>2. SubSeq(logs', 1, checkpoints[i].logI) = SubSeq(logs, 1, checkpoints[i].logI)
      BY <3>1, Zenon DEF LogsStay
    <3> QED BY <2>2, <3>2, Zenon DEF StageLogs
  <2> QED BY <2>1, <2>2
<1>5. WorldOf(j, l) = WorldOf(k, l)
  <2> HIDE DEF j, k, l
  <2> QED BY <1>1, <1>2, WorldKept, Zenon
<1>6. WorldOf(RevertTo(journal, n), l)' = WorldOf(RevertTo(journal', n), l)
  <2> HIDE DEF n, l
  <2> QED BY <1>3, <1>4 DEF WorldOf, IsWarm, ColdInTx, SlotColdInTx, CurrentValue, InitialValue,
                            ShouldLoadFromDB, Has
<1> QED BY <1>5, <1>6 DEF StageWorld

\* No frame is entered or left: the stack stays.
LEMMA StackSame ==
  ASSUME Ready, SupplyFits, [Next]_vars, txid' = txid, warmList' = warmList,
         checkpoints' = checkpoints
  PROVE  UNCHANGED Snapshots
<1>1. Ready' /\ Stays(TRUE) /\ LogsStay
  BY ReadyNext, Zenon
<1>2. \A i \in 0 .. Len(checkpoints) : StageWorld(i)' = StageWorld(i)
  BY <1>1, StageKept, ReadyFacts
<1> DEFINE s == Snapshots
           t == Snapshots'
<1>3. /\ s \in Seq(WorldRec) /\ t \in Seq(WorldRec) /\ Len(t) = Len(s)
      /\ Len(s) = Len(checkpoints) + 1 /\ Len(checkpoints) \in Nat
      /\ \A i \in 0 .. Len(checkpoints) : t[i + 1] = s[i + 1]
  BY <1>1, <1>2, StackParts
<1> HIDE DEF s, t
<1>4. \A i \in 1 .. Len(s) : i - 1 \in 0 .. Len(checkpoints) /\ (i - 1) + 1 = i
  BY <1>3
<1>5. \A i \in 1 .. Len(s) : t[i] = s[i]
  BY <1>3, <1>4, Zenon
<1> QED BY <1>3, <1>5, SeqChange DEF s, t

\* What a frame just entered would be reverted to is the world before.
LEMMA StageNew ==
  ASSUME Ready, txid' = txid, warmList' = warmList, logs' = logs, NEW i \in Nat, i # 0,
         checkpoints'[i].journalI = Len(journal.entries), checkpoints'[i].logI = Len(logs),
         Reverts(TRUE, journal, journal')
  PROVE  StageWorld(i)' = Now
<1> DEFINE n == Len(journal.entries)
           k == RevertTo(journal', n)
           l == logs
<1>1. /\ journal \in JournalRec /\ \A a \in Addr : AcctGood(TRUE, journal.acct[a], a)
      /\ l \in Seq(Addr) /\ n \in 0 .. n
  <2>1. journal \in JournalRec
    BY ReadyFacts
  <2>2. n \in Nat
    BY <2>1 DEF JournalRec
  <2>3. n \in 0 .. n
    BY <2>2
  <2>4. \A a \in Addr : AcctGood(TRUE, journal.acct[a], a)
    BY ReadyFacts, Zenon
  <2>5. l \in Seq(Addr)
    BY ReadyFacts
  <2> QED BY <2>1, <2>3, <2>4, <2>5, Zenon
<1>2. RevertTo(journal, n) = journal
  BY <1>1, RevertStep
<1>3. Keeps(TRUE, journal, k)
  BY <1>1, <1>2, Zenon DEF Reverts
<1>4. WorldOf(journal, l) = WorldOf(k, l)
  <2> HIDE DEF k, l
  <2> QED BY <1>1, <1>3, WorldKept, Zenon
<1>5. Point(i)' = n /\ StageLogs(i)' = SubSeq(logs, 1, Len(logs))
  BY DEF Point, StageLogs
<1>6. SubSeq(logs, 1, Len(logs)) = l
  BY <1>1
<1>7. WorldOf(RevertTo(journal, Point(i)), StageLogs(i))' = WorldOf(k, l)
  <2> HIDE DEF n
  <2> QED BY <1>5, <1>6, ZenonT(60) DEF WorldOf, IsWarm, ColdInTx, SlotColdInTx, CurrentValue, InitialValue,
                            ShouldLoadFromDB, Has
<1> QED BY <1>4, <1>7 DEF StageWorld, Now

\* A frame is entered.
LEMMA StackPushed ==
  ASSUME Ready, SupplyFits, [Next]_vars, txid' = txid, warmList' = warmList, logs' = logs,
         NEW a \in Addr \cup {None}, Enter(a), Reverts(TRUE, journal, journal')
  PROVE  Snapshots' = Append(Snapshots, Now)
<1> DEFINE s == Snapshots
           t == Snapshots'
           u == Now
<1>1. Ready' /\ Stays(TRUE) /\ LogsStay
  BY ReadyNext, Zenon
<1>2. PICK m \in Nat : m = Len(checkpoints)
  BY ReadyFacts
<1>3. /\ Len(checkpoints') = m + 1
      /\ checkpoints'[m + 1].journalI = Len(journal.entries)
      /\ checkpoints'[m + 1].logI = Len(logs)
      /\ \A i \in 1 .. m : checkpoints'[i] = checkpoints[i]
  BY <1>2, ReadyFacts DEF Enter
<1>4. ASSUME NEW i \in 0 .. m PROVE StageWorld(i)' = StageWorld(i)
  BY <1>1, <1>2, <1>3, StageKept
<1>5. StageWorld(m + 1)' = u
  <2> DEFINE i == m + 1
  <2>1. i \in Nat /\ i # 0
    BY <1>2
  <2> HIDE DEF i
  <2>2. StageWorld(i)' = Now
    BY <1>3, <2>1, StageNew, Zenon DEF i
  <2> QED BY <2>2 DEF i
<1>6. /\ s \in Seq(WorldRec) /\ t \in Seq(WorldRec) /\ Len(s) = m + 1 /\ Len(t) = m + 2
      /\ \A i \in 0 .. m : t[i + 1] = s[i + 1]
      /\ t[(m + 1) + 1] = u
  <2>1. m + 1 \in 0 .. Len(checkpoints') /\ \A i \in 0 .. m : i \in 0 .. Len(checkpoints')
    BY <1>2, <1>3
  <2>2. /\ s \in Seq(WorldRec) /\ Len(s) = Len(checkpoints) + 1
        /\ t \in Seq(WorldRec) /\ Len(t) = Len(checkpoints') + 1
        /\ \A i \in 0 .. Len(checkpoints) : s[i + 1] = StageWorld(i)
        /\ \A i \in 0 .. Len(checkpoints') : t[i + 1] = StageWorld(i)'
    BY <1>1, StackParts, Zenon
  <2> HIDE DEF s, t, u
  <2>3. \A i \in 0 .. m : t[i + 1] = s[i + 1]
    BY <1>2, <1>4, <2>1, <2>2, Zenon
  <2>4. t[(m + 1) + 1] = u
    BY <1>5, <2>1, <2>2, Zenon
  <2> QED BY <1>2, <1>3, <2>2, <2>3, <2>4
<1> HIDE DEF s, t, u
<1>7. \A i \in 1 .. Len(s) : i - 1 \in 0 .. m /\ (i - 1) + 1 = i
  BY <1>6
<1>8. Len(t) = Len(s) + 1 /\ t[Len(t)] = u /\ \A i \in 1 .. Len(s) : t[i] = s[i]
  BY <1>6, <1>7
<1>9. t = Append(s, u)
  BY <1>6, <1>8, SeqChange
<1> QED BY <1>9 DEF s, t, u

\* A frame is left.
LEMMA StackPopped ==
  ASSUME Ready, SupplyFits, [Next]_vars, txid' = txid, warmList' = warmList,
         FrameOpen, checkpoints' = Pop
  PROVE  Snapshots' = SubSeq(Snapshots, 1, Len(Snapshots) - 1) /\ Len(Snapshots) > 1
<1> DEFINE s == Snapshots
           t == Snapshots'
<1>1. Ready' /\ Stays(TRUE) /\ LogsStay
  BY ReadyNext, Zenon
<1>2. PICK m \in Nat : m = Len(checkpoints)
  BY ReadyFacts
<1>3. /\ m # 0 /\ Len(checkpoints') = m - 1
      /\ \A i \in 1 .. m - 1 : checkpoints'[i] = checkpoints[i]
  <2>1. checkpoints \in Seq(Checkpoint) /\ Len(checkpoints) # 0
    BY ReadyFacts DEF FrameOpen
  <2> QED BY <1>2, <2>1, FrontFields DEF Pop
<1>4. ASSUME NEW i \in 0 .. m - 1 PROVE StageWorld(i)' = StageWorld(i)
  BY <1>1, <1>2, <1>3, StageKept
<1>5. /\ s \in Seq(WorldRec) /\ t \in Seq(WorldRec) /\ Len(s) = m + 1 /\ Len(t) = m
      /\ \A i \in 0 .. m - 1 : t[i + 1] = s[i + 1]
  <2>1. \A i \in 0 .. m - 1 : i \in 0 .. Len(checkpoints') /\ i \in 0 .. Len(checkpoints)
    BY <1>2, <1>3
  <2>2. /\ s \in Seq(WorldRec) /\ Len(s) = Len(checkpoints) + 1
        /\ t \in Seq(WorldRec) /\ Len(t) = Len(checkpoints') + 1
        /\ \A i \in 0 .. Len(checkpoints) : s[i + 1] = StageWorld(i)
        /\ \A i \in 0 .. Len(checkpoints') : t[i + 1] = StageWorld(i)'
    BY <1>1, StackParts, Zenon
  <2> HIDE DEF s, t
  <2>3. \A i \in 0 .. m - 1 : t[i + 1] = s[i + 1]
    BY <1>4, <2>1, <2>2, Zenon
  <2> QED BY <1>2, <1>3, <2>2, <2>3
<1> HIDE DEF s, t
<1>6. \A i \in 1 .. Len(t) : i - 1 \in 0 .. m - 1 /\ (i - 1) + 1 = i
  BY <1>5
<1>7. Len(s) # 0 /\ Len(t) = Len(s) - 1 /\ \A i \in 1 .. Len(t) : t[i] = s[i]
  <2>1. \A i \in 1 .. Len(t) : t[i] = s[i]
    BY <1>5, <1>6, Zenon
  <2>2. Len(s) # 0 /\ Len(t) = Len(s) - 1
    BY <1>2, <1>3, <1>5
  <2> QED BY <2>1, <2>2, Zenon
<1>8. t = SubSeq(s, 1, Len(s) - 1)
  BY <1>5, <1>7, SeqChange
<1>9. Len(s) > 1
  BY <1>2, <1>3, <1>5
<1> QED BY <1>8, <1>9, Zenon DEF s, t

\* The stages of a transaction that has just begun: the world is all there is.
LEMMA StageZero == Ready /\ journal.entries = <<>> /\ logs = <<>> => StageWorld(0) = Now
<1> SUFFICES ASSUME Ready, journal.entries = <<>>, logs = <<>> PROVE StageWorld(0) = Now
  OBVIOUS
<1>1. RevertTo(journal, 0) = journal
  BY ReadyFacts, RevertStep
<1> QED BY <1>1 DEF StageWorld, StageLogs, Point, Now

\* A transaction that has just begun has one snapshot, of the world as it is.
LEMMA OneStage ==
  (Ready /\ journal.entries = <<>> /\ logs = <<>> /\ checkpoints = <<>> => Snapshots = <<Now>>)
<1> SUFFICES ASSUME Ready, journal.entries = <<>>, logs = <<>>, checkpoints = <<>>
             PROVE  Snapshots = <<Now>>
  OBVIOUS
<1> DEFINE s == Snapshots
           u == Now
<1>1. s \in Seq(WorldRec) /\ Len(s) = 1 /\ s[1] = u
  <2>1. Len(checkpoints) = 0 /\ 0 \in 0 .. Len(checkpoints)
    OBVIOUS
  <2> QED BY <2>1, StackIs, StageZero
<1> HIDE DEF s, u
<1>2. s = <<u>>
  <2>1. s \in Seq(WorldRec) /\ Len(s) = 1
    BY <1>1
  <2> QED BY <1>1
<1> QED BY <1>2 DEF s, u

\* The same of the next state.
LEMMA OneStageNext ==
  (Ready /\ journal.entries = <<>> /\ logs = <<>> /\ checkpoints = <<>> => Snapshots = <<Now>>)'
BY OneStage, PTL

\* No frame is open: the bottom of the stack is all of it.
LEMMA Bottom == Ready /\ checkpoints = <<>> => Snapshots = <<StageWorld(0)>>
<1> SUFFICES ASSUME Ready, checkpoints = <<>> PROVE Snapshots = <<StageWorld(0)>>
  OBVIOUS
<1> DEFINE s == Snapshots
           u == StageWorld(0)
<1>1. s \in Seq(WorldRec) /\ Len(s) = 1 /\ s[1] = u
  <2>1. Len(checkpoints) = 0 /\ 0 \in 0 .. Len(checkpoints)
    OBVIOUS
  <2> QED BY <2>1, StackIs
<1> HIDE DEF s, u
<1>2. s = <<u>>
  BY <1>1
<1> QED BY <1>2 DEF s, u

\* The same of the next state.
LEMMA BottomNext == (Ready /\ checkpoints = <<>> => Snapshots = <<StageWorld(0)>>)'
BY Bottom, PTL

\* A frame is reverted: the world is what the stack says.
LEMMA RevertedNow ==
  ASSUME Ready, CheckpointRevert
  PROVE  Now' = Snapshots[Len(Snapshots)]
<1>1. PICK m \in Nat : m = Len(checkpoints)
  BY ReadyFacts
<1>2. m # 0 /\ Point(m) = Top.journalI /\ StageLogs(m) = SubSeq(logs, 1, Top.logI)
  <2>1. m # 0
    BY <1>1, ReadyFacts DEF CheckpointRevert, FrameOpen
  <2> QED BY <1>1, <2>1, Zenon DEF Point, StageLogs, Top
<1>3. Snapshots[Len(Snapshots)] = StageWorld(m)
  <2>1. m \in 0 .. Len(checkpoints) /\ Len(Snapshots) = m + 1
    BY <1>1, StackIs
  <2> QED BY <2>1, StackIs
<1> DEFINE j == RevertTo(journal, Top.journalI)
           l == SubSeq(logs, 1, Top.logI)
<1>4. journal' = j /\ logs' = l /\ txid' = txid /\ warmList' = warmList
  BY DEF CheckpointRevert
<1> HIDE DEF j, l
<1>5. WorldOf(journal, logs)' = WorldOf(j, l)
  BY <1>4 DEF WorldOf, IsWarm, ColdInTx, SlotColdInTx, CurrentValue, InitialValue,
              ShouldLoadFromDB, Has
<1> QED BY <1>2, <1>3, <1>5 DEF StageWorld, Now, j, l

-----------------------------------------------------------------------------
(***************************************************************************)
(* Every method does what WorldState says of it.                           *)
(***************************************************************************)
\* A method that changes the world, and opens or closes no frame.
LEMMA KeepIs ==
  ASSUME Ready, SupplyFits, [Next]_vars, txid' = txid, warmList' = warmList,
         checkpoints' = checkpoints, NEW v, NEW j, NEW l, journal' = j, logs' = l, Shows(v, j, l)
  PROVE  World!Keep(v)
<1>1. Ready'
  BY ReadyNext, Zenon
<1>2. v = Now'
  BY <1>1, NowIs
<1>3. UNCHANGED Snapshots
  BY StackSame
<1> QED BY <1>2, <1>3 DEF World!Keep

\* What holds before a method.
LEMMA Before ==
  ASSUME Ready
  PROVE  /\ Inv /\ Good(TRUE) /\ Sane(journal) /\ Shows(Now, journal, logs)
         /\ journal \in JournalRec
         /\ \A a \in Addr : AcctGood(TRUE, journal.acct[a], a)
<1>1. Inv /\ Good(TRUE)
  BY Zenon DEF Ready
<1> QED BY <1>1, SaneNow, NowShown, ReadyFacts, Zenon

\* LoadAccount makes the account warm.
LEMMA LoadAccountWorld ==
  ASSUME Ready, SupplyFits, [Next]_vars, NEW a \in Addr, LoadAccount(a)
  PROVE  World!LoadAccount(a)
<1> DEFINE k == Load(journal, a)
           v == World!Access(Now, a)
<1>1. Shows(v, k, logs)
  BY Before, WorldLoad
<1>2. journal' = k /\ logs' = logs /\ txid' = txid /\ warmList' = warmList
      /\ checkpoints' = checkpoints
  BY DEF LoadAccount, OnlyJournal
<1> HIDE DEF k, v
<1>3. World!Keep(v)
  BY <1>1, <1>2, KeepIs
<1> QED BY <1>3 DEF World!LoadAccount, v

\* TouchAccount touches the account, and brings it back if it was gone.
LEMMA TouchWorld ==
  ASSUME Ready, SupplyFits, [Next]_vars, NEW a \in Addr, Touch(a)
  PROVE  World!Touch(a)
<1> DEFINE k == TouchAccount(journal, a)
           v == World!TouchAcc(Now, a)
<1>1. journal' = k /\ logs' = logs /\ txid' = txid /\ warmList' = warmList
      /\ checkpoints' = checkpoints /\ journal.acct[a].loaded
  BY DEF Touch, OnlyJournal
<1>2. Shows(v, k, logs)
  BY <1>1, Before, WorldTouch
<1> HIDE DEF k, v
<1>3. World!Keep(v)
  BY <1>1, <1>2, KeepIs
<1> QED BY <1>3 DEF World!Touch, v

\* Log appends a log.
LEMMA AppendLogWorld ==
  ASSUME Ready, SupplyFits, [Next]_vars, NEW a \in Addr, AppendLog(a)
  PROVE  World!AppendLog(a)
<1> DEFINE v == [Now EXCEPT !.logs = Append(@, a)]
           l == Append(logs, a)
<1>1. Shows(v, journal, l)
  BY Before, ShowsLog
<1>2. journal' = journal /\ logs' = l /\ txid' = txid /\ warmList' = warmList
      /\ checkpoints' = checkpoints
  BY DEF AppendLog
<1> HIDE DEF v, l
<1>3. World!Keep(v)
  BY <1>1, <1>2, KeepIs
<1> QED BY <1>3 DEF World!AppendLog, v

\* The creator's nonce is incremented, and never past its maximum.
LEMMA BumpNonceWorld ==
  ASSUME Ready, SupplyFits, [Next]_vars, NEW a \in Addr, BumpNonce(a)
  PROVE  World!BumpNonce(a)
<1> DEFINE n == journal.acct[a].nonce
           k == Record(SetNonce(journal, a, n + 1), [kind |-> "NonceChange", addr |-> a, nonce |-> n])
           v == [Now EXCEPT !.nonce[a] = @ + 1]
<1>1. journal' = k /\ logs' = logs /\ txid' = txid /\ warmList' = warmList
      /\ checkpoints' = checkpoints /\ n < MaxNonce
  BY DEF BumpNonce, OnlyJournal
<1>2. Shows(v, k, logs)
  BY <1>1, Before, WorldBump
<1>3. Now.nonce[a] < MaxNonce
  BY <1>1, Before DEF Shows, ShowsAcct
<1> HIDE DEF k, v
<1>4. World!Keep(v)
  BY <1>1, <1>2, KeepIs
<1> QED BY <1>3, <1>4 DEF World!BumpNonce, v

\* SLoad makes the account and the slot warm.
LEMMA SLoadWorld ==
  ASSUME Ready, SupplyFits, [Next]_vars, NEW a \in Addr, NEW q \in Key, SLoad(a, q)
  PROVE  World!SLoad(a, q)
<1> DEFINE k == SLoadSlot(journal, a, q)
           v == [World!Access(Now, a) EXCEPT !.warmSlots = @ \cup {<<a, q>>}]
<1>1. journal' = k /\ logs' = logs /\ txid' = txid /\ warmList' = warmList
      /\ checkpoints' = checkpoints
      /\ (journal.acct[a].loaded => ~ColdInTx(journal, a))
  BY DEF SLoad, OnlyJournal
<1>2. Shows(v, k, logs)
  BY <1>1, Before, WorldSLoad
<1> HIDE DEF k, v
<1>3. World!Keep(v)
  BY <1>1, <1>2, KeepIs
<1> QED BY <1>3 DEF World!SLoad, v

\* What runs is not an account deleted by an earlier transaction.
LEMMA RunningLive ==
  ASSUME Ready, NEW a \in Addr, Running(a)
  PROVE  /\ journal.acct[a].loaded /\ WarmNow(journal.acct[a])
         /\ ~Marked(journal.acct[a]) \/ Doomed(journal.acct[a])
<1> DEFINE x == journal.acct[a]
<1>1. x.loaded /\ WarmNow(x) /\ (x.code # NoCode \/ CreatedNow(x)) /\ AcctGood(TRUE, x, a)
  BY Before, RunningGood, Zenon
<1> HIDE DEF x
<1>2. ~Marked(x) \/ Doomed(x)
  BY <1>1 DEF AcctGood
<1> QED BY <1>1, <1>2 DEF x

\* SStore touches the account, makes the slot warm and stores the value.
LEMMA SStoreWorld ==
  ASSUME Ready, SupplyFits, [Next]_vars, NEW a \in Addr, NEW q \in Key, NEW u \in Value,
         SStore(a, q, u)
  PROVE  World!SStore(a, q, u)
<1> DEFINE k == SStoreSlot(journal, a, q, u)
           v == [World!TouchAcc(Now, a) EXCEPT !.warmSlots = @ \cup {<<a, q>>},
                                               !.storage[a][q] = u]
<1>1. journal' = k /\ logs' = logs /\ txid' = txid /\ warmList' = warmList
      /\ checkpoints' = checkpoints /\ Running(a)
  BY DEF SStore, OnlyJournal
<1>2. Shows(v, k, logs)
  BY <1>1, Before, RunningLive, WorldSStore, Zenon
<1> HIDE DEF k, v
<1>3. World!Keep(v)
  BY <1>1, <1>2, KeepIs
<1> QED BY <1>3 DEF World!SStore, v

\* TStore stores the value for the rest of the transaction.
LEMMA TStoreWorld ==
  ASSUME Ready, SupplyFits, [Next]_vars, NEW a \in Addr, NEW q \in Key, NEW u \in Value,
         TStore(a, q, u)
  PROVE  World!TStore(a, q, u)
<1> DEFINE k == TStoreSlot(journal, a, q, u)
           v == [Now EXCEPT !.transient[a][q] = u]
<1>1. journal' = k /\ logs' = logs /\ txid' = txid /\ warmList' = warmList
      /\ checkpoints' = checkpoints
  BY DEF TStore, OnlyJournal
<1>2. Shows(v, k, logs)
  BY Before, WorldTStore
<1> HIDE DEF k, v
<1>3. World!Keep(v)
  BY <1>1, <1>2, KeepIs
<1> QED BY <1>3 DEF World!TStore, v

\* BalanceIncr makes the account warm, touches it and pays it.
LEMMA BalanceIncrWorld ==
  ASSUME Ready, SupplyFits, [Next]_vars, NEW a \in Addr, NEW u \in Balance, BalanceIncr(a, u)
  PROVE  World!BalanceIncr(a, u)
<1> DEFINE k == IncrBalance(journal, a, u)
           v == World!Pay(World!TouchAcc(World!Access(Now, a), a), a, u)
<1>1. journal' = k /\ logs' = logs /\ txid' = txid /\ warmList' = warmList
      /\ checkpoints' = checkpoints
  BY DEF BalanceIncr, OnlyJournal
<1>2. Shows(v, k, logs)
  BY Before, WorldIncr
<1> HIDE DEF k, v
<1>3. World!Keep(v)
  BY <1>1, <1>2, KeepIs
<1> QED BY <1>3 DEF World!BalanceIncr, v

\* Transfer moves the value, or touches the sender only if it cannot pay.
LEMMA TransferWorld ==
  ASSUME Ready, SupplyFits, [Next]_vars, NEW a \in Addr, NEW b \in Addr, NEW u \in Balance,
         Transfer(a, b, u)
  PROVE  World!Transfer(a, b, u)
<1> DEFINE k == TransferBalance(journal, a, b, u)
           w == World!Access(World!Access(Now, a), b)
           v == Transferred(w, a, b, u)
<1>1. journal' = k /\ logs' = logs /\ txid' = txid /\ warmList' = warmList
      /\ checkpoints' = checkpoints /\ u # 0
  BY DEF Transfer, OnlyJournal
<1>2. Shows(v, k, logs)
  BY <1>1, Before, WorldTransfer DEF SupplyFits
<1> HIDE DEF k, v
<1>3. World!Keep(v)
  BY <1>1, <1>2, KeepIs
<1> QED BY <1>3 DEF World!Transfer, v, Transferred, Moved

\* Selfdestruct pays the target, and dooms the account if EIP-6780 allows it.
LEMMA SelfdestructWorld ==
  ASSUME Ready, SupplyFits, [Next]_vars, NEW a \in Addr, NEW b \in Addr, Selfdestruct(a, b)
  PROVE  World!Selfdestruct(a, b)
<1> DEFINE k == Destroy(journal, a, b)
           v == Destroyed(Now, a, b)
<1>1. journal' = k /\ logs' = logs /\ txid' = txid /\ warmList' = warmList
      /\ checkpoints' = checkpoints /\ Running(a)
  BY DEF Selfdestruct
<1>2. Shows(v, k, logs)
  BY <1>1, Before, RunningLive, WorldDestroy
<1> HIDE DEF k, v
<1>3. World!Keep(v)
  BY <1>1, <1>2, KeepIs
<1> QED BY <1>3 DEF World!Selfdestruct, v, Destroyed, Paid

\* The value moves with the creation; with SupplyFits there is no overflow.
LEMMA CreateWorld ==
  ASSUME Ready, SupplyFits, [Next]_vars, NEW b \in Addr, NEW a \in Addr, NEW u \in Balance,
         CreateAccountCheckpoint(b, a, u)
  PROVE  World!Create(b, a, u)
<1> DEFINE m == NewAccount(journal, a)
           k == Endow(m, b, a, u)
           v == Moved(Born(Now, a), b, a, u)
<1>1. /\ b # a /\ WarmNow(journal.acct[b]) /\ WarmNow(journal.acct[a])
      /\ u <= journal.acct[b].bal
      /\ SpuriousDragon \/ "Created" \notin journal.acct[a].status
      /\ ~Collides(journal, a)
      /\ UNCHANGED <<txid, warmList, logs, doomed>>
      /\ m.acct[a].bal + u > MaxBalance \/ (journal' = k /\ Enter(a))
  BY DEF CreateAccountCheckpoint, Loaded, ColdInTx, Has, WarmNow
<1>2. m.acct[a].bal + u <= MaxBalance /\ Shows(v, k, logs)
  BY <1>1, Before, WorldCreate DEF SupplyFits
<1>3. journal' = k /\ Enter(a) /\ UNCHANGED <<txid, warmList, logs, doomed>>
  <2>1. m.acct[a].bal = journal.acct[a].bal /\ journal.acct[a].bal \in Balance
    BY <1>1, Before, WorldNew DEF JournalRec, Account
  <2> HIDE DEF m, k
  <2>2. ~(m.acct[a].bal + u > MaxBalance)
    BY <1>2, <2>1, ConstantsOK DEF Balance
  <2> QED BY <1>1, <2>2
<1>4. /\ Now.code[a] = NoCode /\ Now.nonce[a] = 0 /\ \A q \in Key : Now.storage[a][q] = 0
      /\ u <= Now.bal[b]
  BY <1>1, Before, WorldUncollided DEF Shows, ShowsAcct
<1>5. Reverts(TRUE, journal, k)
  <2>1. TRUE \in BOOLEAN /\ Inv /\ Good(TRUE)
    BY Before, Zenon
  <2>2. /\ Leads(TRUE, Start, Listed, OpenFrames, journal, m) /\ Puts(journal, m, a, m.acct[a])
        /\ CreatedFrom(journal.acct[a], m.acct[a])
    BY <1>1, <2>1, GoodNow, LeadsNewAccount, Zenon
  <2> HIDE DEF m
  <2>3. m \in JournalRec /\ m.acct[b] = journal.acct[b] /\ m.acct[b].loaded
        /\ m.acct[a].loaded /\ ~Marked(m.acct[a])
    BY <1>1, <2>2 DEF Puts, Leads, Reverts, CreatedFrom, WarmNow
  <2>4. Leads(TRUE, Start, Listed, OpenFrames, journal, k)
    BY <1>1, <2>1, <2>2, <2>3, GoodNow, LeadsEndow, Zenon
  <2> QED BY <2>4, Zenon DEF Leads
<1> HIDE DEF m, k, v
<1>6. v = Now'
  <2>1. Ready'
    BY ReadyNext, Zenon
  <2>2. logs' = logs /\ txid' = txid /\ warmList' = warmList
    BY <1>3
  <2> QED BY <1>2, <1>3, <2>1, <2>2, NowIs
<1>7. Snapshots' = Append(Snapshots, Now)
  BY <1>3, <1>5, StackPushed, Zenon
<1> QED BY <1>1, <1>4, <1>6, <1>7, ZenonT(60) DEF World!Create, v, Moved, Born

\* Checkpoint pushes the world.
LEMMA CheckptWorld ==
  ASSUME Ready, SupplyFits, [Next]_vars, Checkpt
  PROVE  World!Enter
<1>1. /\ Enter(None) /\ journal' = journal /\ logs' = logs /\ txid' = txid
      /\ warmList' = warmList
  BY DEF Checkpt
<1>2. Ready' /\ Shows(Now, journal, logs)
  BY ReadyNext, Before, Zenon
<1>3. Now = Now'
  BY <1>1, <1>2, NowIs
<1>4. Reverts(TRUE, journal, journal')
  <2>1. TRUE \in BOOLEAN /\ Inv /\ Good(TRUE)
    BY Before, Zenon
  <2>2. Reverts(TRUE, journal, journal)
    BY <2>1, GoodNow, Zenon DEF Leads
  <2> QED BY <1>1, <2>2, Zenon
<1>5. Snapshots' = Append(Snapshots, Now)
  BY <1>1, <1>4, StackPushed, Zenon
<1> QED BY <1>3, <1>5 DEF World!Enter

\* CheckpointCommit drops the top snapshot.
LEMMA CommitWorld ==
  ASSUME Ready, SupplyFits, [Next]_vars, CheckpointCommit
  PROVE  World!Commit
<1>1. /\ FrameOpen /\ checkpoints' = Pop /\ journal' = journal /\ logs' = logs
      /\ txid' = txid /\ warmList' = warmList
  BY DEF CheckpointCommit, Leave
<1>2. Ready' /\ Shows(Now, journal, logs)
  BY ReadyNext, Before, Zenon
<1>3. Now = Now'
  BY <1>1, <1>2, NowIs
<1>4. Snapshots' = SubSeq(Snapshots, 1, Len(Snapshots) - 1) /\ Len(Snapshots) > 1
  BY <1>1, StackPopped
<1> QED BY <1>3, <1>4 DEF World!Commit, World!Pop

\* CheckpointRevert restores the top snapshot.
LEMMA RevertWorld ==
  ASSUME Ready, SupplyFits, [Next]_vars, CheckpointRevert
  PROVE  World!Revert
<1>1. FrameOpen /\ checkpoints' = Pop /\ txid' = txid /\ warmList' = warmList
  BY DEF CheckpointRevert, Leave
<1>2. Now' = Snapshots[Len(Snapshots)]
  BY RevertedNow
<1>3. Snapshots' = SubSeq(Snapshots, 1, Len(Snapshots) - 1) /\ Len(Snapshots) > 1
  BY <1>1, StackPopped
<1> QED BY <1>2, <1>3 DEF World!Revert, World!Pop

\* The end of a creation drops the snapshot, and no longer dooms what was created.
LEMMA FinishCreateWorld ==
  ASSUME Ready, SupplyFits, [Next]_vars, NEW c \in Code, NEW byOpcode \in BOOLEAN,
         FinishCreate(c, byOpcode)
  PROVE  \E a \in Addr : World!FinishCreate(a, c, byOpcode)
<1> DEFINE a == Top.created
           w == IF byOpcode THEN Now ELSE Spared(Now, a)
           v == Finished(w, a, c)
           k == journal'
<1>1. /\ FrameOpen /\ checkpoints' = Pop /\ logs' = logs /\ txid' = txid /\ warmList' = warmList
  BY DEF FinishCreate, Leave
<1>2. a \in Addr /\ a \in Now.created /\ Shows(v, k, logs)
  BY Before, WorldFinish
<1> HIDE DEF a, v, k
<1>3. Ready' /\ journal' = k
  BY ReadyNext, Zenon DEF k
<1>4. v = Now'
  BY <1>1, <1>2, <1>3, NowIs
<1>5. Snapshots' = SubSeq(Snapshots, 1, Len(Snapshots) - 1) /\ Len(Snapshots) > 1
  BY <1>1, StackPopped
<1>6. World!FinishCreate(a, c, byOpcode)
  BY <1>2, <1>4, <1>5 DEF World!FinishCreate, World!Pop, v, Finished, Spared
<1> QED BY <1>2, <1>6

\* What the access list warms.
Warmed(w, l) == [w EXCEPT !.warm = @ \cup l.addrs, !.warmSlots = @ \cup l.slots]

\* The world whose access list is warm shows the same journal.
LEMMA ShowsWarmed ==
  ASSUME NEW w, NEW j, NEW l, NEW L \in AccessList, Shows(w, j, l),
         warmList = NoWarmList, warmList' = L, txid' = txid
  PROVE  Shows(Warmed(w, L), j, l)'
<1> DEFINE v == Warmed(w, L)
<1>1. w \in WorldRec /\ L.addrs \subseteq Addr /\ L.slots \subseteq Addr \X Key
  BY DEF Shows, AccessList
<1>2. w.warm \cup L.addrs \in SUBSET Addr /\ w.warmSlots \cup L.slots \in SUBSET (Addr \X Key)
  BY <1>1 DEF WorldRec
<1>3. /\ v \in WorldRec
      /\ v.warm = w.warm \cup L.addrs /\ v.warmSlots = w.warmSlots \cup L.slots
      /\ v.bal = w.bal /\ v.nonce = w.nonce /\ v.code = w.code /\ v.storage = w.storage
      /\ v.transient = w.transient /\ v.touched = w.touched /\ v.created = w.created
      /\ v.doomed = w.doomed /\ v.gone = w.gone /\ v.logs = w.logs
  BY <1>1, <1>2, Zenon DEF WorldRec, Warmed
<1> HIDE DEF v
<1>4. ASSUME NEW a \in Addr PROVE ShowsAcct(v, j.acct[a], a)'
  BY <1>3 DEF Shows, ShowsAcct, IsWarm, NoWarmList, WarmNow, CreatedNow, Doomed, Marked
<1>5. ASSUME NEW a \in Addr, NEW q \in Key PROVE ShowsSlot(v, j.acct[a], j.slot[a][q], a, q)'
  BY <1>3 DEF Shows, ShowsSlot, IsStorageWarm, NoWarmList, SlotWarm, SlotValue
<1>6. v \in WorldRec /\ v.transient = j.transient /\ v.logs = l
  BY <1>3 DEF Shows
<1>7. Shows(v, j, l)'
  BY <1>4, <1>5, <1>6 DEF Shows
<1> QED BY <1>7 DEF v

\* What shows the journal the transaction began with is the bottom of the stack.
LEMMA StartShown ==
  Ready => LET r == RevertTo(journal, 0)
           IN  Shows(StageWorld(0), r, <<>>) /\ \A v : Shows(v, r, <<>>) => v = StageWorld(0)
<1> SUFFICES ASSUME Ready
             PROVE  LET r == RevertTo(journal, 0)
                    IN  /\ Shows(StageWorld(0), r, <<>>)
                        /\ \A v : Shows(v, r, <<>>) => v = StageWorld(0)
  OBVIOUS
<1> DEFINE r == RevertTo(journal, 0)
           l == <<>>
<1>1. StageWorld(0) = WorldOf(r, l)
  BY DEF StageWorld, StageLogs, Point
<1>2. /\ r \in JournalRec /\ l \in Seq(Addr) /\ warmList \in AccessList
      /\ \A a \in Addr : AcctGood(TRUE, r.acct[a], a)
  <2>1. 0 \in 0 .. Len(checkpoints) /\ Point(0) = 0
    BY ReadyFacts DEF Point
  <2>2. r \in JournalRec /\ \A a \in Addr : AcctGood(TRUE, r.acct[a], a)
    <3>1. r = RevertTo(journal, Point(0))
      BY <2>1
    <3> HIDE DEF r
    <3> QED BY <2>1, <3>1, ReadyFacts, Zenon
  <2>3. l \in Seq(Addr)
    OBVIOUS
  <2> QED BY <2>2, <2>3, ReadyFacts, Zenon
<1> HIDE DEF r, l
<1>3. Shows(WorldOf(r, l), r, l)
  BY <1>2, WorldShows, Zenon
<1>4. ASSUME NEW v, Shows(v, r, l) PROVE v = WorldOf(r, l)
  BY <1>2, <1>4, ShownIsWorld, Zenon
<1> QED BY <1>1, <1>3, <1>4 DEF r, l

\* The same of the next state.
LEMMA StartShownNext ==
  (Ready => LET r == RevertTo(journal, 0)
            IN  Shows(StageWorld(0), r, <<>>) /\ \A v : Shows(v, r, <<>>) => v = StageWorld(0))'
BY StartShown, PTL

\* The access list is warm in the current world.
LEMMA NowWarmed ==
  ASSUME Ready', NEW w, NEW j, NEW l, NEW L \in AccessList, Shows(w, j, l),
         warmList = NoWarmList, warmList' = L, txid' = txid, journal' = j, logs' = l
  PROVE  Now' = Warmed(w, L)
<1>1. Shows(Warmed(w, L), j, l)'
  BY ShowsWarmed
<1> DEFINE v == Warmed(w, L)
<1> HIDE DEF v
<1>2. Shows(v, journal, logs)'
  BY <1>1 DEF v
<1> QED BY <1>2, NowShownNext DEF v

\* The access list is warm in the world the transaction started from.
LEMMA StartWarmed ==
  ASSUME Ready', NEW w, NEW j, NEW L \in AccessList, Shows(w, RevertTo(j, 0), <<>>),
         warmList = NoWarmList, warmList' = L, txid' = txid, journal' = j
  PROVE  StageWorld(0)' = Warmed(w, L)
<1> DEFINE v == Warmed(w, L)
           r == RevertTo(j, 0)
           l == <<>>
<1>1. Shows(v, r, l)'
  <2> HIDE DEF r, l
  <2>1. Shows(Warmed(w, L), r, l)'
    BY ShowsWarmed DEF r, l
  <2> QED BY <2>1
<1> HIDE DEF v
<1>2. Shows(v, RevertTo(journal, 0), <<>>)'
  BY <1>1
<1> QED BY <1>2, StartShownNext DEF v

\* The access list is warm, now and in the world the transaction started from.
LEMMA WarmAccessListWorld ==
  ASSUME Ready, SupplyFits, [Next]_vars, NEW L \in AccessLists, WarmAccessList(L)
  PROVE  World!WarmAccessList(L)
<1>1. /\ checkpoints = <<>> /\ checkpoints' = checkpoints /\ warmList = NoWarmList
      /\ warmList' = L /\ txid' = txid /\ journal' = journal /\ logs' = logs
  BY DEF WarmAccessList, FrameOpen
<1>2. L \in AccessList /\ Ready'
  BY ReadyNext, ConstantsOK, Zenon
<1>3. Now' = Warmed(Now, L)
  BY <1>1, <1>2, Before, NowWarmed
<1> DEFINE w == StageWorld(0)
<1>4. StageWorld(0)' = Warmed(w, L)
  <2>1. Shows(w, RevertTo(journal, 0), <<>>)
    BY StartShown
  <2> HIDE DEF w
  <2> QED BY <1>1, <1>2, <2>1, StartWarmed
<1>5. Snapshots = <<w>> /\ Snapshots' = <<StageWorld(0)'>>
  BY <1>1, <1>2, Bottom, BottomNext
<1> HIDE DEF w
<1>6. Len(Snapshots) = 1 /\ Snapshots[1] = w
  BY <1>5
<1> QED BY <1>3, <1>4, <1>5, <1>6 DEF World!WarmAccessList, Warmed

-----------------------------------------------------------------------------
(***************************************************************************)
(* The end of a transaction.                                               *)
(***************************************************************************)
\* The journal k is j, its transaction over.
Cleaned(j, k) ==
  /\ k.transient = [a \in Addr |-> [q \in Key |-> 0]]
  /\ \A a \in Addr :
       LET x == j.acct[a]
           y == k.acct[a]
       IN  IF Doomed(x)
             THEN /\ y.bal = 0 /\ y.nonce = 0 /\ y.code = NoCode
                  /\ Cleared(y) /\ ~Doomed(y) /\ (Marked(y) <=> Marked(x))
                  /\ "Touched" \in y.status <=> "Touched" \in x.status
                  /\ k.slot[a] = NoStorage
             ELSE y = x /\ k.slot[a] = j.slot[a]

\* What the world has settled to shows what the journal was cleaned to.
LEMMA ShowsSettled ==
  ASSUME NEW w, NEW j \in JournalRec, NEW l, NEW k, Shows(w, j, l), Cleaned(j, k),
         \A a \in Addr : AcctGood(TRUE, j.acct[a], a), Settled(TRUE, k), txid \in Nat,
         txid' = txid + 1, warmList' = NoWarmList
  PROVE  Shows(World!Settled(w), k, <<>>)'
<1> DEFINE v == World!Settled(w)
           Reset(f, z) == [a \in Addr |-> IF a \in w.doomed THEN z ELSE f[a]]
           zeros == [q \in Key |-> 0]
<1>1. /\ w \in WorldRec /\ Precompiles \subseteq Addr /\ 0 \in Balance /\ 0 \in Nonce
      /\ NoCode \in Code /\ zeros \in [Key -> Value]
  BY ConstantsOK DEF Shows, Balance, Nonce
<1>2. /\ Reset(w.bal, 0) \in [Addr -> Balance] /\ Reset(w.nonce, 0) \in [Addr -> Nonce]
      /\ Reset(w.code, NoCode) \in [Addr -> Code]
      /\ Reset(w.storage, zeros) \in [Addr -> [Key -> Value]]
      /\ [a \in Addr |-> zeros] \in [Addr -> [Key -> Value]]
      /\ w.gone \cup w.doomed \in SUBSET Addr
  <2> HIDE DEF zeros
  <2> QED BY <1>1 DEF WorldRec
<1>3. <<>> \in Seq(Addr)
  OBVIOUS
<1>4. /\ v.bal = Reset(w.bal, 0) /\ v.nonce = Reset(w.nonce, 0)
      /\ v.code = Reset(w.code, NoCode) /\ v.storage = Reset(w.storage, zeros)
      /\ v.transient = [a \in Addr |-> zeros] /\ v.warm = Precompiles /\ v.warmSlots = {}
      /\ v.touched = w.touched /\ v.created = {} /\ v.gone = w.gone \cup w.doomed
      /\ v.doomed = {} /\ v.logs = <<>>
  BY <1>1 DEF WorldRec, World!Settled
<1>5. v \in WorldRec
  <2>1. v = [w EXCEPT !.bal = Reset(w.bal, 0), !.nonce = Reset(w.nonce, 0),
                !.code = Reset(w.code, NoCode), !.storage = Reset(w.storage, zeros),
                !.transient = [a \in Addr |-> zeros], !.warm = Precompiles, !.warmSlots = {},
                !.created = {}, !.gone = w.gone \cup w.doomed, !.doomed = {}, !.logs = <<>>]
    BY DEF World!Settled
  <2> HIDE DEF v, Reset, zeros
  <2> QED BY <1>1, <1>2, <1>3, <2>1, Zenon DEF WorldRec
<1> HIDE DEF v
<1>6. ASSUME NEW a \in Addr
      PROVE  /\ v.bal[a] = k.acct[a].bal /\ v.nonce[a] = k.acct[a].nonce
             /\ v.code[a] = k.acct[a].code /\ ~Doomed(k.acct[a])
             /\ a \in v.touched <=> "Touched" \in k.acct[a].status /\ a \notin Sticky
             /\ a \in v.gone <=> Marked(k.acct[a])
             /\ \A q \in Key : v.storage[a][q] = SlotValue(k.acct[a], k.slot[a][q], a, q)
  <2>1. CASE Doomed(j.acct[a])
    <3>1. a \in w.doomed /\ Marked(j.acct[a])
      BY <2>1 DEF Shows, ShowsAcct, AcctGood
    <3>2. \A q \in Key : SlotValue(k.acct[a], k.slot[a][q], a, q) = 0 /\ zeros[q] = 0
      BY <2>1 DEF Cleaned, SlotValue, NoStorage, NoSlot, Cleared
    <3>3. /\ v.bal[a] = 0 /\ v.nonce[a] = 0 /\ v.code[a] = NoCode /\ v.storage[a] = zeros
          /\ a \in v.gone
      BY <1>4, <3>1
    <3> HIDE DEF zeros
    <3> QED BY <1>4, <2>1, <3>1, <3>2, <3>3 DEF Cleaned, Shows, ShowsAcct
  <2>2. CASE ~Doomed(j.acct[a])
    <3>1. a \notin w.doomed /\ k.acct[a] = j.acct[a] /\ k.slot[a] = j.slot[a]
      BY <2>2 DEF Shows, ShowsAcct, Cleaned
    <3>2. /\ v.bal[a] = w.bal[a] /\ v.nonce[a] = w.nonce[a] /\ v.code[a] = w.code[a]
          /\ v.storage[a] = w.storage[a] /\ v.touched = w.touched
          /\ a \in v.gone <=> a \in w.gone
      BY <1>4, <3>1
    <3>3. ShowsAcct(w, j.acct[a], a)
      BY DEF Shows
    <3>4. \A q \in Key : w.storage[a][q] = SlotValue(j.acct[a], j.slot[a][q], a, q)
      BY Zenon DEF Shows, ShowsSlot
    <3> HIDE DEF Reset, zeros
    <3> QED BY <2>2, <3>1, <3>2, <3>3, <3>4 DEF ShowsAcct
  <2> QED BY <2>1, <2>2
<1>7. \A a \in Addr : k.acct[a].tx # txid' /\ \A q \in Key : k.slot[a][q].tx # txid'
  <2>1. \A a \in Addr : k.acct[a].tx \in Nat /\ \A q \in Key : k.slot[a][q].tx \in Nat
    BY DEF Settled, JournalRec, Account, Slot
  <2> QED BY <2>1 DEF Settled
<1>8. ASSUME NEW a \in Addr PROVE ShowsAcct(v, k.acct[a], a)'
  BY <1>4, <1>6, <1>7 DEF ShowsAcct, IsWarm, NoWarmList, WarmNow, CreatedNow, Doomed, Marked
<1>9. ASSUME NEW a \in Addr, NEW q \in Key PROVE ShowsSlot(v, k.acct[a], k.slot[a][q], a, q)'
  BY <1>4, <1>6, <1>7 DEF ShowsSlot, IsStorageWarm, NoWarmList, SlotWarm, SlotValue
<1>10. v \in WorldRec /\ v.transient = k.transient /\ v.logs = <<>>
  BY <1>4, <1>5 DEF Cleaned
<1>11. Shows(v, k, <<>>)'
  BY <1>8, <1>9, <1>10 DEF Shows
<1> QED BY <1>11 DEF v

\* Ending a transaction settles the world, and the stack has no other.
LEMMA EndTxWorld ==
  ASSUME Ready, Ready', NEW w, NEW j \in JournalRec, NEW l, NEW k, Shows(w, j, l), Cleaned(j, k),
         \A a \in Addr : AcctGood(TRUE, j.acct[a], a), Settled(TRUE, k),
         NextTx, journal' = k
  PROVE  World!EndTx(w)
<1>1. /\ txid' = txid + 1 /\ warmList' = NoWarmList /\ logs' = <<>> /\ checkpoints' = <<>>
      /\ k.entries = <<>>
  BY DEF NextTx, FrameOpen, Settled
<1>2. txid \in Nat
  BY DEF Ready, Inv, TypeOK
<1>3. Shows(World!Settled(w), k, <<>>)'
  BY <1>1, <1>2, ShowsSettled, Zenon
<1> DEFINE v == World!Settled(w)
<1> HIDE DEF v
<1>4. Shows(v, journal, logs)'
  BY <1>1, <1>3 DEF v
<1>5. Now' = v
  BY <1>4, NowShownNext
<1>6. Snapshots' = <<Now'>>
  BY <1>1, OneStageNext
<1> QED BY <1>5, <1>6 DEF World!EndTx, v

\* CommitTx deletes what is doomed, and no more.
LEMMA CommitCleans ==
  ASSUME Ready
  PROVE  Cleaned(journal, NoTransient(Finalized(journal)))
<1> DEFINE j == journal
           k == NoTransient(Finalized(j))
           gone == {a \in Addr : /\ Has(j, a, "SelfDestructLocal")
                                 /\ \E i \in DOMAIN doomed : doomed[i] = a}
           Deleted(a) == Unmark(Wipe(j, a), a, {"SelfDestructLocal"}).acct[a]
<1>0. Inv /\ Good(TRUE) /\ TRUE \in BOOLEAN
  BY Before, Zenon
<1>1. j \in JournalRec /\ doomed \in Seq(Addr)
  BY <1>0, GoodNow, Zenon
<1>2. /\ \A a \in Addr : k.acct[a] = IF a \in gone THEN Deleted(a) ELSE j.acct[a]
      /\ \A a \in Addr : k.slot[a] = IF a \in gone THEN NoStorage ELSE j.slot[a]
      /\ k.transient = [a \in Addr |-> [q \in Key |-> 0]]
  BY <1>1 DEF NoTransient, Finalized, JournalRec
<1>3. \A a \in Addr : Doomed(j.acct[a]) <=> a \in gone
  <2>1. \A i \in 1 .. Len(doomed) : i \in DOMAIN doomed
    BY <1>1
  <2>2. ListGood(j, ListedIn(doomed, Len(doomed)))
    BY <1>0, GoodNow, Zenon DEF Sound, Listed
  <2> QED BY <2>1, <2>2 DEF ListGood, ListedIn, Doomed, Has
<1>4. ASSUME NEW a \in Addr
      PROVE  LET x == j.acct[a]
                 y == Deleted(a)
             IN  /\ y.bal = 0 /\ y.nonce = 0 /\ y.code = NoCode
                 /\ Cleared(y) /\ ~Doomed(y) /\ (Marked(y) <=> Marked(x))
                 /\ "Touched" \in y.status <=> "Touched" \in x.status
  <2>1. j.acct[a] \in Account
    BY <1>1 DEF JournalRec
  <2>2. Deleted(a) = [Emptied(j.acct[a]) EXCEPT !.status = @ \ {"SelfDestructLocal"}]
    BY <1>1, Zenon DEF Unmark, Wipe, JournalRec
  <2> HIDE DEF Deleted
  <2> QED BY <2>1, <2>2 DEF Emptied, Account, Cleared, Doomed, Marked
<1> HIDE DEF k, j, Deleted, gone
<1>5. Cleaned(j, k)
  BY <1>2, <1>3, <1>4 DEF Cleaned
<1> QED BY <1>5 DEF k, j

\* CommitTx settles the current world.
LEMMA CommitTxWorld ==
  ASSUME Ready, SupplyFits, [Next]_vars, CommitTx
  PROVE  World!CommitTx
<1> DEFINE k == NoTransient(Finalized(journal))
<1>1. /\ TRUE \in BOOLEAN /\ Ready' /\ NextTx /\ journal' = k
      /\ Shows(Now, journal, logs) /\ journal \in JournalRec
      /\ \A a \in Addr : AcctGood(TRUE, journal.acct[a], a)
  BY ReadyNext, Before, Zenon DEF CommitTx
<1>2. Settled(TRUE, k)
  BY <1>1, Before, GoodNow, CommitSettled, Zenon DEF Inv, NextTx
<1>3. Cleaned(journal, k)
  BY CommitCleans
<1> HIDE DEF k
<1>4. World!EndTx(Now)
  BY <1>1, <1>2, <1>3, EndTxWorld, Zenon
<1>5. Len(Snapshots) = 1
  <2>1. Len(checkpoints) = 0
    BY <1>1 DEF NextTx, FrameOpen
  <2> QED BY <2>1, StackIs
<1> QED BY <1>4, <1>5 DEF World!CommitTx

\* DiscardTx goes back to where the transaction began: nothing was doomed there.
LEMMA DiscardTxWorld ==
  ASSUME Ready, SupplyFits, [Next]_vars, DiscardTx
  PROVE  World!DiscardTx
<1> DEFINE r == RevertTo(journal, 0)
           k == NoTransient(r)
           w == StageWorld(0)
           l == <<>>
<1>1. /\ TRUE \in BOOLEAN /\ Inv /\ Good(TRUE) /\ Ready' /\ NextTx /\ journal' = k
      /\ journal \in JournalRec
  BY ReadyNext, Before, Zenon DEF DiscardTx
<1>2. Shows(w, r, l)
  BY StartShown
<1>3. Settled(TRUE, k)
  BY <1>1, GoodNow, DiscardSettled, Zenon DEF Good
<1>4. r \in JournalRec /\ Sound(TRUE, r, r, {}, {})
  BY <1>1, GoodNow, Zenon DEF Start
<1> HIDE DEF r
<1>5. \A a \in Addr : AcctGood(TRUE, r.acct[a], a) /\ ~Doomed(r.acct[a])
  BY <1>4, Zenon DEF Sound, StateGood, ListGood
<1>6. k.transient = [a \in Addr |-> [q \in Key |-> 0]] /\ k.acct = r.acct /\ k.slot = r.slot
  BY <1>4 DEF NoTransient, JournalRec
<1> HIDE DEF k
<1>7. Cleaned(r, k)
  BY <1>5, <1>6, Zenon DEF Cleaned
<1> HIDE DEF w, l
<1>8. World!EndTx(w)
  BY <1>1, <1>2, <1>3, <1>4, <1>5, <1>7, EndTxWorld, Zenon
<1>9. Len(Snapshots) = 1 /\ Snapshots[1] = w
  <2>1. checkpoints = <<>>
    BY <1>1 DEF NextTx, FrameOpen
  <2>2. Snapshots = <<w>>
    BY <2>1, Bottom DEF w
  <2> QED BY <2>2
<1> QED BY <1>8, <1>9 DEF World!DiscardTx

-----------------------------------------------------------------------------
(***************************************************************************)
(* The refinement.                                                         *)
(***************************************************************************)
\* The first transaction starts from what the database has.
LEMMA InitWorld ==
  ASSUME Init
  PROVE  Ready /\ World!Init
<1>1. TRUE \in BOOLEAN /\ Inv /\ Good(TRUE)
  <2>1. TRUE \in BOOLEAN
    OBVIOUS
  <2> QED BY <2>1, InitInv, InitGood, Zenon
<1>2. LogsNested
  BY DEF Init, LogsNested
<1>3. Ready
  BY <1>1, <1>2, Zenon DEF Ready
<1>4. Snapshots = <<Now>>
  BY <1>3, OneStage DEF Init
<1>5. /\ \A a \in Addr : journal.acct[a].status = {} /\ ~journal.acct[a].loaded
      /\ \A a \in Addr, q \in Key : ~journal.slot[a][q].loaded
      /\ warmList.addrs = {} /\ warmList.slots = {} /\ logs = <<>>
  BY DEF Init, NoStorage, NoSlot, NoWarmList
<1>6. Precompiles \subseteq Addr
  BY ConstantsOK
<1>7. /\ Now.warm = Precompiles /\ Now.warmSlots = {} /\ Now.touched = {} /\ Now.created = {}
      /\ Now.doomed = {} /\ Now.gone = {} /\ Now.logs = <<>>
  <2>1. /\ {a \in Addr : IsWarm(a) \/ (journal.acct[a].loaded /\ ~ColdInTx(journal, a))}
              = Precompiles
        /\ \A F : {a \in Addr : F \in journal.acct[a].status} = {}
    BY <1>5, <1>6 DEF IsWarm
  <2>2. {s \in Addr \X Key :
           \/ s \in warmList.slots
           \/ journal.slot[s[1]][s[2]].loaded /\ ~SlotColdInTx(journal, s[1], s[2])} = {}
    <3>1. \A s \in Addr \X Key : ~journal.slot[s[1]][s[2]].loaded /\ s \notin warmList.slots
      BY <1>5
    <3> QED BY <3>1
  <2> QED BY <1>5, <2>1, <2>2 DEF Now, WorldOf
<1> QED BY <1>3, <1>4, <1>7 DEF World!Init

\* Every step of the journal is one of the world, or none.
LEMMA NextWorld ==
  ASSUME Ready, SupplyFits, [Next]_vars
  PROVE  [World!Next]_<<Now, Snapshots>>
<1>1. Amount \subseteq Balance
  BY ConstantsOK
<1>2. CASE FrameSteps
  BY <1>2, CheckptWorld, CommitWorld, RevertWorld DEF FrameSteps, World!Next
<1>3. CASE TxSteps
  BY <1>3, WarmAccessListWorld, CommitTxWorld, DiscardTxWorld DEF TxSteps, World!Next
<1>4. CASE AccountSteps
  BY <1>4, LoadAccountWorld, TouchWorld, AppendLogWorld, BumpNonceWorld
     DEF AccountSteps, World!Next
<1>5. CASE StorageSteps
  BY <1>5, SLoadWorld, SStoreWorld, TStoreWorld DEF StorageSteps, World!Next
<1>6. CASE BalanceSteps
  BY <1>1, <1>6, BalanceIncrWorld, TransferWorld DEF BalanceSteps, World!Next
<1>7. CASE LifecycleSteps
  BY <1>1, <1>7, SelfdestructWorld, CreateWorld, FinishCreateWorld
     DEF LifecycleSteps, World!Next
<1>8. CASE UNCHANGED vars
  <2>1. /\ journal' = journal /\ logs' = logs /\ txid' = txid /\ warmList' = warmList
        /\ checkpoints' = checkpoints
    BY <1>8 DEF vars
  <2>2. Ready' /\ Shows(Now, journal, logs)
    BY ReadyNext, Before, Zenon
  <2>3. Now = Now'
    BY <2>1, <2>2, NowIs
  <2> QED BY <2>1, <2>3, StackSame
<1> QED BY <1>2, <1>3, <1>4, <1>5, <1>6, <1>7, <1>8 DEF Next

\* Each method of Journal does to the world of accounts, and to the snapshots of it that
\* the open frames would be reverted to, what WorldState says: entering a frame pushes the
\* world, leaving it drops its snapshot and CheckpointRevert restores it.
THEOREM JournalImplementsWorld == Spec /\ []SupplyFits => ImplementsWorld
<1>1. Init => Ready /\ World!Init
  BY InitWorld
<1>2. Ready /\ SupplyFits /\ [Next]_vars => Ready'
  BY ReadyNext, Zenon
<1>3. Ready /\ SupplyFits /\ [Next]_vars => [World!Next]_(World!vars)
  BY NextWorld DEF World!vars
<1> QED BY <1>1, <1>2, <1>3, PTL DEF Spec, ImplementsWorld, World!Spec
=============================================================================
