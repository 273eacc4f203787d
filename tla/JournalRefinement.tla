------------------------- MODULE JournalRefinement -------------------------
(***************************************************************************)
(* The undo log implements the snapshot stack, and the invariants of the   *)
(* journal that make it do so.  The snapshot a frame would be reverted to   *)
(* is not stored anywhere: it is what reverting the entries above the       *)
(* frame's checkpoint yields.                                               *)
(***************************************************************************)
EXTENDS Journal

Sticky == IF SpuriousDragon THEN {Precompile3} ELSE {}

CurrentValue(j, a, k) ==
  IF j.slot[a][k].loaded THEN j.slot[a][k].present ELSE InitialValue(j, a, k)

\* The world as the EVM sees it in a journal record.
WorldOf(j, l) ==
  LET With(F) == {a \in Addr : F \in j.acct[a].status}
  IN  [bal       |-> [a \in Addr |-> j.acct[a].bal],
       nonce     |-> [a \in Addr |-> j.acct[a].nonce],
       code      |-> [a \in Addr |-> j.acct[a].code],
       storage   |-> [a \in Addr |-> [k \in Key |-> CurrentValue(j, a, k)]],
       transient |-> j.transient,
       warm      |-> {a \in Addr : IsWarm(a) \/ (j.acct[a].loaded /\ ~ColdInTx(j, a))},
       warmSlots |-> {s \in Addr \X Key :
                        \/ s \in warmList.slots
                        \/ j.slot[s[1]][s[2]].loaded /\ ~SlotColdInTx(j, s[1], s[2])},
       touched   |-> With("Touched") \ Sticky,
       created   |-> {a \in With("CreatedLocal") : ~ColdInTx(j, a)},
       doomed    |-> With("SelfDestructLocal"),
       gone      |-> With("SelfDestructed") \ With("SelfDestructLocal"),
       logs      |-> l]

\* The refinement mapping.  The world a revert to n entries yields is chosen from the set
\* that has only it, so that TLC reverts once.
WorldAt(n, l) == CHOOSE w \in {WorldOf(j, l) : j \in {RevertTo(journal, n)}} : TRUE

Snapshot(c) == WorldAt(c.journalI, SubSeq(logs, 1, c.logI))

TxStart == WorldAt(0, <<>>)

Now == WorldOf(journal, logs)

Snapshots == <<TxStart>> \o [i \in 1 .. Len(checkpoints) |-> Snapshot(checkpoints[i])]

World == INSTANCE WorldState WITH world <- Now, stack <- Snapshots, AlwaysWarm <- Precompiles

\* Entering, leaving and reverting frames is pushing, dropping and restoring snapshots of
\* the whole world, and each method of Journal does to it what WorldState says.
ImplementsWorld == World!Spec

(***************************************************************************)
(* Type invariant.                                                          *)
(***************************************************************************)
TypeOK ==
  /\ journal \in JournalRec
  /\ txid \in Nat
  /\ warmList \in AccessList
  /\ logs \in Seq(Addr)
  /\ doomed \in Seq(Addr)
  /\ depth \in Nat
  /\ checkpoints \in Seq(Checkpoint)

(***************************************************************************)
(* Safety of the undo log and of the account flags.                        *)
(***************************************************************************)
\* The frames' checkpoints are nested prefixes of the entries, the logs and the
\* selfdestruct list, and Depth counts them (Checkpoint, Commit, Revert).
CheckpointsNested ==
  /\ depth = Len(checkpoints)
  /\ \A i \in 1 .. Len(checkpoints) :
       LET c == checkpoints[i]
           up == IF i = Len(checkpoints)
                   THEN [logI |-> Len(logs), journalI |-> Len(journal.entries),
                         doomedI |-> Len(doomed)]
                   ELSE checkpoints[i + 1]
       IN  c.logI <= up.logI /\ c.journalI <= up.journalI /\ c.doomedI <= up.doomedI

\* Revert dereferences the account and the slot an entry names without a nil check:
\* no account or slot leaves the maps while an entry of the transaction names it.
EntriesRevertible ==
  \A i \in DOMAIN journal.entries :
    LET e == journal.entries[i]
    IN  /\ journal.acct[e.addr].loaded
        /\ e.kind \in {"AccountDestroyed", "BalanceTransfer"} =>
             journal.acct[e.target].loaded
        /\ e.kind \in {"StorageWarmed", "StorageChanged"} =>
             journal.slot[e.addr][e.key].loaded

\* EIP-2200 metering: the original value of a slot accessed in this transaction is
\* its value when the transaction began, whatever was reverted and accessed again.
OriginalIsTxStart ==
  \A start \in {RevertTo(journal, 0)} :
    \A a \in Addr, k \in Key :
      journal.slot[a][k].loaded /\ ~SlotColdInTx(journal, a, k)
        => journal.slot[a][k].orig = CurrentValue(start, a, k)

\* CommitTx deletes by the list, SELFDESTRUCT marks by the flag: every marked
\* account is listed, also in the worlds the open frames would revert to.
DoomedIsListed ==
  LET Doomed(j) == {a \in Addr : Has(j, a, "SelfDestructLocal")}
      Listed(n) == {doomed[i] : i \in 1 .. n}
  IN  /\ Doomed(journal) \subseteq Listed(Len(doomed))
      /\ \A i \in 1 .. Len(checkpoints) :
           \A j \in {RevertTo(journal, checkpoints[i].journalI)} :
             Doomed(j) \subseteq Listed(checkpoints[i].doomedI)

\* loadAccountMutInternal may drop the local flags, and the storage, of an account
\* it finds cold because no cold account can have got them in this transaction.
ColdIsClean ==
  \A a \in Addr : journal.acct[a].loaded /\ ColdInTx(journal, a)
    => ~Has(journal, a, "SelfDestructLocal")

\* An account deleted by an earlier transaction stays empty, and its storage in the
\* database stays hidden, until something touches it.
GoneIsEmpty ==
  \A a \in Addr :
    LET acc == journal.acct[a]
    IN  "SelfDestructed" \in acc.status /\ "SelfDestructLocal" \notin acc.status
          => /\ acc.bal = 0 /\ acc.nonce = 0 /\ acc.code = NoCode
             /\ "StorageCleared" \in acc.status

\* EIP-6780: only an account created in this transaction is ever marked for deletion.
OnlyCreatedDoomed ==
  Cancun => \A a \in Addr : Has(journal, a, "SelfDestructLocal")
              => Has(journal, a, "CreatedLocal") /\ ~ColdInTx(journal, a)

\* "CheckpointRevert reverts all changes since the given checkpoint": no step inside a
\* frame changes the world that reverting an enclosing frame would restore.
RevertReversesAll ==
  [][txid' = txid /\ FrameOpen =>
       \A i \in DOMAIN checkpoints \cap DOMAIN checkpoints' :
         checkpoints'[i] = checkpoints[i]
           => Snapshot(checkpoints[i])' = Snapshot(checkpoints[i])]_vars

\* The EIP-161 quirk Revert keeps: once touched, address 3 stays touched.
RipemdTouchSurvives ==
  [][\A a \in Sticky \cap Addr : Has(journal, a, "Touched") => Has(journal', a, "Touched")]_vars
=============================================================================
