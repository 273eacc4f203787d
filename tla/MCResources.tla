---------------------------- MODULE MCResources ----------------------------
(***************************************************************************)
(* Small instances of Resources, three scenarios with the operations that  *)
(* matter to each, and beside them one of JournalCache.                    *)
(***************************************************************************)
EXTENDS Resources, JournalCache

CONSTANTS small, large

MCTableLen == [c \in Code |-> IF c = large THEN 2 ELSE 1]

VARIABLE scenario   \* the group of operations a behaviour uses

None == [offset |-> 0, len |-> 0]

MCInit == Init /\ CacheInit /\ scenario \in {"memory", "code", "data", "cache"}

MemoryNext ==
  /\ scenario = "memory" /\ UNCHANGED <<scenario, cacheVars>>
  /\ \/ MemorySteps
     \/ Transact(small, FALSE) \/ Return(0, 1) \/ Return(0, 0)
     \/ \E in, out \in Ranges : Call(small, FALSE, in, out)

CodeNext ==
  /\ scenario = "code" /\ UNCHANGED <<scenario, cacheVars>>
  /\ \/ CodeSteps \/ ReleaseEvm \/ Return(0, 0)
     \/ \E c \in Code, create \in BOOLEAN : Transact(c, create) \/ Call(c, create, None, None)

\* One log and two frames are enough to meet a buffer again.
DataNext ==
  /\ scenario = "data" /\ UNCHANGED <<scenario, cacheVars>>
  /\ \/ \E v \in Cell : Store(0, v)
     \/ logs = <<>> /\ Log(0, 1)
     \/ ReleaseEvm \/ Transact(small, FALSE)
     \/ Len(frames) < 2 /\ \E create \in BOOLEAN :
          Call(small, create, None, [None EXCEPT !.len = 1])
     \/ \E n \in 0 .. 1 : Return(0, n)

\* Keys that nothing remembers are interchangeable: they come in order.
Seen ==
  {k \in Key : \E m \in MapIds : maps[m][k] # 0}
    \cup {slotCache.entries[i].key : i \in DOMAIN slotCache.entries}
KeysInOrder == {k \in Key : \A l \in 1 .. k - 1 : l \in Seen}

PointersNext ==
  /\ scenario = "cache" /\ UNCHANGED <<scenario, vars>>
  /\ Manage \/ \E k \in Seen \cup KeysInOrder : Access(k)

MCSpec ==
  MCInit /\ [][MemoryNext \/ CodeNext \/ DataNext \/ PointersNext]_<<vars, cacheVars, scenario>>
=============================================================================
