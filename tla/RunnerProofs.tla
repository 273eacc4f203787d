---------------------------- MODULE RunnerProofs ----------------------------
(***************************************************************************)
(* Proofs about DefaultRunner (Runner.tla), for every program, gas table   *)
(* and limit: its state is well typed, and it implements TracingRunner's    *)
(* metering.                                                                *)
(***************************************************************************)
EXTENDS Runner, TLAPS

-----------------------------------------------------------------------------
(***************************************************************************)
(* What the bodies leave is a frame.                                       *)
(***************************************************************************)
\* RecordCost: a frame that could pay, or the given halt.
LEMMA ChargedType ==
  ASSUME NEW f \in Frame, NEW c \in Nat, NEW r \in Frame
  PROVE  Charged(f, c, r) \in Frame
BY DEF Charged, Spend, Frame

\* Halt and HaltOOG of the interpreter.
LEMMA HaltType ==
  ASSUME NEW f \in Frame
  PROVE  /\ HaltOOG(f) \in Frame
         /\ \A r \in Status : Halt(f, r) \in Frame
BY Zenon DEF HaltOOG, Halt, Frame, Status, Fault

\* Payments within the gas left, and host calls.
LEMMA SpendType ==
  ASSUME NEW f \in Frame
  PROVE  /\ \A c \in 0 .. f.gas : Spend(f, c) \in Frame
         /\ Effect(f) \in Frame
         /\ Advance(f) \in Frame
BY DEF Spend, Effect, Advance, Frame

\* opJump.
LEMMA JumpedType ==
  ASSUME NEW f \in Frame, NEW c \in Seq(Op)
  PROVE  Jumped(f, c) \subseteq Frame
<1>1. Halt(f, "InvalidJump") \in Frame
  BY HaltType DEF Status, Fault
<1>2. ASSUME NEW d \in DOMAIN c
      PROVE  [f EXCEPT !.pc = d - 1] \in Frame
  BY SMTT(30) DEF Frame
<1> QED
  BY <1>1, <1>2 DEF Jumped

\* ResizeMemory.
LEMMA ResizedType ==
  ASSUME NEW f \in Frame
  PROVE  Resized(f) \subseteq Frame
<1>1. Halt(f, "MemoryOOG") \in Frame
  BY HaltType DEF Status, Fault
<1> QED
  BY <1>1, ChargedType, OpcodesOK DEF Resized

\* opSload.
LEMMA SLoadedType ==
  ASSUME NEW f \in Frame
  PROVE  SLoaded(f) \subseteq Frame
BY SpendType, HaltType, ChargedType, OpcodesOK DEF SLoaded, Accessed

\* opSstore.
LEMMA SStoredType ==
  ASSUME NEW f \in Frame
  PROVE  SStored(f) \subseteq Frame
<1>1. f.gas \in Nat
  BY DEF Frame
<1>2. CASE f.gas <= Stipend
  <2>1. Halt(f, "ReentrancySentryOOG") \in Frame
    BY HaltType DEF Status, Fault
  <2> QED
    BY <1>2, <2>1 DEF SStored
<1>3. CASE ~(f.gas <= Stipend) /\ f.gas < SstoreStatic
  BY <1>3, HaltType DEF SStored
<1>4. CASE ~(f.gas <= Stipend) /\ ~(f.gas < SstoreStatic)
  <2>1. Spend(f, SstoreStatic) \in Frame
    BY <1>1, <1>4, SpendType, OpcodesOK
  <2> QED
    BY <1>4, <2>1, SLoadedType DEF SStored
<1> QED
  BY <1>2, <1>3, <1>4

\* opCall: what is lent was there, but for the stipend.
LEMMA LentType ==
  ASSUME NEW p \in Frame, NEW stipend \in Nat
  PROVE  Lent(p, stipend) \subseteq Frame
<1> SUFFICES ASSUME NEW g \in 0 .. p.gas
             PROVE  [Spend(p, g) EXCEPT !.lent = g + stipend, !.status = "Action"] \in Frame
  BY Zenon DEF Lent
<1>1. \A q \in Frame, h \in Nat : [q EXCEPT !.lent = h, !.status = "Action"] \in Frame
  BY Zenon DEF Frame, Status
<1>2. p.gas \in Nat
  BY DEF Frame
<1>3. g + stipend \in Nat
  BY <1>2
<1>4. Spend(p, g) \in Frame
  BY SpendType
<1> QED
  BY <1>1, <1>3, <1>4, Zenon

\* loadAccountAndCalcGas.
LEMMA OpenedType ==
  ASSUME NEW f \in Frame, NEW stipend \in Nat
  PROVE  Opened(f, stipend) \subseteq Frame
BY SLoadedType, LentType DEF Opened

\* opCall.
LEMMA CalledType ==
  ASSUME NEW f \in Frame
  PROVE  Called(f) \subseteq Frame
<1>1. Opened(f, 0) \subseteq Frame /\ HaltOOG(f) \in Frame
  BY OpenedType, HaltType
<1>2. CASE f.gas < TransferCost
  BY <1>1, <1>2 DEF Called
<1>3. CASE ~(f.gas < TransferCost)
  <2>1. TransferCost \in 0 .. f.gas
    BY <1>3, OpcodesOK DEF Frame
  <2>2. Spend(f, TransferCost) \in Frame
    BY <2>1, SpendType
  <2>3. Opened(Spend(f, TransferCost), Stipend) \subseteq Frame
    BY <2>2, OpenedType, OpcodesOK
  <2> QED
    BY <1>1, <1>3, <2>3 DEF Called
<1> QED
  BY <1>2, <1>3

\* Every instruction.
LEMMA BodyType ==
  ASSUME NEW op \in Op, NEW f \in Frame, NEW c \in Seq(Op)
  PROVE  Body(op, f, c) \subseteq Frame
<1>1. CASE op \in Accumulated \cup {"JUMPDEST"}
  BY <1>1 DEF Body, Accumulated
<1>2. CASE op \in {"STOP", "INVALID"}
  BY <1>2, HaltType DEF Body, Accumulated, Status, Fault
<1>3. CASE op = "RETURN"
  <2>1. \A x \in Resized(f) : Halt(x, "Return") \in Frame /\ x \in Frame
    BY ResizedType, HaltType, Zenon DEF Status
  <2>2. Body(op, f, c) = {IF x.status = "Running" THEN Halt(x, "Return") ELSE x :
                            x \in Resized(f)}
    BY <1>3 DEF Body, Accumulated
  <2> QED
    BY <2>1, <2>2
<1>4. CASE op = "JUMP"
  BY <1>4, JumpedType DEF Body, Accumulated
<1>5. CASE op = "GAS"
  <2>1. [f EXCEPT !.seen = f.gas] \in Frame
    BY DEF Frame
  <2> QED
    BY <1>5, <2>1 DEF Body, Accumulated
<1>6. CASE op = "MSTORE"
  BY <1>6, ResizedType DEF Body, Accumulated
<1>7. CASE op = "SLOAD"
  BY <1>7, SLoadedType DEF Body, Accumulated
<1>8. CASE op = "SSTORE"
  BY <1>8, SStoredType DEF Body, Accumulated
<1>9. CASE op = "CALL"
  BY <1>9, CalledType DEF Body, Accumulated
<1> QED
  BY <1>1, <1>2, <1>3, <1>4, <1>5, <1>6, <1>7, <1>8, <1>9 DEF Op, Immediate

\* Execute: the fork gate, the stack checks and the body.
LEMMA ExecuteType ==
  ASSUME NEW op \in Op, NEW f \in Frame, NEW c \in Seq(Op)
  PROVE  Execute(op, f, c) \subseteq Frame
<1>1. \A r \in Fault : Halt(f, r) \in Frame
  BY HaltType, Zenon DEF Status
<1>2. ASSUME ~Underflow(op, f)
      PROVE  Operate(op, f) \in Frame
  <2>1. f.top \in Nat /\ Needs[op] \in Nat /\ Gives[op] \in Nat /\ Needs[op] <= f.top
    BY <1>2, OpcodesOK DEF Underflow, Frame
  <2>2. f.top - Needs[op] + Gives[op] \in Nat
    BY <2>1
  <2>3. \A n \in Nat : [f EXCEPT !.top = n] \in Frame
    BY DEF Frame
  <2> QED
    BY <2>2, <2>3 DEF Operate
<1> QED
  BY <1>1, <1>2, BodyType DEF Execute, Fault

\* The instruction at the program counter; beyond the code it is STOP.
LEMMA FetchType ==
  ASSUME NEW f \in Frame, NEW c \in Seq(Op)
  PROVE  Fetch(c, f) \in Op
BY DEF Fetch, Frame, Op, Immediate

\* The flush pays what is there.
LEMMA FlushType ==
  ASSUME NEW f \in Frame, NEW k \in Nat
  PROVE  Flush(f, k) \in Frame
<1>1. f.gas \in Nat
  BY DEF Frame
<1>2. k \in 0 .. f.gas \/ f.gas < k
  BY <1>1
<1> QED
  BY <1>1, <1>2, HaltType, SpendType DEF Flush

-----------------------------------------------------------------------------
(***************************************************************************)
(* Type correctness.                                                       *)
(***************************************************************************)
\* A new frame.
LEMMA InitType == Init => TypeOK
BY InputsOK DEF Init, TypeOK, NewFrame, Frame, Status

\* Every step of the loop.
LEMMA NextType == TypeOK /\ [Next]_vars => TypeOK'
<1> SUFFICES ASSUME TypeOK, [Next]_vars
             PROVE  TypeOK'
  OBVIOUS
<1> DEFINE op == Fetch(code, frame)
           k == gasCounter + Cost[op]
<1>1. op \in Op /\ k \in Nat /\ Advance(frame) \in Frame
  BY FetchType, SpendType, OpcodesOK, SMTT(30) DEF TypeOK
<1> HIDE DEF op, k
<1>2. CASE Accumulate
  <2>1. PICK f \in Execute(op, Advance(frame), code) :
          IF f.status = "Running"
            THEN frame' = f /\ gasCounter' = k
            ELSE frame' = Flush(f, k) /\ gasCounter' = 0
    BY <1>2 DEF Accumulate, op, k
  <2>2. f \in Frame
    BY <1>1, ExecuteType DEF TypeOK
  <2>3. code' = code
    BY <1>2 DEF Accumulate
  <2> QED
    BY <1>1, <2>1, <2>2, <2>3, FlushType DEF TypeOK
<1>3. CASE FlushAndRun
  <2> DEFINE paid == Flush(Advance(frame), k)
  <2>1. paid \in Frame
    BY <1>1, FlushType
  <2>2. frame' \in IF paid.status = "OutOfGas" THEN {paid} ELSE Execute(op, paid, code)
    BY <1>3 DEF FlushAndRun, op, k
  <2> HIDE DEF paid
  <2>3. frame' \in Frame
    BY <1>1, <2>1, <2>2, ExecuteType DEF TypeOK
  <2> QED
    BY <1>3, <2>3 DEF FlushAndRun, TypeOK
<1>4. CASE Resume
  <2>1. Resumed(frame) \subseteq Frame
    <3> SUFFICES ASSUME NEW g \in 0 .. frame.lent
                 PROVE  [frame EXCEPT !.gas = @ + g, !.lent = 0, !.status = "Running"] \in Frame
      BY ZenonT(60) DEF Resumed
    <3>1. frame.lent \in Nat /\ frame.gas \in Nat
      BY DEF TypeOK, Frame
    <3>2. frame.gas + g \in Nat
      BY <3>1
    <3>3. \A n \in Nat : [frame EXCEPT !.gas = n, !.lent = 0, !.status = "Running"] \in Frame
      BY Zenon DEF TypeOK, Frame, Status
    <3> QED
      BY <3>2, <3>3, Zenon
  <2> QED
    BY <1>4, <2>1 DEF Resume, TypeOK
<1>5. CASE UNCHANGED vars
  BY <1>5 DEF vars, TypeOK
<1> QED
  BY <1>2, <1>3, <1>4, <1>5 DEF Next

\* The gas a frame has left and the counter never go below zero, and nothing is
\* in the counter when Run has returned.
THEOREM RunnerTypeCorrect == Spec => []TypeOK
BY InitType, NextType, PTL DEF Spec

-----------------------------------------------------------------------------
(***************************************************************************)
(* DefaultRunner implements TracingRunner.  What an instruction that only  *)
(* accumulates does is the same before and after the counter is paid.       *)
(***************************************************************************)
\* Exact is Metered with the same instructions.
LEMMA SameOperators ==
  /\ \A g : Exact!NewFrame(g) = NewFrame(g)
  /\ \A c, f : Exact!Fetch(c, f) = Fetch(c, f)
  /\ \A f : Exact!Advance(f) = Advance(f)
  /\ \A f : Exact!HaltOOG(f) = HaltOOG(f)
  /\ \A f, c : Exact!Spend(f, c) = Spend(f, c)
  /\ \A f : Exact!Resumed(f) = Resumed(f)
BY DEF Exact!NewFrame, NewFrame, Exact!Fetch, Fetch, Exact!Advance, Advance, Exact!HaltOOG,
       HaltOOG, Exact!Spend, Spend, Exact!Resumed, Resumed

\* Exact runs the same bodies.
LEMMA SameExecute ==
  ASSUME NEW op, NEW f, NEW c
  PROVE  Exact!Execute(op, f, c) = Execute(op, f, c)
BY DEF Exact!Execute, Execute, Exact!Body, Body, Exact!Called, Called, Exact!Opened, Opened,
       Exact!Lent, Lent, Exact!SStored, SStored, Exact!SLoaded, SLoaded, Exact!Accessed, Accessed,
       Exact!Resized, Resized, Exact!Jumped, Jumped, Exact!Effect,
       Effect, Exact!Operate, Operate, Exact!Overflow, Overflow, Exact!Underflow, Underflow,
       Exact!Charged, Charged, Exact!HaltOOG, HaltOOG, Exact!Spend, Spend, Exact!Halt, Halt,
       Exact!Accumulated, Accumulated

\* A payment commutes with everything that does not look at the gas.
LEMMA SpendCommutes ==
  ASSUME NEW f \in Frame, NEW k \in Nat
  PROVE  /\ Advance(Spend(f, k)) = Spend(Advance(f), k)
         /\ \A r : Halt(Spend(f, k), r) = Spend(Halt(f, r), k)
         /\ \A op : Operate(op, Spend(f, k)) = Spend(Operate(op, f), k)
         /\ \A op : Underflow(op, Spend(f, k)) = Underflow(op, f)
         /\ \A op : Overflow(op, Spend(f, k)) = Overflow(op, f)
         /\ \A c : Fetch(c, Spend(f, k)) = Fetch(c, f)
BY Zenon DEF Advance, Spend, Halt, Operate, Underflow, Overflow, Fetch, Frame

\* An instruction that accumulates leaves one frame, which the payment does not
\* change, and which is not one that is out of gas.
LEMMA AccumulatedCommutes ==
  ASSUME NEW op \in Accumulated, NEW f \in Frame, f.status = "Running", NEW c,
         NEW k \in Nat, NEW x \in Execute(op, f, c)
  PROVE  /\ Spend(x, k) \in Execute(op, Spend(f, k), c)
         /\ x.gas = f.gas
         /\ x.status \notin {"OutOfGas", "Action"}
         /\ HaltOOG(x) = HaltOOG(f)
<1> DEFINE r == IF op \in Inactive THEN "NotActivated"
                  ELSE IF Underflow(op, f)
                    THEN IF op = "DUP1" THEN "StackOverflow" ELSE "StackUnderflow"
                  ELSE "StackOverflow"
           stops == op \in Inactive \/ Underflow(op, f) \/ Overflow(op, f)
<1>1. \A g : Body(op, g, c) = {g}
  BY DEF Body, Accumulated
<1>2. CASE stops
  <2>1. Execute(op, f, c) = {Halt(f, r)}
    BY <1>2 DEF Execute
  <2>2. Execute(op, Spend(f, k), c) = {Halt(Spend(f, k), r)}
    BY <1>2, SpendCommutes DEF Execute
  <2>3. HaltOOG(Halt(f, r)) = HaltOOG(f) /\ Halt(f, r).gas = f.gas /\ Halt(f, r).status = r
    BY Zenon DEF HaltOOG, Halt, Frame
  <2> QED
    BY <2>1, <2>2, <2>3, SpendCommutes
<1>3. CASE ~stops
  <2>1. Execute(op, f, c) = {Operate(op, f)}
    BY <1>1, <1>3 DEF Execute
  <2>2. Execute(op, Spend(f, k), c) = {Operate(op, Spend(f, k))}
    BY <1>1, <1>3, SpendCommutes DEF Execute
  <2>3. HaltOOG(Operate(op, f)) = HaltOOG(f) /\ Operate(op, f).gas = f.gas
        /\ Operate(op, f).status = f.status
    BY Zenon DEF HaltOOG, Operate, Frame
  <2> QED
    BY <2>1, <2>2, <2>3, SpendCommutes
<1> QED
  BY <1>2, <1>3

\* The flush either pays or leaves what is out of gas.
LEMMA FlushCases ==
  ASSUME NEW f \in Frame, NEW k \in Nat
  PROVE  /\ f.gas < k => Flush(f, k) = HaltOOG(f)
         /\ ~(f.gas < k) => Flush(f, k) = Spend(f, k)
         /\ Flush(f, 0) = f
         /\ Spend(f, k).status = f.status /\ Spend(f, k).gas = f.gas - k
         /\ HaltOOG(f).status = "OutOfGas"
         /\ HaltOOG(Advance(f)) = HaltOOG(f) /\ HaltOOG(Spend(f, k)) = HaltOOG(f)
         /\ Advance(f).status = f.status /\ Advance(f).gas = f.gas
<1>1. f.gas \in Nat
  BY DEF Frame
<1>2. Spend(f, 0) = f
  <2>1. f.gas - 0 = f.gas
    BY <1>1
  <2>2. [f EXCEPT !.gas = f.gas] = f
    BY DEF Frame
  <2> QED
    BY <2>1, <2>2 DEF Spend
<1>3. Flush(f, 0) = f
  BY <1>1, <1>2 DEF Flush
<1>4. HaltOOG(Advance(f)) = HaltOOG(f) /\ HaltOOG(Spend(f, k)) = HaltOOG(f)
  BY Zenon DEF HaltOOG, Advance, Spend, Frame
<1>5. /\ Spend(f, k).status = f.status /\ Spend(f, k).gas = f.gas - k
      /\ HaltOOG(f).status = "OutOfGas"
      /\ Advance(f).status = f.status /\ Advance(f).gas = f.gas
  BY DEF Spend, HaltOOG, Advance, Frame
<1> QED
  BY <1>3, <1>4, <1>5 DEF Flush

\* Two payments are one.
LEMMA SpendTwice ==
  ASSUME NEW f \in Frame, NEW k \in Nat, NEW n \in Nat
  PROVE  Spend(Spend(f, k), n) = Spend(f, k + n)
<1>1. f.gas - k - n = f.gas - (k + n)
  BY DEF Frame
<1>2. \A x, y : [[f EXCEPT !.gas = x] EXCEPT !.gas = y] = [f EXCEPT !.gas = y]
  BY Zenon DEF Frame
<1>3. \A x : [f EXCEPT !.gas = x].gas = x
  BY DEF Frame
<1> QED
  BY <1>1, <1>2, <1>3, Zenon DEF Spend

\* One turn of TracingRunner, in the operators of Runner.
LEMMA ExactStep ==
  Exact!Step <=>
    /\ Settled.status = "Running"
    /\ LET op   == Fetch(code, Settled)
           next == Advance(Settled)
       IN  IF next.gas < Cost[op] THEN Settled' = HaltOOG(next)
             ELSE Settled' \in Execute(op, Spend(next, Cost[op]), code)
    /\ UNCHANGED code
BY SameOperators, SameExecute DEF Exact!Step

\* modeAccumulate: a turn of TracingRunner, or nothing if the gas had run out.
LEMMA AccumulateRefines ==
  ASSUME TypeOK, TypeOK', Accumulate
  PROVE  Exact!Step \/ UNCHANGED <<code, Settled>>
<1> DEFINE op == Fetch(code, frame)
           n == Cost[op]
           g == Advance(frame)
<1>1. /\ op \in Accumulated /\ op \in Op /\ n \in Nat
      /\ g \in Frame /\ frame \in Frame /\ gasCounter \in Nat /\ frame.gas \in Nat
      /\ frame.status = "Running" /\ g.status = "Running" /\ g.gas = frame.gas
      /\ code' = code /\ code \in Seq(Op)
  BY SpendType, OpcodesOK, FlushCases, Zenon DEF Accumulate, TypeOK, Op, Frame
<1>2. PICK f \in Execute(op, g, code) :
        IF f.status = "Running"
          THEN frame' = f /\ gasCounter' = gasCounter + n
          ELSE frame' = Flush(f, gasCounter + n) /\ gasCounter' = 0
  BY DEF Accumulate
<1>3. /\ f \in Frame /\ f.gas = frame.gas /\ f.status \notin {"OutOfGas", "Action"}
      /\ HaltOOG(f) = HaltOOG(frame)
      /\ \A k \in Nat : Spend(f, k) \in Execute(op, Spend(g, k), code)
  <2>1. f \in Frame
    BY <1>1, ExecuteType
  <2>2. HaltOOG(g) = HaltOOG(frame)
    BY <1>1, FlushCases, 0 \in Nat
  <2>3. /\ f.gas = g.gas /\ f.status \notin {"OutOfGas", "Action"} /\ HaltOOG(f) = HaltOOG(g)
        /\ \A k \in Nat : Spend(f, k) \in Execute(op, Spend(g, k), code)
    <3>1. f \in Execute(op, g, code)
      OBVIOUS
    <3> HIDE DEF op, g, n
    <3>2. ASSUME NEW k \in Nat
          PROVE  /\ f.gas = g.gas /\ f.status \notin {"OutOfGas", "Action"}
                 /\ HaltOOG(f) = HaltOOG(g)
                 /\ Spend(f, k) \in Execute(op, Spend(g, k), code)
      BY <1>1, <3>1, AccumulatedCommutes
    <3> QED
      BY <3>2, 0 \in Nat
  <2> QED
    BY <1>1, <2>1, <2>2, <2>3
<1> DEFINE k == gasCounter + n
<1>4. k \in Nat /\ gasCounter <= k
  BY <1>1
<1>5. Settled = Flush(frame, gasCounter)
  BY <1>1 DEF Settled
<1>6. Settled' = Flush(f, k)
  <2>1. CASE f.status = "Running"
    BY <1>2, <2>1 DEF Settled
  <2>2. CASE f.status # "Running"
    <3>1. frame' = Flush(f, k) /\ gasCounter' = 0
      BY <1>2, <2>2
    <3>2. Flush(f, k).status # "Running"
      BY <1>3, <1>4, <2>2, FlushCases
    <3> QED
      BY <3>1, <3>2 DEF Settled
  <2> QED
    BY <2>1, <2>2
<1> HIDE DEF op, n, g, k
<1>7. CASE frame.gas < gasCounter
  <2>1. frame.gas < k
    BY <1>1, <1>4, <1>7
  <2>2. Settled = HaltOOG(frame) /\ Settled' = HaltOOG(frame)
    BY <1>1, <1>3, <1>4, <1>5, <1>6, <1>7, <2>1, FlushCases
  <2> QED
    BY <1>1, <2>2
<1>8. CASE ~(frame.gas < gasCounter)
  <2>1. Settled = Spend(frame, gasCounter) /\ Settled.status = "Running"
    BY <1>1, <1>5, <1>8, FlushCases
  <2>2. Fetch(code, Settled) = op /\ Advance(Settled) = Spend(g, gasCounter)
    BY <1>1, <2>1, SpendCommutes DEF op, g
  <2>3. Spend(g, gasCounter).gas = frame.gas - gasCounter
    BY <1>1, FlushCases
  <2>4. CASE frame.gas < k
    <3>1. Settled' = HaltOOG(Spend(g, gasCounter))
      BY <1>1, <1>3, <1>4, <1>6, <2>4, FlushCases DEF g
    <3>2. Spend(g, gasCounter).gas < n
      BY <1>1, <2>3, <2>4 DEF k
    <3> QED
      BY <1>1, <2>1, <2>2, <3>1, <3>2, ExactStep DEF n
  <2>5. CASE ~(frame.gas < k)
    <3>1. Settled' = Spend(f, k)
      BY <1>3, <1>4, <1>6, <2>5, FlushCases
    <3>2. Spend(Spend(g, gasCounter), n) = Spend(g, k)
      BY <1>1, SpendTwice DEF k
    <3>3. ~(Spend(g, gasCounter).gas < n)
      BY <1>1, <2>3, <2>5 DEF k
    <3>4. Settled' \in Execute(op, Spend(Spend(g, gasCounter), n), code)
      BY <1>3, <1>4, <3>1, <3>2
    <3> QED
      BY <1>1, <2>1, <2>2, <3>3, <3>4, ExactStep DEF n
  <2> QED
    BY <2>4, <2>5
<1> QED
  BY <1>7, <1>8

\* modeFlush: the counter is paid before the body, and nothing is left in it.
LEMMA FlushAndRunRefines ==
  ASSUME TypeOK, TypeOK', FlushAndRun
  PROVE  Exact!Step \/ UNCHANGED <<code, Settled>>
<1> DEFINE op == Fetch(code, frame)
           n == Cost[op]
           g == Advance(frame)
           k == gasCounter + n
           paid == Flush(g, k)
<1>1. /\ op \in Op /\ n \in Nat /\ k \in Nat
      /\ g \in Frame /\ frame \in Frame /\ frame' \in Frame
      /\ gasCounter \in Nat /\ frame.gas \in Nat
      /\ frame.status = "Running" /\ code' = code
  <2>1. op \in Op /\ frame \in Frame /\ frame' \in Frame /\ gasCounter \in Nat
    BY FetchType DEF TypeOK
  <2>2. n \in Nat
    BY <2>1, OpcodesOK
  <2>3. g \in Frame /\ frame.gas \in Nat
    BY <2>1, SpendType DEF Frame
  <2> QED
    BY <2>1, <2>2, <2>3 DEF FlushAndRun
<1>2. g.status = "Running" /\ g.gas = frame.gas /\ HaltOOG(g) = HaltOOG(frame)
  BY <1>1, FlushCases
<1>3. Settled = Flush(frame, gasCounter)
  BY <1>1 DEF Settled
<1>4. Settled' = frame'
  <2>1. gasCounter' = 0
    BY DEF FlushAndRun
  <2>2. Flush(frame', 0) = frame'
    BY <1>1, FlushCases
  <2> QED
    BY <2>1, <2>2 DEF Settled
<1>5. frame' \in IF paid.status = "OutOfGas" THEN {paid} ELSE Execute(op, paid, code)
  BY DEF FlushAndRun
<1> HIDE DEF op, n, g
<1>6. CASE frame.gas < k
  <2>1. frame' = HaltOOG(frame)
    BY <1>1, <1>2, <1>5, <1>6, FlushCases
  <2>2. CASE frame.gas < gasCounter
    <3>1. Settled = HaltOOG(frame)
      BY <1>1, <1>3, <2>2, FlushCases
    <3> QED
      BY <1>1, <1>4, <2>1, <3>1
  <2>3. CASE ~(frame.gas < gasCounter)
    <3>1. Settled = Spend(frame, gasCounter) /\ Settled.status = "Running"
      BY <1>1, <1>3, <2>3, FlushCases
    <3>2. Fetch(code, Settled) = op /\ Advance(Settled) = Spend(g, gasCounter)
      BY <1>1, <3>1, SpendCommutes DEF op, g
    <3>3. Spend(g, gasCounter).gas < n
      <4>1. Spend(g, gasCounter).gas = frame.gas - gasCounter
        BY <1>1, <1>2, FlushCases
      <4> QED
        BY <1>1, <1>6, <4>1
    <3>4. Settled' = HaltOOG(Spend(g, gasCounter))
      BY <1>1, <1>2, <1>4, <2>1, FlushCases
    <3> QED
      BY <1>1, <3>1, <3>2, <3>3, <3>4, ExactStep DEF n
  <2> QED
    BY <2>2, <2>3
<1>7. CASE ~(frame.gas < k)
  <2>1. ~(frame.gas < gasCounter)
    BY <1>1, <1>7
  <2>2. Settled = Spend(frame, gasCounter) /\ Settled.status = "Running"
    BY <1>1, <1>3, <2>1, FlushCases
  <2>3. Fetch(code, Settled) = op /\ Advance(Settled) = Spend(g, gasCounter)
    BY <1>1, <2>2, SpendCommutes DEF op, g
  <2>4. ~(Spend(g, gasCounter).gas < n)
    <3>1. Spend(g, gasCounter).gas = frame.gas - gasCounter
      BY <1>1, <1>2, FlushCases
    <3> QED
      BY <1>1, <1>7, <3>1
  <2>5. paid = Spend(Spend(g, gasCounter), n) /\ paid.status = "Running"
    <3>1. paid = Spend(g, k)
      BY <1>1, <1>2, <1>7, FlushCases
    <3>2. Spend(g, k).status = "Running"
      BY <1>1, <1>2, FlushCases
    <3>3. Spend(Spend(g, gasCounter), n) = Spend(g, k)
      BY <1>1, SpendTwice
    <3> QED
      BY <3>1, <3>2, <3>3
  <2>6. Settled' \in Execute(op, Spend(Spend(g, gasCounter), n), code)
    BY <1>4, <1>5, <2>5
  <2> QED
    BY <1>1, <2>2, <2>3, <2>4, <2>6, ExactStep DEF n
<1> QED
  BY <1>6, <1>7

\* The parent frame goes on with an empty counter.
LEMMA ResumeRefines ==
  ASSUME TypeOK, TypeOK', Resume
  PROVE  Exact!Resume
<1>1. Settled = frame /\ Settled.status = "Action"
  BY DEF Resume, Settled
<1>2. Settled' = frame'
  <2>1. frame' \in Frame /\ gasCounter' = 0
    BY DEF Resume, TypeOK
  <2>2. Flush(frame', 0) = frame'
    BY <2>1, FlushCases
  <2> QED
    BY <2>1, <2>2 DEF Settled
<1> QED
  BY <1>1, <1>2, SameOperators DEF Resume, Exact!Resume

\* Whatever the programs, the prices and the limits, DefaultRunner does what
\* TracingRunner does: the same gas when the program reads it, at host calls, in
\* sub-frames and at the end.
THEOREM RunnerImplementsMetering == Spec => ImplementsMetering
<1>1. Init => Exact!Init
  <2> SUFFICES ASSUME Init
               PROVE  Exact!Init
    OBVIOUS
  <2>1. frame \in Frame /\ gasCounter = 0
    BY InitType DEF Init, TypeOK
  <2>2. Settled = frame
    BY <2>1, FlushCases DEF Settled
  <2> QED
    BY <2>2, SameOperators DEF Init, Exact!Init
<1>2. TypeOK /\ TypeOK' /\ [Next]_vars => [Exact!Next]_Exact!vars
  <2> SUFFICES ASSUME TypeOK, TypeOK', [Next]_vars
               PROVE  [Exact!Next]_Exact!vars
    OBVIOUS
  <2>1. UNCHANGED vars => UNCHANGED <<code, Settled>>
    BY DEF vars, Settled
  <2>2. UNCHANGED <<code, Settled>> => UNCHANGED Exact!vars
    BY DEF Exact!vars
  <2>3. Next => Exact!Step \/ Exact!Resume \/ UNCHANGED <<code, Settled>>
    BY AccumulateRefines, FlushAndRunRefines, ResumeRefines DEF Next
  <2> QED
    BY <2>1, <2>2, <2>3 DEF Exact!Next
<1> QED
  BY <1>1, <1>2, RunnerTypeCorrect, PTL DEF Spec, ImplementsMetering, Exact!Spec
=============================================================================
