---------------------------- MODULE FramesProofs ----------------------------
(***************************************************************************)
(* Proofs about the handler's frames, for every value of the constants and *)
(* every program: the types, the pairing of frames, checkpoints and hooks, *)
(* the harmlessness of static frames and the freshness of return data; then*)
(* that gas is never created, that failures are undone, that refunds match *)
(* the slots cleared and that value is delivered.                          *)
(*                                                                         *)
(* The operators of Frames take a machine to the machines it may become.   *)
(* Sound is the invariant of a machine between two instructions; Opened    *)
(* says that a machine is a sound one plus one open checkpoint.  The second*)
(* half reads every function of the handler as one of three things: a call *)
(* is Answered at once, a frame is opened (Opens) or the top frame Ends.   *)
(***************************************************************************)
EXTENDS Frames, SequenceTheorems, SumProofs, TLAPS

-----------------------------------------------------------------------------
(***************************************************************************)
(* Front, Last and Append.                                                 *)
(***************************************************************************)
\* What Front and Last of a non-empty sequence are.
LEMMA FrontProperties ==
  ASSUME NEW S, NEW s \in Seq(S), s # <<>>
  PROVE  /\ Len(s) \in Nat \ {0}
         /\ Front(s) \in Seq(S)
         /\ Len(Front(s)) = Len(s) - 1
         /\ \A i \in 1 .. Len(s) - 1 : Front(s)[i] = s[i]
         /\ Last(s) \in S
         /\ Last(s) = s[Len(s)]
<1>1. Len(s) \in Nat \ {0}
  BY EmptySeq
<1>2. Last(s) \in S
  BY <1>1, ElementOfSeq DEF Last
<1>3. \A i \in 1 .. Len(s) - 1 : s[i] \in S
  BY <1>1, ElementOfSeq
<1>4. /\ SubSeq(s, 1, Len(s) - 1) \in Seq(S)
      /\ Len(SubSeq(s, 1, Len(s) - 1)) = IF 1 <= Len(s) - 1 THEN Len(s) - 1 - 1 + 1 ELSE 0
      /\ \A i \in 1 .. Len(s) - 1 - 1 + 1 : SubSeq(s, 1, Len(s) - 1)[i] = s[1 + i - 1]
  <2>1. 1 \in Int /\ Len(s) - 1 \in Int
    BY <1>1
  <2> QED
    BY <1>3, <2>1, SubSeqProperties
<1>5. Len(SubSeq(s, 1, Len(s) - 1)) = Len(s) - 1
  <2>1. \A n \in Nat \ {0} : (IF 1 <= n - 1 THEN n - 1 - 1 + 1 ELSE 0) = n - 1
    OBVIOUS
  <2> QED
    BY <1>1, <1>4, <2>1, Zenon
<1>6. \A i \in 1 .. Len(s) - 1 : SubSeq(s, 1, Len(s) - 1)[i] = s[i]
  <2>1. \A i \in 1 .. Len(s) - 1 : i \in 1 .. Len(s) - 1 - 1 + 1 /\ 1 + i - 1 = i
    BY <1>1
  <2> QED
    BY <1>4, <2>1
<1> QED
  BY <1>1, <1>2, <1>4, <1>5, <1>6 DEF Front, Last

\* Front and Last undo Append.
LEMMA AppendEnds ==
  ASSUME NEW S, NEW s \in Seq(S), NEW e \in S
  PROVE  Last(Append(s, e)) = e /\ Front(Append(s, e)) = s
<1>1. /\ Append(s, e) \in Seq(S)
      /\ Append(s, e) # <<>>
      /\ Len(Append(s, e)) = Len(s) + 1
      /\ \A i \in 1 .. Len(s) : Append(s, e)[i] = s[i]
      /\ Append(s, e)[Len(s) + 1] = e
  BY AppendProperties
<1>2. Len(s) \in Nat
  BY LenProperties
<1>3. Last(Append(s, e)) = e
  BY <1>1 DEF Last
<1>4. Len(s) + 1 - 1 = Len(s)
  BY <1>2
<1>5. /\ Front(Append(s, e)) \in Seq(S) /\ Len(Front(Append(s, e))) = Len(s)
      /\ \A i \in 1 .. Len(s) : Front(Append(s, e))[i] = Append(s, e)[i]
  <2> DEFINE t == Append(s, e)
  <2>1. t \in Seq(S) /\ t # <<>> /\ Len(t) - 1 = Len(s)
    BY <1>1, <1>4
  <2> HIDE DEF t
  <2>2. Front(t) \in Seq(S) /\ Len(Front(t)) = Len(t) - 1
        /\ \A i \in 1 .. Len(t) - 1 : Front(t)[i] = t[i]
    BY <2>1, FrontProperties, Zenon
  <2>3. Front(t) \in Seq(S) /\ Len(Front(t)) = Len(s) /\ \A i \in 1 .. Len(s) : Front(t)[i] = t[i]
    BY <2>1, <2>2, Zenon
  <2> QED
    BY <2>3 DEF t
<1>6. Front(Append(s, e)) = s
  BY <1>1, <1>5, SeqEqual
<1> QED
  BY <1>3, <1>6

\* A sequence is its front and its last element.
LEMMA FrontAppendLast ==
  ASSUME NEW S, NEW s \in Seq(S), s # <<>>
  PROVE  s = Append(Front(s), Last(s))
<1>1. Front(s) \in Seq(S) /\ Last(s) \in S /\ Len(Front(s)) = Len(s) - 1 /\ Len(s) \in Nat \ {0}
      /\ Last(s) = s[Len(s)] /\ \A i \in 1 .. Len(s) - 1 : Front(s)[i] = s[i]
  BY FrontProperties
<1>2. /\ Append(Front(s), Last(s)) \in Seq(S) /\ Len(Append(Front(s), Last(s))) = Len(s)
      /\ \A i \in 1 .. Len(s) - 1 : Append(Front(s), Last(s))[i] = Front(s)[i]
      /\ Append(Front(s), Last(s))[Len(s)] = Last(s)
  <2>1. Len(Front(s)) + 1 = Len(s)
    BY <1>1
  <2> QED
    BY <1>1, <2>1, AppendProperties
<1>3. \A i \in 1 .. Len(s) : i \in 1 .. Len(s) - 1 \/ i = Len(s)
  BY <1>1
<1> QED
  BY <1>1, <1>2, <1>3, SeqEqual

-----------------------------------------------------------------------------
(***************************************************************************)
(* Machines.                                                               *)
(***************************************************************************)
\* A creation is never static, and no frame holds or hands up what is older than its own
\* sub-frames.
LegalFrame == {f \in Frame : (f.kind = "Create" => ~f.static) /\ f.data # "Older"}
LegalOutcome == {o \in Outcome : o.data \in {"None", "Own"}}

Machines == [world : World, checkpoints : Seq(World), frames : Seq(LegalFrame), hooks : Seq(Nat),
             outcome : LegalOutcome]

\* The hooks of n frames that run.
Depths(n) == [i \in 1 .. n |-> i - 1]

Paired(m) == Len(m.checkpoints) = Len(m.frames) /\ m.hooks = Depths(Len(m.frames))

StaticTop(m) == m.frames # <<>> /\ Top(m).static

\* A static frame has changed nothing, and what it called is static.
Frozen(m) ==
  \A i \in 1 .. Len(m.frames) : m.frames[i].static =>
    m.world = m.checkpoints[i] /\ \A j \in i .. Len(m.frames) : m.frames[j].static

Sound(m) == m \in Machines /\ Paired(m) /\ Frozen(m)

\* n is m with one checkpoint more and perhaps another world, but not if m must not write.
Opened(m, n) ==
  /\ Sound(m)
  /\ n \in Machines
  /\ n.frames = m.frames /\ n.hooks = m.hooks /\ n.outcome = m.outcome
  /\ \E w \in World :
       /\ n.checkpoints = Append(m.checkpoints, w)
       /\ StaticTop(m) => n.world = m.world /\ w = m.world

\* The depths of n frames, and of one more.
LEMMA DepthsType ==
  ASSUME NEW n \in Nat
  PROVE  /\ Depths(n) \in Seq(Nat) /\ Len(Depths(n)) = n
         /\ Append(Depths(n), n) = Depths(n + 1)
<1>1. \A k \in Nat : Depths(k) \in Seq(Nat) /\ Len(Depths(k)) = k
                     /\ \A i \in 1 .. k : Depths(k)[i] = i - 1
  BY DEF Depths
<1>2. /\ Append(Depths(n), n) \in Seq(Nat)
      /\ Len(Append(Depths(n), n)) = n + 1
      /\ \A i \in 1 .. n : Append(Depths(n), n)[i] = Depths(n)[i]
      /\ Append(Depths(n), n)[n + 1] = n
  <2>1. Depths(n) \in Seq(Nat) /\ Len(Depths(n)) = n
    BY <1>1
  <2> QED
    BY <2>1, AppendProperties
<1>3. \A i \in 1 .. n + 1 : Append(Depths(n), n)[i] = Depths(n + 1)[i]
  <2>1. SUFFICES ASSUME NEW i \in 1 .. n + 1 PROVE Append(Depths(n), n)[i] = Depths(n + 1)[i]
    BY Zenon
  <2>2. n + 1 \in Nat
    OBVIOUS
  <2>3. Depths(n + 1)[i] = i - 1
    BY <1>1, <2>2, Zenon
  <2>4. CASE i \in 1 .. n
    BY <1>1, <1>2, <2>3, <2>4
  <2>5. CASE i = n + 1
    <3>1. i - 1 = n
      BY <2>5
    <3> QED
      BY <1>2, <2>3, <2>5, <3>1
  <2>6. i \in 1 .. n \/ i = n + 1
    BY <2>1
  <2> QED
    BY <2>4, <2>5, <2>6, Zenon
<1>4. n + 1 \in Nat
  OBVIOUS
<1>5. Depths(n + 1) \in Seq(Nat) /\ Len(Depths(n + 1)) = n + 1
  BY <1>1, <1>4
<1>6. Append(Depths(n), n) = Depths(n + 1)
  BY <1>2, <1>3, <1>5, SeqEqual
<1> QED
  BY <1>1, <1>6

\* If any frame is static, the innermost is; so elsewhere Frozen asks nothing.
LEMMA StaticIsOnTop ==
  ASSUME NEW m \in Machines, Frozen(m), ~StaticTop(m)
  PROVE  \A i \in 1 .. Len(m.frames) : ~m.frames[i].static
<1>1. SUFFICES ASSUME NEW i \in 1 .. Len(m.frames), m.frames[i].static PROVE FALSE
  OBVIOUS
<1>2. m.frames \in Seq(LegalFrame) /\ Len(m.frames) \in Nat
  BY DEF Machines
<1>3. Len(m.frames) \in i .. Len(m.frames) /\ m.frames # <<>>
  BY <1>2
<1> QED
  BY <1>1, <1>3 DEF Frozen, StaticTop, Top, Last

\* Where nothing is static the world may be any.
LEMMA Rewritten ==
  ASSUME NEW m, Sound(m), NEW w \in World, ~StaticTop(m) \/ w = m.world
  PROVE  Sound([m EXCEPT !.world = w])
<1> DEFINE n == [m EXCEPT !.world = w]
<1>1. n \in Machines /\ n.frames = m.frames /\ n.checkpoints = m.checkpoints /\ n.hooks = m.hooks
      /\ n.world = w
  BY Zenon DEF Sound, Machines
<1>2. CASE ~StaticTop(m)
  BY <1>1, <1>2, StaticIsOnTop DEF Sound, Paired, Frozen
<1>3. CASE w = m.world
  BY <1>1, <1>3 DEF Sound, Paired, Frozen
<1> QED
  BY <1>2, <1>3

\* The innermost frame may change anything but its static flag.
LEMMA SetTopSound ==
  ASSUME NEW m, Sound(m), m.frames # <<>>, NEW f \in LegalFrame, f.static = Top(m).static
  PROVE  /\ Sound(SetTop(m, f))
         /\ SetTop(m, f).frames # <<>> /\ Top(SetTop(m, f)) = f
         /\ SetTop(m, f).world = m.world
         /\ Len(SetTop(m, f).frames) = Len(m.frames)
<1> DEFINE n == SetTop(m, f)
<1>1. m \in Machines /\ m.frames \in Seq(LegalFrame) /\ Len(m.frames) \in Nat \ {0}
  BY EmptySeq DEF Sound, Machines
<1>2. n.frames = [m.frames EXCEPT ![Len(m.frames)] = f] /\ n.checkpoints = m.checkpoints
      /\ n.hooks = m.hooks /\ n.world = m.world /\ n.outcome = m.outcome
  BY <1>1 DEF SetTop, Machines
<1>3. n.frames \in Seq(LegalFrame) /\ Len(n.frames) = Len(m.frames)
      /\ \A j \in 1 .. Len(m.frames) : n.frames[j] = IF j = Len(m.frames) THEN f ELSE m.frames[j]
  BY <1>1, <1>2, ExceptSeq
<1>4. n \in Machines
  BY <1>1, <1>2, <1>3, Zenon DEF SetTop, Machines
<1>5. \A j \in 1 .. Len(m.frames) : n.frames[j].static = m.frames[j].static
  BY <1>3 DEF Top, Last
<1>6. Sound(n)
  BY <1>2, <1>3, <1>4, <1>5 DEF Sound, Paired, Frozen
<1>7. n.frames # <<>> /\ Top(n) = f
  BY <1>1, <1>3 DEF Top, Last
<1> QED
  BY <1>2, <1>3, <1>6, <1>7

-----------------------------------------------------------------------------
(***************************************************************************)
(* Opening and closing.                                                    *)
(***************************************************************************)
\* A new checkpoint.
LEMMA CheckpointOpened ==
  ASSUME NEW m, Sound(m)
  PROVE  Opened(m, Checkpoint(m))
<1> DEFINE n == Checkpoint(m)
<1>1. m \in Machines /\ m.world \in World /\ m.checkpoints \in Seq(World)
  BY DEF Sound, Machines
<1>2. n.frames = m.frames /\ n.hooks = m.hooks /\ n.outcome = m.outcome /\ n.world = m.world
      /\ n.checkpoints = Append(m.checkpoints, m.world)
  BY <1>1 DEF Checkpoint, Machines
<1>3. n \in Machines
  BY <1>1, AppendProperties, Zenon DEF Checkpoint, Machines
<1> QED
  BY <1>1, <1>2, <1>3 DEF Opened

\* What was opened on a frame that may write may be rewritten.
LEMMA OpenedRewritten ==
  ASSUME NEW m, NEW n, Opened(m, n), NEW w \in World, ~StaticTop(m) \/ w = n.world
  PROVE  Opened(m, [n EXCEPT !.world = w])
<1>1. n \in Machines
  BY DEF Opened
<1>2. [n EXCEPT !.world = w] \in Machines
  BY <1>1, Zenon DEF Machines
<1>3. /\ [n EXCEPT !.world = w].world = w
      /\ [n EXCEPT !.world = w].checkpoints = n.checkpoints
      /\ [n EXCEPT !.world = w].frames = n.frames
      /\ [n EXCEPT !.world = w].hooks = n.hooks
      /\ [n EXCEPT !.world = w].outcome = n.outcome
  BY <1>1 DEF Machines
<1> QED
  BY <1>2, <1>3 DEF Opened

\* CheckpointCommit closes what Checkpoint opened.
LEMMA Committed ==
  ASSUME NEW m, NEW n, Opened(m, n)
  PROVE  Sound(CheckpointCommit(n)) /\ CheckpointCommit(n).frames = m.frames
<1> DEFINE c == CheckpointCommit(n)
<1>1. n \in Machines /\ Sound(m) /\ m \in Machines
  BY DEF Opened, Sound
<1>2. PICK w \in World : /\ n.checkpoints = Append(m.checkpoints, w)
                         /\ StaticTop(m) => n.world = m.world /\ w = m.world
  BY DEF Opened
<1>3. Front(n.checkpoints) = m.checkpoints
  BY <1>1, <1>2, AppendEnds DEF Machines
<1>4. c = [n EXCEPT !.checkpoints = m.checkpoints]
  BY <1>3 DEF CheckpointCommit
<1>5. /\ c.checkpoints = m.checkpoints /\ c.frames = m.frames /\ c.hooks = m.hooks
      /\ c.outcome = m.outcome /\ c.world = n.world /\ c \in Machines
  BY <1>1, <1>4, Zenon DEF Opened, Machines
<1>6. c = [m EXCEPT !.world = n.world]
  BY <1>1, <1>4, <1>5, Zenon DEF Opened, Machines
<1>7. n.world \in World
  BY <1>1 DEF Machines
<1> QED
  BY <1>1, <1>2, <1>5, <1>6, <1>7, Rewritten

\* CheckpointRevert closes it too, and the world of the frame below comes back.
LEMMA Reverted ==
  ASSUME NEW m, NEW n, Opened(m, n)
  PROVE  Sound(CheckpointRevert(n)) /\ CheckpointRevert(n).frames = m.frames
<1> DEFINE c == CheckpointRevert(n)
<1>1. n \in Machines /\ Sound(m) /\ m \in Machines
  BY DEF Opened, Sound
<1>2. PICK w \in World : /\ n.checkpoints = Append(m.checkpoints, w)
                         /\ StaticTop(m) => n.world = m.world /\ w = m.world
  BY DEF Opened
<1>3. Front(n.checkpoints) = m.checkpoints /\ Last(n.checkpoints) = w
  BY <1>1, <1>2, AppendEnds DEF Machines
<1>4. c = [n EXCEPT !.world = w, !.checkpoints = m.checkpoints]
  BY <1>3 DEF CheckpointRevert
<1>5. /\ c.checkpoints = m.checkpoints /\ c.frames = m.frames /\ c.hooks = m.hooks
      /\ c.outcome = m.outcome /\ c.world = w /\ c \in Machines
  BY <1>1, <1>4, Zenon DEF Opened, Machines
<1>6. c = [m EXCEPT !.world = w]
  BY <1>1, <1>4, <1>5, Zenon DEF Opened, Machines
<1> QED
  BY <1>1, <1>2, <1>5, <1>6, Rewritten

\* So does either, whatever the result of the frame.
LEMMA Closed ==
  ASSUME NEW m, NEW n, Opened(m, n), NEW result
  PROVE  Sound(Close(n, result)) /\ Close(n, result).frames = m.frames
BY Committed, Reverted DEF Close

\* OnExit takes back what OnEnter did.
LEMMA HooksBracket ==
  ASSUME NEW n \in Machines, NEW result
  PROVE  /\ OnExit(CheckpointCommit(OnEnter(n))) = CheckpointCommit(n)
         /\ OnExit(CheckpointRevert(OnEnter(n))) = CheckpointRevert(n)
         /\ OnExit(Close(OnEnter(n), result)) = Close(n, result)
<1> DEFINE h == Append(n.hooks, Len(n.frames))
<1>1. Front(h) = n.hooks
  <2>1. n.hooks \in Seq(Nat) /\ n.frames \in Seq(LegalFrame)
    BY DEF Machines
  <2>2. Len(n.frames) \in Nat
    BY <2>1
  <2> QED
    BY <2>1, <2>2, AppendEnds
<1>2. OnEnter(n) = [n EXCEPT !.hooks = h]
  BY DEF OnEnter
<1> HIDE DEF h
<1>3. OnExit(CheckpointCommit(OnEnter(n))) = CheckpointCommit(n)
  BY <1>1, <1>2, Zenon DEF OnExit, CheckpointCommit, Machines
<1>4. OnExit(CheckpointRevert(OnEnter(n))) = CheckpointRevert(n)
  BY <1>1, <1>2, Zenon DEF OnExit, CheckpointRevert, Machines
<1> QED
  BY <1>3, <1>4 DEF Close

\* A frame that starts: static if its parent is, and then nothing has changed.
LEMMA Started ==
  ASSUME NEW m, NEW n, Opened(m, n), NEW f \in LegalFrame,
         StaticTop(m) => f.static,
         f.static => n.world = Last(n.checkpoints)
  PROVE  Sound([OnEnter(n) EXCEPT !.frames = Append(@, f)])
<1> DEFINE p == [OnEnter(n) EXCEPT !.frames = Append(@, f)]
           k == Len(m.frames)
<1>1. n \in Machines /\ m \in Machines /\ Paired(m) /\ Frozen(m)
      /\ n.frames = m.frames /\ n.hooks = m.hooks /\ n.outcome = m.outcome
  BY DEF Opened, Sound
<1>2. PICK w \in World : /\ n.checkpoints = Append(m.checkpoints, w)
                         /\ StaticTop(m) => n.world = m.world /\ w = m.world
  BY DEF Opened
<1>3. k \in Nat /\ m.frames \in Seq(LegalFrame) /\ m.checkpoints \in Seq(World)
  BY <1>1 DEF Machines
<1>4. /\ p.frames = Append(m.frames, f) /\ p.hooks = Append(m.hooks, k)
      /\ p.checkpoints = Append(m.checkpoints, w) /\ p.world = n.world /\ p.outcome = n.outcome
      /\ p = [n EXCEPT !.hooks = Append(m.hooks, k), !.frames = Append(m.frames, f)]
  BY <1>1, <1>2, Zenon DEF OnEnter, Machines
<1>5. /\ Append(m.frames, f) \in Seq(LegalFrame) /\ Len(Append(m.frames, f)) = k + 1
      /\ \A i \in 1 .. k : Append(m.frames, f)[i] = m.frames[i]
      /\ Append(m.frames, f)[k + 1] = f
  BY <1>3, AppendProperties
<1>6. /\ Len(Append(m.checkpoints, w)) = k + 1
      /\ \A i \in 1 .. k : Append(m.checkpoints, w)[i] = m.checkpoints[i]
      /\ Append(m.checkpoints, w)[k + 1] = w
  BY <1>1, <1>3, AppendProperties DEF Paired
<1>7. Append(m.hooks, k) = Depths(k + 1) /\ Append(m.hooks, k) \in Seq(Nat)
  BY <1>1, <1>3, DepthsType, AppendProperties, ZenonT(60) DEF Paired
<1>8. p \in Machines
  BY <1>1, <1>4, <1>5, <1>7, Zenon DEF Machines
<1>9. Paired(p)
  BY <1>4, <1>5, <1>6, <1>7 DEF Paired
<1>10. Last(n.checkpoints) = w
  BY <1>2, <1>3, AppendEnds
<1>11. Frozen(p)
  <2>1. SUFFICES ASSUME NEW i \in 1 .. k + 1, p.frames[i].static
                 PROVE  p.world = p.checkpoints[i]
                        /\ \A j \in i .. k + 1 : p.frames[j].static
    BY <1>4, <1>5, Zenon DEF Frozen
  <2>2. CASE i = k + 1
    <3>1. f.static
      BY <1>4, <1>5, <2>1, <2>2
    <3>2. \A j \in i .. k + 1 : j = k + 1
      BY <1>3, <2>2
    <3> QED
      BY <1>4, <1>5, <1>6, <1>10, <2>2, <3>1, <3>2
  <2>3. CASE i \in 1 .. k
    <3>1. m.frames[i].static
      BY <1>4, <1>5, <2>1, <2>3
    <3>2. StaticTop(m)
      BY <1>1, <2>3, <3>1, StaticIsOnTop
    <3>3. n.world = m.world /\ f.static
      BY <1>2, <3>2
    <3>4. m.world = m.checkpoints[i] /\ \A j \in i .. k : m.frames[j].static
      BY <1>1, <2>3, <3>1 DEF Frozen
    <3>5. \A j \in i .. k + 1 : (j \in i .. k /\ j \in 1 .. k) \/ j = k + 1
      BY <1>3, <2>3
    <3> QED
      BY <1>4, <1>5, <1>6, <2>3, <3>3, <3>4, <3>5, SMTT(30)
  <2>4. i \in 1 .. k \/ i = k + 1
    BY <1>3
  <2> QED
    BY <2>2, <2>3, <2>4, Zenon
<1> QED
  BY <1>8, <1>9, <1>11 DEF Sound

\* A frame that ends leaves its checkpoint, over a sound machine without it.
LEMMA Ended ==
  ASSUME NEW m, Sound(m), m.frames # <<>>
  PROVE  \E q : Opened(q, OnExit(Popped(m))) /\ (StaticTop(q) => Top(m).static)
<1> DEFINE k == Len(m.frames)
           q == [m EXCEPT !.frames = Front(m.frames), !.checkpoints = Front(m.checkpoints),
                          !.hooks = Front(m.hooks)]
           n == OnExit(Popped(m))
           w == Last(m.checkpoints)
<1>1. m \in Machines /\ m.frames \in Seq(LegalFrame) /\ m.checkpoints \in Seq(World)
      /\ m.world \in World /\ k \in Nat \ {0} /\ Len(m.checkpoints) = k /\ m.hooks = Depths(k)
  BY EmptySeq DEF Sound, Machines, Paired
<1>2. m.checkpoints # <<>>
  BY <1>1
<1>3. /\ Front(m.frames) \in Seq(LegalFrame) /\ Len(Front(m.frames)) = k - 1
      /\ \A i \in 1 .. k - 1 : Front(m.frames)[i] = m.frames[i]
  BY <1>1, FrontProperties, Zenon
<1>4. /\ Front(m.checkpoints) \in Seq(World) /\ Len(Front(m.checkpoints)) = k - 1
      /\ \A i \in 1 .. k - 1 : Front(m.checkpoints)[i] = m.checkpoints[i]
      /\ w \in World /\ w = m.checkpoints[k]
  BY <1>1, <1>2, FrontProperties, ZenonT(60)
<1>5. Front(m.hooks) = Depths(k - 1) /\ Front(m.hooks) \in Seq(Nat)
  <2>1. k - 1 \in Nat /\ k - 1 + 1 = k
    BY <1>1
  <2>2. Depths(k - 1) \in Seq(Nat) /\ Append(Depths(k - 1), k - 1) = Depths(k)
    BY <2>1, DepthsType, Zenon
  <2>3. Front(Append(Depths(k - 1), k - 1)) = Depths(k - 1)
    BY <2>1, <2>2, AppendEnds, Zenon
  <2> QED
    BY <1>1, <2>2, <2>3, Zenon
<1>6. /\ q \in Machines /\ q.frames = Front(m.frames) /\ q.checkpoints = Front(m.checkpoints)
      /\ q.hooks = Front(m.hooks) /\ q.world = m.world /\ q.outcome = m.outcome
  BY <1>1, <1>3, <1>4, <1>5, Zenon DEF Machines
<1>7. /\ n \in Machines /\ n.frames = Front(m.frames) /\ n.checkpoints = m.checkpoints
      /\ n.hooks = Front(m.hooks) /\ n.world = m.world /\ n.outcome = m.outcome
  BY <1>1, <1>3, <1>5, Zenon DEF Machines, Popped, OnExit
<1>8. n.checkpoints = Append(q.checkpoints, w)
  BY <1>1, <1>2, <1>6, <1>7, FrontAppendLast
<1>9. \A i \in 1 .. k - 1 : i \in 1 .. k /\ i .. k - 1 \subseteq 1 .. k - 1 /\ i .. k - 1 \subseteq i .. k
                            /\ k \in i .. k
  BY <1>1
<1>10. Frozen(q)
  <2>1. SUFFICES ASSUME NEW i \in 1 .. k - 1, q.frames[i].static
                 PROVE  q.world = q.checkpoints[i] /\ \A j \in i .. k - 1 : q.frames[j].static
    BY <1>3, <1>6 DEF Frozen
  <2>2. m.frames[i].static /\ i \in 1 .. k
    BY <1>3, <1>6, <1>9, <2>1
  <2>3. m.world = m.checkpoints[i] /\ \A j \in i .. k : m.frames[j].static
    BY <2>2 DEF Frozen, Sound
  <2>4. q.world = q.checkpoints[i]
    BY <1>4, <1>6, <2>1, <2>3
  <2>5. ASSUME NEW j \in i .. k - 1 PROVE q.frames[j].static
    <3>1. j \in 1 .. k - 1 /\ j \in i .. k
      BY <1>9, <2>1, <2>5
    <3>2. q.frames[j] = m.frames[j]
      BY <1>3, <1>6, <3>1
    <3> QED
      BY <2>3, <3>1, <3>2
  <2> QED
    BY <2>4, <2>5
<1>11. Sound(q)
  BY <1>3, <1>4, <1>5, <1>6, <1>10 DEF Sound, Paired
<1>12. StaticTop(q) => w = m.world /\ Top(m).static
  <2>1. SUFFICES ASSUME StaticTop(q) PROVE w = m.world /\ Top(m).static
    OBVIOUS
  <2>2. k - 1 \in 1 .. k - 1
    BY <1>1, <1>3, <1>6, <2>1, EmptySeq DEF StaticTop
  <2>3. m.frames[k - 1].static
    BY <1>3, <1>6, <2>1, <2>2, Zenon DEF StaticTop, Top, Last
  <2>4. m.frames[k].static
    BY <1>9, <2>2, <2>3 DEF Frozen, Sound
  <2>5. k \in 1 .. k
    BY <1>1, SMTT(30)
  <2> QED
    BY <1>4, <2>4, <2>5 DEF Frozen, Sound, Top, Last
<1>13. Opened(q, n)
  BY <1>4, <1>6, <1>7, <1>8, <1>11, <1>12, ZenonT(30) DEF Opened
<1> QED
  BY <1>12, <1>13
-----------------------------------------------------------------------------
(***************************************************************************)
(* Outcomes, and the way back.                                             *)
(***************************************************************************)
\* The outcome of a call that opens no frame.
LEMMA RefusedType ==
  ASSUME NEW kind \in {"Call", "Create"}, NEW result \in Result \cup {"None"}, NEW gas \in Nat
  PROVE  /\ Refused(kind, result, gas) \in LegalOutcome
         /\ Refused(kind, result, gas).gas = gas
BY DEF Refused, LegalOutcome, Outcome, Data

\* What a frame gets back leaves it a frame, and hides all but its sub-frames' own output.
LEMMA ReturnedType ==
  ASSUME NEW f \in LegalFrame, NEW o \in LegalOutcome
  PROVE  Returned(f, o) \in LegalFrame /\ Returned(f, o).static = f.static
<1>1. ReturnData(o) \in Data /\ ReturnData(o) # "Older"
  BY DEF ReturnData, Received, LegalOutcome, Data
<1>2. (o.result \in OkResult /\ (o.kind = "Create" => o.made)) \in BOOLEAN
  OBVIOUS
<1>3. f.gas \in Nat /\ f.gas + o.gas \in Nat
  BY DEF LegalFrame, Frame, LegalOutcome, Outcome
<1>4. f.refund \in Int /\ f.refund + o.refund \in Int
  BY DEF LegalFrame, Frame, LegalOutcome, Outcome
<1> DEFINE data == ReturnData(o)
           ok == o.result \in OkResult /\ (o.kind = "Create" => o.made)
           gas == IF o.result \in OkResult \cup RevertResult THEN f.gas + o.gas ELSE f.gas
           refund == IF o.result \in OkResult THEN f.refund + o.refund ELSE f.refund
<1>5. Returned(f, o) = [f EXCEPT !.data = data, !.ok = ok, !.gas = gas, !.refund = refund]
  BY DEF Returned
<1>6. gas \in Nat /\ refund \in Int /\ data \in Data \ {"Older"} /\ ok \in BOOLEAN
  BY <1>1, <1>2, <1>3, <1>4
<1> HIDE DEF data, ok, gas, refund
<1> QED
  BY <1>5, <1>6, ZenonT(60) DEF LegalFrame, Frame

\* Handing an outcome to the frame that waits, or to transact, keeps the machine sound.
LEMMA DeliverSound ==
  ASSUME NEW m, Sound(m), NEW o \in LegalOutcome
  PROVE  Sound(Deliver(m, o))
<1>1. CASE m.frames = <<>>
  <2> DEFINE n == [m EXCEPT !.outcome = o]
  <2>1. n \in Machines /\ n.world = m.world /\ n.checkpoints = m.checkpoints
        /\ n.frames = m.frames /\ n.hooks = m.hooks
    BY Zenon DEF Sound, Machines
  <2>2. Sound(n)
    BY <2>1 DEF Sound, Paired, Frozen
  <2> QED
    BY <1>1, <2>2 DEF Deliver
<1>2. CASE m.frames # <<>>
  <2>1. m.frames \in Seq(LegalFrame)
    BY DEF Sound, Machines
  <2>2. Top(m) \in LegalFrame
    BY <1>2, <2>1, FrontProperties DEF Top
  <2>3. Returned(Top(m), o) \in LegalFrame /\ Returned(Top(m), o).static = Top(m).static
    BY <2>2, ReturnedType
  <2> QED
    BY <1>2, <2>3, SetTopSound DEF Deliver
<1> QED
  BY <1>1, <1>2

-----------------------------------------------------------------------------
(***************************************************************************)
(* Balances.                                                               *)
(***************************************************************************)
\* A value that the payer has leaves no balance below zero.
LEMMA MovedType ==
  ASSUME NEW w \in World, NEW from \in Addr, NEW to \in Addr, NEW v \in Nat, v <= w.bal[from]
  PROVE  Moved(w, from, to, v) \in World
<1> DEFINE paid == [w.bal EXCEPT ![from] = @ - v]
<1>1. w.bal \in [Addr -> Nat]
  BY DEF World
<1>2. w.bal[from] - v \in Nat
  BY <1>1
<1>3. paid \in [Addr -> Nat]
  BY <1>1, <1>2
<1>4. paid[to] + v \in Nat
  BY <1>3
<1>5. [paid EXCEPT ![to] = @ + v] \in [Addr -> Nat]
  BY <1>3, <1>4
<1> QED
  BY <1>5 DEF Moved, World

\* An account that pays itself, or pays nothing, pays nothing.
LEMMA MovedNothing ==
  ASSUME NEW w \in World, NEW from \in Addr, NEW to \in Addr, NEW v \in Nat, v = 0 \/ from = to
  PROVE  Moved(w, from, to, v) = w
<1> DEFINE paid == [w.bal EXCEPT ![from] = w.bal[from] - v]
           got  == [paid EXCEPT ![to] = paid[to] + v]
<1>1. w.bal \in [Addr -> Nat]
  BY DEF World
<1>2. paid \in [Addr -> Int] /\ \A a \in Addr : paid[a] = IF a = from THEN w.bal[a] - v ELSE w.bal[a]
  BY <1>1
<1>3. got \in [Addr -> Int] /\ \A a \in Addr : got[a] = IF a = to THEN paid[a] + v ELSE paid[a]
  BY <1>2
<1>4. \A a \in Addr : got[a] = w.bal[a]
  BY <1>1, <1>2, <1>3
<1>5. got = w.bal
  BY <1>1, <1>3, <1>4
<1>6. Moved(w, from, to, v) = [w EXCEPT !.bal = got]
  BY DEF Moved
<1> HIDE DEF got
<1> QED
  BY <1>5, <1>6 DEF World
-----------------------------------------------------------------------------
(***************************************************************************)
(* executeCall.                                                            *)
(***************************************************************************)
CallInput == [self : Addr, code : Addr, caller : Addr, value : Nat, moves : BOOLEAN,
              static : BOOLEAN, gas : Nat]

\* What executeCall may be handed: a static call neither leaves a static frame nor moves value
\* between two accounts.
Callable(m, in) ==
  /\ in \in CallInput
  /\ StaticTop(m) => in.static
  /\ in.static /\ in.moves => in.value = 0 \/ in.caller = in.self

\* The machine in which the callee runs, or not.
Ready(m, n, in) ==
  /\ Opened(m, n) /\ Callable(m, in)
  /\ in.static => n.world = Last(n.checkpoints)

\* A call of a precompile, its OnEnter and its checkpoint, closed on every path.
LEMMA PrecompileCallSound ==
  ASSUME NEW m, NEW n, NEW in, Ready(m, n, in), NEW bad, NEW p \in PrecompileCall(n, in, bad)
  PROVE  Sound(p)
<1>1. n \in Machines /\ in.gas \in Nat
  BY DEF Ready, Opened, Callable, CallInput
<1>2. CASE bad = "Touch"
  <2>1. p = Deliver(CheckpointRevert(n), Refused("Call", "FatalExternalError", in.gas))
    BY <1>2 DEF PrecompileCall
  <2>2. Refused("Call", "FatalExternalError", in.gas) \in LegalOutcome
    BY <1>1, RefusedType, Zenon DEF Result, Failure
  <2>3. Sound(CheckpointRevert(n))
    BY Reverted DEF Ready
  <2> QED
    BY <2>1, <2>2, <2>3, DeliverSound
<1>3. CASE bad # "Touch"
  <2>1. PICK end \in PrecompileRun(OnEnter(n), in) : p = Deliver(OnExit(end[1]), end[2])
    BY <1>3 DEF PrecompileCall
  <2>2. CASE end = <<CheckpointRevert(OnEnter(n)), Refused("Call", "PrecompileError", in.gas)>>
    <3>1. OnExit(end[1]) = CheckpointRevert(n)
      BY <1>1, <2>2, HooksBracket
    <3>2. Refused("Call", "PrecompileError", in.gas) \in LegalOutcome
      BY <1>1, RefusedType, Zenon DEF Result, Failure
    <3>3. Sound(CheckpointRevert(n))
      BY Reverted DEF Ready
    <3>4. end[2] = Refused("Call", "PrecompileError", in.gas)
      BY <2>2
    <3> QED
      BY <2>1, <3>1, <3>2, <3>3, <3>4, DeliverSound
  <2>3. CASE in.gas >= OpCost
             /\ \E result \in {"Return", "Revert"} :
                  end = <<Close(OnEnter(n), result),
                          [Refused("Call", result, in.gas - OpCost) EXCEPT !.data = "Own"]>>
    <3>1. PICK result \in {"Return", "Revert"} :
                  end = <<Close(OnEnter(n), result),
                          [Refused("Call", result, in.gas - OpCost) EXCEPT !.data = "Own"]>>
      BY <2>3
    <3>2. OnExit(end[1]) = Close(n, result)
      BY <1>1, <3>1, HooksBracket
    <3>3. in.gas - OpCost \in Nat
      BY <1>1, <2>3, FramesOK
    <3>4. Refused("Call", result, in.gas - OpCost) \in LegalOutcome
      BY <3>3, RefusedType DEF Result, OkResult, RevertResult
    <3>5. [Refused("Call", result, in.gas - OpCost) EXCEPT !.data = "Own"] \in LegalOutcome
      BY <3>4 DEF LegalOutcome, Outcome, Data
    <3>6. Sound(Close(n, result))
      BY Closed DEF Ready
    <3>7. end[2] = [Refused("Call", result, in.gas - OpCost) EXCEPT !.data = "Own"]
      BY <3>1
    <3> QED
      BY <2>1, <3>2, <3>5, <3>6, <3>7, DeliverSound
  <2>4. in.gas < OpCost \/ in.gas >= OpCost
    BY <1>1, FramesOK
  <2> QED
    BY <2>1, <2>2, <2>3, <2>4 DEF PrecompileRun
<1> QED
  BY <1>2, <1>3

\* The callee has a precompile, no code, or a frame of its own.
LEMMA EnteredSound ==
  ASSUME NEW m, NEW n, NEW in, Ready(m, n, in), NEW bad, NEW p \in Entered(n, in, bad)
  PROVE  Sound(p)
<1>1. n \in Machines /\ in \in CallInput
  BY DEF Ready, Opened, Callable
<1>2. CASE in.code \in Precompile
  BY <1>2, PrecompileCallSound DEF Entered
<1>3. CASE in.code \notin Precompile /\ (~n.world.code[in.code] \/ bad = "Code")
  <2>1. p = Deliver(OnExit(CheckpointCommit(OnEnter(n))), Refused("Call", "Stop", in.gas))
    BY <1>3 DEF Entered
  <2>2. OnExit(CheckpointCommit(OnEnter(n))) = CheckpointCommit(n)
    BY <1>1, HooksBracket
  <2>3. Sound(CheckpointCommit(n))
    BY Committed DEF Ready
  <2>4. Refused("Call", "Stop", in.gas) \in LegalOutcome
    BY <1>1, RefusedType DEF CallInput, Result, OkResult
  <2> QED
    BY <2>1, <2>2, <2>3, <2>4, DeliverSound
<1>4. CASE in.code \notin Precompile /\ n.world.code[in.code] /\ bad # "Code"
  <2> DEFINE f == NewFrame("Call", in, in.static)
  <2>1. p = [OnEnter(n) EXCEPT !.frames = Append(@, f)]
    BY <1>4 DEF Entered
  <2>2. f \in LegalFrame /\ f.static = in.static
    BY <1>1 DEF NewFrame, LegalFrame, Frame, CallInput, Data
  <2>3. StaticTop(m) => f.static
    BY <2>2 DEF Ready, Callable
  <2>4. f.static => n.world = Last(n.checkpoints)
    BY <2>2 DEF Ready
  <2>5. Opened(m, n)
    BY DEF Ready
  <2> HIDE DEF f
  <2> QED
    BY <2>1, <2>2, <2>3, <2>4, <2>5, Started
<1> QED
  BY <1>2, <1>3, <1>4

\* executeCall, on every path.
LEMMA ExecuteCallSound ==
  ASSUME NEW m, Sound(m), NEW in, Callable(m, in), NEW bad, NEW p \in ExecuteCall(m, in, bad)
  PROVE  Sound(p)
<1>1. m \in Machines /\ m.world \in World /\ m.checkpoints \in Seq(World) /\ in \in CallInput
  BY DEF Sound, Machines, Callable
<1>2. CASE Len(m.frames) > CallStackLimit
  <2>1. p = Deliver(m, Refused("Call", "CallTooDeep", in.gas))
    BY <1>2 DEF ExecuteCall
  <2>2. Refused("Call", "CallTooDeep", in.gas) \in LegalOutcome
    BY <1>1, RefusedType, Zenon DEF CallInput, Result, RevertResult
  <2> QED
    BY <2>1, <2>2, DeliverSound
<1>3. CASE /\ ~(Len(m.frames) > CallStackLimit)
           /\ in.moves /\ in.value > m.world.bal[in.caller] /\ bad # "Transfer"
  <2>1. p = Deliver(CheckpointRevert(Checkpoint(m)), Refused("Call", "OutOfFunds", in.gas))
    BY <1>3 DEF ExecuteCall
  <2>2. Sound(CheckpointRevert(Checkpoint(m)))
    BY CheckpointOpened, Reverted
  <2>3. Refused("Call", "OutOfFunds", in.gas) \in LegalOutcome
    BY <1>1, RefusedType, Zenon DEF CallInput, Result, RevertResult
  <2> QED
    BY <2>1, <2>2, <2>3, DeliverSound
<1>4. CASE /\ ~(Len(m.frames) > CallStackLimit)
           /\ ~(in.moves /\ in.value > m.world.bal[in.caller] /\ bad # "Transfer")
  <2> DEFINE n == Checkpoint(m)
             t == Transferred(n, in, bad)
  <2>1. p \in Entered(t, in, bad)
    BY <1>4 DEF ExecuteCall
  <2>2. Opened(m, n)
    BY CheckpointOpened
  <2>3. n.world = m.world /\ n.checkpoints = Append(m.checkpoints, m.world)
    BY <1>1 DEF Checkpoint, Machines
  <2>4. Last(n.checkpoints) = m.world
    BY <1>1, <2>3, AppendEnds
  <2> HIDE DEF n
  <2>5. Ready(m, t, in)
    <3>1. CASE ~in.moves \/ bad = "Transfer"
      BY <2>2, <2>3, <2>4, <3>1, Zenon DEF Transferred, Ready
    <3>2. CASE in.moves /\ bad # "Transfer"
      <4> DEFINE w == Moved(m.world, in.caller, in.self, in.value)
      <4>1. t = [n EXCEPT !.world = w]
        BY <2>3, <3>2 DEF Transferred
      <4>2. in.value <= m.world.bal[in.caller]
        BY <1>1, <1>4, <3>2 DEF CallInput, World
      <4>3. w \in World
        BY <1>1, <4>2, MovedType DEF CallInput
      <4>4. in.static => w = m.world
        BY <1>1, <3>2, MovedNothing DEF CallInput, Callable
      <4>5. StaticTop(m) => w = n.world
        BY <2>3, <4>4 DEF Callable
      <4> HIDE DEF w
      <4>6. Opened(m, t)
        BY <2>2, <4>1, <4>3, <4>5, OpenedRewritten
      <4>7. t.world = w /\ t.checkpoints = n.checkpoints
        BY <2>2, <4>1 DEF Opened, Machines
      <4> QED
        BY <2>4, <4>4, <4>6, <4>7 DEF Ready
    <3> QED
      BY <3>1, <3>2
  <2> QED
    BY <2>1, <2>5, EnteredSound
<1> QED
  BY <1>2, <1>3, <1>4
-----------------------------------------------------------------------------
(***************************************************************************)
(* executeCreate.                                                          *)
(***************************************************************************)
CreateInput == [self : Addr, caller : Addr, value : Nat, gas : Nat]

\* The nonce of a creator that has not reached 2^64 - 1.
LEMMA BumpNonceSound ==
  ASSUME NEW m, Sound(m), ~StaticTop(m), NEW a \in Addr, m.world.nonce[a] # MaxNonce
  PROVE  /\ Sound(BumpNonce(m, a)) /\ ~StaticTop(BumpNonce(m, a))
         /\ BumpNonce(m, a).world.bal = m.world.bal
<1> DEFINE w == [m.world EXCEPT !.nonce[a] = @ + 1]
<1>1. m \in Machines /\ m.world \in World
  BY DEF Sound, Machines
<1>2. m.world.nonce[a] \in 0 .. MaxNonce /\ MaxNonce \in Nat
  BY <1>1, FramesOK DEF World
<1>3. m.world.nonce[a] + 1 \in 0 .. MaxNonce
  BY <1>2
<1>4. w \in World /\ w.bal = m.world.bal
  BY <1>1, <1>3 DEF World
<1>5. BumpNonce(m, a) = [m EXCEPT !.world = w]
  BY <1>1 DEF BumpNonce, Machines
<1> HIDE DEF w
<1>6. [m EXCEPT !.world = w].world = w /\ [m EXCEPT !.world = w].frames = m.frames
  BY <1>1 DEF Machines
<1> QED
  BY <1>4, <1>5, <1>6, Rewritten DEF StaticTop, Top

\* CreateAccountCheckpoint opens one checkpoint.
LEMMA CreateAccountCheckpointOpened ==
  ASSUME NEW m, Sound(m), ~StaticTop(m), NEW in \in CreateInput, in.value <= m.world.bal[in.caller]
  PROVE  Opened(m, CreateAccountCheckpoint(m, in))
<1> DEFINE v == Moved(m.world, in.caller, in.self, in.value)
           w == IF Frontier THEN v ELSE [v EXCEPT !.nonce[in.self] = 1]
<1>1. m.world \in World
  BY DEF Sound, Machines
<1>2. v \in World
  BY <1>1, MovedType DEF CreateInput
<1> HIDE DEF v
<1>3. w \in World
  <2>1. 1 \in 0 .. MaxNonce
    BY FramesOK
  <2> QED
    BY <1>2, <2>1 DEF World
<1>4. CreateAccountCheckpoint(m, in) = [Checkpoint(m) EXCEPT !.world = w]
  BY DEF CreateAccountCheckpoint, v
<1> HIDE DEF w
<1> QED
  BY <1>3, <1>4, CheckpointOpened, OpenedRewritten

\* The creation runs its init code, or there is none.
LEMMA CreatedSound ==
  ASSUME NEW m, NEW n, Opened(m, n), ~StaticTop(m), NEW in \in CreateInput, NEW empty,
         NEW p \in Created(n, in, empty)
  PROVE  Sound(p)
<1>1. n \in Machines
  BY DEF Opened
<1>2. CASE empty
  <2> DEFINE o == [Refused("Create", "Stop", in.gas) EXCEPT !.made = TRUE]
  <2>1. p = Deliver(OnExit(CheckpointCommit(OnEnter(n))), o)
    BY <1>2 DEF Created
  <2>2. OnExit(CheckpointCommit(OnEnter(n))) = CheckpointCommit(n)
    BY <1>1, HooksBracket
  <2>3. Refused("Create", "Stop", in.gas) \in LegalOutcome
    BY RefusedType DEF CreateInput, Result, OkResult
  <2>4. o \in LegalOutcome
    BY <2>3, Zenon DEF LegalOutcome, Outcome
  <2> HIDE DEF o
  <2> QED
    BY <2>1, <2>2, <2>4, Committed, DeliverSound
<1>3. CASE ~empty
  <2> DEFINE f == NewFrame("Create", in, FALSE)
  <2>1. p = [OnEnter(n) EXCEPT !.frames = Append(@, f)]
    BY <1>3, Zenon DEF Created
  <2>2. f \in LegalFrame /\ ~f.static
    BY DEF NewFrame, LegalFrame, Frame, CreateInput, Data
  <2> HIDE DEF f
  <2> QED
    BY <2>1, <2>2, Started
<1> QED
  BY <1>2, <1>3

\* executeCreate, on every path.
LEMMA ExecuteCreateSound ==
  ASSUME NEW m, Sound(m), ~StaticTop(m), NEW in \in CreateInput, NEW empty, NEW bad,
         NEW p \in ExecuteCreate(m, in, empty, bad)
  PROVE  Sound(p)
<1> DEFINE bumped == BumpNonce(m, in.caller)
           refuse(n, result) == Deliver(n, Refused("Create", result, in.gas))
<1>1. m \in Machines /\ m.world \in World /\ in.caller \in Addr /\ in.gas \in Nat /\ in.value \in Nat
  BY DEF Sound, Machines, CreateInput
<1>2. \A n, result : Sound(n) /\ result \in Result => Sound(refuse(n, result))
  BY <1>1, RefusedType, DeliverSound
<1>3. {"CallTooDeep", "FatalExternalError", "OutOfFunds", "CreateCollision", "Return"} \subseteq Result
  BY DEF Result, OkResult, RevertResult, Failure
<1>4. \/ p \in {refuse(m, "CallTooDeep"), refuse(m, "FatalExternalError"),
               refuse(m, "OutOfFunds"), refuse(m, "Return")}
      \/ /\ ~(in.value > m.world.bal[in.caller]) /\ m.world.nonce[in.caller] # MaxNonce
         /\ \/ p \in {refuse(bumped, "FatalExternalError"), refuse(bumped, "CreateCollision")}
            \/ p \in Created(CreateAccountCheckpoint(bumped, in), in, empty)
  BY DEF ExecuteCreate
<1> HIDE DEF refuse, bumped
<1>5. CASE p \in {refuse(m, "CallTooDeep"), refuse(m, "FatalExternalError"),
                  refuse(m, "OutOfFunds"), refuse(m, "Return")}
  BY <1>2, <1>3, <1>5
<1>6. CASE ~(in.value > m.world.bal[in.caller]) /\ m.world.nonce[in.caller] # MaxNonce
  <2>1. Sound(bumped) /\ ~StaticTop(bumped) /\ bumped.world.bal = m.world.bal
    BY <1>1, <1>6, BumpNonceSound DEF bumped
  <2>2. in.value <= bumped.world.bal[in.caller]
    BY <1>1, <1>6, <2>1 DEF World
  <2>3. CASE p \in {refuse(bumped, "FatalExternalError"), refuse(bumped, "CreateCollision")}
    BY <1>2, <1>3, <2>1, <2>3
  <2>4. CASE p \in Created(CreateAccountCheckpoint(bumped, in), in, empty)
    <3>1. Opened(bumped, CreateAccountCheckpoint(bumped, in))
      BY <2>1, <2>2, CreateAccountCheckpointOpened
    <3> QED
      BY <2>1, <2>4, <3>1, CreatedSound
  <2> QED
    BY <1>2, <1>3, <1>4, <2>3, <2>4
<1> QED
  BY <1>4, <1>5, <1>6

-----------------------------------------------------------------------------
(***************************************************************************)
(* The end of a frame.                                                     *)
(***************************************************************************)
\* returnCreate, on every path.
LEMMA ReturnCreateSound ==
  ASSUME NEW m, NEW n, Opened(m, n), ~StaticTop(m), NEW o \in LegalOutcome, NEW self \in Addr,
         NEW output
  PROVE  Sound(ReturnCreate(n, o, self, output))
<1> DEFINE p == ReturnCreate(n, o, self, output)
           fail(result) == Deliver(CheckpointRevert(n), [o EXCEPT !.result = result])
           paid == output = "Empty" \/ o.gas >= DepositCost
           stored == output # "Empty" /\ paid
           left == IF stored THEN o.gas - DepositCost ELSE o.gas
           done == CheckpointCommit(n)
           with == IF stored THEN [done EXCEPT !.world.code[self] = TRUE] ELSE done
           kept == [o EXCEPT !.result = "Return", !.gas = left, !.data = "None", !.made = TRUE]
<1>1. p \in {fail(o.result), fail("CodeRefused"), fail("OutOfGas"), Deliver(with, kept)}
  BY DEF ReturnCreate
<1>2. o \in Outcome /\ o.gas \in Nat
  BY DEF LegalOutcome, Outcome
<1>3. \A result \in Result \cup {"None"} : Sound(fail(result))
  <2>1. SUFFICES ASSUME NEW result \in Result \cup {"None"} PROVE Sound(fail(result))
    OBVIOUS
  <2>2. [o EXCEPT !.result = result] \in LegalOutcome
    BY <1>2 DEF LegalOutcome, Outcome
  <2> QED
    BY <2>2, Reverted, DeliverSound
<1>4. {o.result, "CodeRefused", "OutOfGas"} \subseteq Result \cup {"None"}
  BY <1>2 DEF Outcome, Result, Failure
<1>5. left \in Nat
  BY <1>2, FramesOK
<1>6. kept \in LegalOutcome
  <2> HIDE DEF left
  <2>1. "Return" \in Result \cup {"None"}
    BY DEF Result, OkResult
  <2> QED
    BY <1>2, <1>5, <2>1, Zenon DEF LegalOutcome, Outcome, Data
<1>7. Sound(with)
  <2>1. Sound(done) /\ done.frames = m.frames
    BY Committed
  <2>2. ~StaticTop(done)
    BY <2>1 DEF StaticTop, Top
  <2> HIDE DEF done
  <2>3. done \in Machines /\ done.world \in World
    BY <2>1 DEF Sound, Machines
  <2> DEFINE w == [done.world EXCEPT !.code[self] = TRUE]
  <2>4. w \in World
    BY <2>3, Zenon DEF World
  <2>5. [done EXCEPT !.world.code[self] = TRUE] = [done EXCEPT !.world = w]
    BY <2>3 DEF Machines
  <2> HIDE DEF w
  <2>6. Sound([done EXCEPT !.world = w])
    BY <2>1, <2>2, <2>4, Rewritten
  <2> QED
    BY <2>1, <2>5, <2>6
<1> HIDE DEF p, fail, with, kept
<1>8. Sound(Deliver(with, kept))
  BY <1>6, <1>7, DeliverSound
<1>9. Sound(p)
  BY <1>1, <1>3, <1>4, <1>8
<1> QED
  BY <1>9 DEF p

\* Every way to end a frame, whatever it holds; but RETURN and REVERT must have set its output.
LEMMA FinishSound ==
  ASSUME NEW m, Sound(m), m.frames # <<>>, NEW result \in Result,
         result \in {"Return", "Revert"} => Top(m).data \in {"None", "Own"},
         NEW p \in Finish(m, result)
  PROVE  Sound(p)
<1> DEFINE f == Top(m)
           o == ResultFromHalt(f, result)
           n == OnExit(Popped(m))
<1>1. f \in LegalFrame
  <2>1. m.frames \in Seq(LegalFrame)
    BY DEF Sound, Machines
  <2> QED
    BY <2>1, FrontProperties DEF Top
<1>2. o \in LegalOutcome
  BY <1>1 DEF ResultFromHalt, LegalFrame, Frame, LegalOutcome, Outcome, Data
<1>3. PICK q : Opened(q, n) /\ (StaticTop(q) => f.static)
  BY Ended
<1>4. \/ p = Deliver(Close(n, result), o)
      \/ f.kind # "Call" /\ \E output \in Output(result) : p = ReturnCreate(n, o, f.self, output)
  BY DEF Finish
<1>5. f.self \in Addr /\ (f.kind = "Call" \/ f.kind = "Create")
  BY <1>1 DEF LegalFrame, Frame
<1>6. f.kind # "Call" => ~StaticTop(q)
  BY <1>1, <1>3, <1>5 DEF LegalFrame
<1> HIDE DEF f, o, n
<1>7. Sound(Deliver(Close(n, result), o))
  BY <1>2, <1>3, Closed, DeliverSound
<1> QED
  BY <1>2, <1>3, <1>4, <1>5, <1>6, <1>7, ReturnCreateSound
-----------------------------------------------------------------------------
(***************************************************************************)
(* The instructions.  Each is given a sound machine with a frame.          *)
(***************************************************************************)
\* No more is lent than there is.
LEMMA LendableType ==
  ASSUME NEW gas \in Nat
  PROVE  Lendable(gas) \in 0 .. gas
<1>1. gas \div Reduction \in Nat /\ gas \div Reduction <= gas
  BY FramesOK
<1> QED
  BY <1>1 DEF Lendable

\* Gas and refund may be any numbers.
LEMMA ChargedType ==
  ASSUME NEW f \in LegalFrame, NEW gas \in Nat, NEW refund \in Int
  PROVE  /\ [f EXCEPT !.gas = gas, !.refund = refund] \in LegalFrame
         /\ [f EXCEPT !.gas = gas, !.refund = refund].static = f.static
BY Zenon DEF LegalFrame, Frame

\* Charging the top frame.
LEMMA PaySound ==
  ASSUME NEW m, Sound(m), m.frames # <<>>, NEW cost \in Nat, CanPay(m, cost)
  PROVE  /\ Sound(Pay(m, cost)) /\ Pay(m, cost).frames # <<>>
         /\ Top(Pay(m, cost)).static = Top(m).static
<1> DEFINE f == [Top(m) EXCEPT !.gas = @ - cost]
<1>1. Top(m) \in LegalFrame
  BY FrontProperties DEF Top, Sound, Machines
<1>2. Top(m).gas - cost \in Nat
  BY <1>1 DEF CanPay, LegalFrame, Frame
<1>3. f \in LegalFrame /\ f.static = Top(m).static
  BY <1>1, <1>2 DEF LegalFrame, Frame
<1> HIDE DEF f
<1> QED
  BY <1>3, SetTopSound, Zenon DEF Pay, f

\* opSstore.
LEMMA OpSstoreSound ==
  ASSUME NEW m, Sound(m), m.frames # <<>>, NEW v \in {0, 1}, NEW p \in OpSstore(m, v)
  PROVE  Sound(p)
<1> DEFINE f == Top(m)
           w == [m.world EXCEPT !.slot[f.self] = v]
           written == [m EXCEPT !.world = w]
           refund == ClearRefund(Start.slot[f.self], m.world.slot[f.self], v)
           g == [f EXCEPT !.gas = @ - OpCost, !.refund = @ + refund]
<1>1. m \in Machines /\ m.world \in World /\ m.frames \in Seq(LegalFrame)
  BY DEF Sound, Machines
<1>2. f \in LegalFrame /\ f.self \in Addr /\ f.gas \in Nat /\ f.refund \in Int
  <2>1. f \in LegalFrame
    BY <1>1, FrontProperties DEF Top
  <2> QED
    BY <2>1 DEF LegalFrame, Frame
<1>3. [m EXCEPT !.world.slot[f.self] = v] = written
  BY <1>1 DEF Machines
<1>4. w \in World
  BY <1>1, Zenon DEF World
<1>5. refund \in Int
  BY DEF ClearRefund
<1>6. {"StaticViolation", "OutOfGas"} \subseteq Result \ {"Return", "Revert"}
  BY DEF Result, Failure
<1> HIDE DEF w, refund
<1>7. written.frames = m.frames /\ Top(written) = f
  BY <1>1 DEF Machines, Top
<1>8. \/ p \in Finish(m, "StaticViolation")
      \/ p \in Finish(m, "OutOfGas")
      \/ ~f.static /\ p \in Finish(written, "OutOfGas")
      \/ ~f.static /\ CanPay(m, OpCost) /\ p = SetTop(written, g)
  BY <1>3 DEF OpSstore, refund
<1>9. CASE p \in Finish(m, "StaticViolation") \/ p \in Finish(m, "OutOfGas")
  BY <1>6, <1>9, FinishSound
<1>10. CASE ~f.static
  <2>1. Sound(written)
    BY <1>4, <1>10, Rewritten DEF StaticTop
  <2> HIDE DEF written
  <2>2. CASE p \in Finish(written, "OutOfGas")
    BY <1>6, <1>7, <2>1, <2>2, FinishSound
  <2>3. CASE CanPay(m, OpCost) /\ p = SetTop(written, g)
    <3>1. f.gas - OpCost \in Nat /\ f.refund + refund \in Int
      <4>1. f.gas >= OpCost
        BY <2>3 DEF CanPay
      <4>2. OpCost \in Nat
        BY FramesOK
      <4> HIDE DEF f
      <4> QED
        BY <1>2, <1>5, <4>1, <4>2
    <3>2. g \in LegalFrame /\ g.static = f.static
      BY <1>2, <3>1, ChargedType, Zenon
    <3> HIDE DEF f, g
    <3> QED
      BY <1>7, <2>1, <2>3, <3>2, SetTopSound
  <2> QED
    BY <1>8, <1>9, <2>2, <2>3
<1> QED
  BY <1>8, <1>9, <1>10

\* opSelfdestruct.
LEMMA OpSelfdestructSound ==
  ASSUME NEW m, Sound(m), m.frames # <<>>, NEW to \in Addr, NEW burnt, NEW bad,
         NEW p \in OpSelfdestruct(m, to, burnt, bad)
  PROVE  Sound(p)
<1> DEFINE f == Top(m)
           moved == Moved(m.world, f.self, to, m.world.bal[f.self])
           w == IF burnt THEN [moved EXCEPT !.bal[to] = 0] ELSE moved
           gone == IF bad = "Beneficiary" THEN m ELSE [m EXCEPT !.world = w]
<1>1. m \in Machines /\ m.world \in World /\ m.frames \in Seq(LegalFrame)
  BY DEF Sound, Machines
<1>2. f.self \in Addr
  <2>1. f \in LegalFrame
    BY <1>1, FrontProperties DEF Top
  <2> QED
    BY <2>1 DEF LegalFrame, Frame
<1>3. moved \in World
  <2>1. m.world.bal[f.self] \in Nat /\ m.world.bal[f.self] <= m.world.bal[f.self]
    BY <1>1, <1>2 DEF World
  <2> QED
    BY <1>1, <1>2, <2>1, MovedType
<1> HIDE DEF moved
<1>4. w \in World
  BY <1>3, Zenon DEF World
<1>5. {"StaticViolation", "OutOfGas", "SelfDestruct"} \subseteq Result \ {"Return", "Revert"}
  BY DEF Result, Failure, OkResult
<1> HIDE DEF w
<1>6. gone.frames = m.frames /\ Top(gone) = f
  BY <1>1 DEF Machines, Top
<1>7. \/ p \in Finish(m, "StaticViolation")
      \/ ~f.static /\ p \in Finish(gone, "OutOfGas")
      \/ ~f.static /\ CanPay(m, OpCost) /\ p \in Finish(Pay(gone, OpCost), "SelfDestruct")
  BY DEF OpSelfdestruct, moved, w
<1>8. CASE p \in Finish(m, "StaticViolation")
  BY <1>5, <1>8, FinishSound
<1>9. CASE ~f.static
  <2>1. Sound(gone)
    BY <1>4, <1>9, Rewritten DEF StaticTop
  <2> HIDE DEF gone
  <2>2. CASE p \in Finish(gone, "OutOfGas")
    BY <1>5, <1>6, <2>1, <2>2, FinishSound
  <2>3. CASE CanPay(m, OpCost) /\ p \in Finish(Pay(gone, OpCost), "SelfDestruct")
    <3>1. CanPay(gone, OpCost) /\ OpCost \in Nat
      BY <1>6, <2>3, FramesOK DEF CanPay
    <3>2. Sound(Pay(gone, OpCost)) /\ Pay(gone, OpCost).frames # <<>>
      BY <1>6, <2>1, <3>1, PaySound
    <3> QED
      BY <1>5, <2>3, <3>2, FinishSound
  <2> QED
    BY <1>7, <1>8, <2>2, <2>3
<1> QED
  BY <1>7, <1>8, <1>9

\* The four kinds of call.
LEMMA OpCallSound ==
  ASSUME NEW m, Sound(m), m.frames # <<>>, NEW scheme, NEW to \in Addr, NEW value \in Amount,
         NEW asked \in Asked, NEW bad, scheme \in {"Call", "CallCode", "Delegate", "Static"},
         scheme \in {"Delegate", "Static"} => value = 0,
         NEW p \in OpCall(m, scheme, to, value, asked, bad)
  PROVE  Sound(p)
<1> DEFINE f == Top(m)
           cost == IF value > 0 THEN CallCost + TransferCost ELSE CallCost
           cap == Lendable(f.gas - cost)
           gas == IF asked < cap \/ Frontier THEN asked ELSE cap
           paid == Pay(m, cost + gas)
           in == CallInputs(f, scheme, to, value, gas)
<1>1. m \in Machines /\ m.frames \in Seq(LegalFrame)
  BY DEF Sound, Machines
<1>2. f \in LegalFrame /\ f \in Frame
  BY <1>1, FrontProperties DEF Top, LegalFrame
<1>3. cost \in Nat /\ asked \in Nat /\ value \in Nat /\ f.gas \in Nat /\ Stipend \in Nat
  BY <1>2, FramesOK, SMTT(30) DEF Frame
<1>4. {"StaticViolation", "OutOfGas"} \subseteq Result \ {"Return", "Revert"}
  BY DEF Result, Failure
<1>5. \/ p \in Finish(m, "StaticViolation")
      \/ p \in Finish(m, "OutOfGas")
      \/ /\ ~(f.static /\ value > 0 /\ scheme = "Call") /\ CanPay(m, cost) /\ CanPay(m, cost + gas)
         /\ p \in ExecuteCall(paid, in, bad)
  BY DEF OpCall
<1>6. CASE p \in Finish(m, "StaticViolation") \/ p \in Finish(m, "OutOfGas")
  BY <1>4, <1>6, FinishSound
<1>7. CASE /\ ~(f.static /\ value > 0 /\ scheme = "Call") /\ CanPay(m, cost) /\ CanPay(m, cost + gas)
           /\ p \in ExecuteCall(paid, in, bad)
  <2> HIDE DEF cost
  <2>1. cap \in Nat
    <3>1. f.gas - cost \in Nat
      BY <1>3, <1>7 DEF CanPay
    <3> QED
      BY <3>1, LendableType
  <2> HIDE DEF cap
  <2>2. gas \in Nat
    BY <1>3, <2>1
  <2> HIDE DEF gas
  <2>3. cost + gas \in Nat
    BY <1>3, <2>2
  <2>4. Sound(paid) /\ Top(paid).static = f.static
    BY <1>7, <2>3, PaySound
  <2> HIDE DEF paid
  <2>5. in \in CallInput
    <3>1. (IF value > 0 THEN gas + Stipend ELSE gas) \in Nat
      BY <1>3, <2>2
    <3> QED
      BY <1>2, <1>3, <3>1 DEF CallInputs, CallInput, Frame
  <2>6. StaticTop(paid) => in.static
    BY <1>2, <2>4, Zenon DEF StaticTop, CallInputs, Frame
  <2>7. in.static /\ in.moves => in.value = 0 \/ in.caller = in.self
    <3>1. scheme # "Delegate" => in.value = value /\ in.caller = f.self
      BY DEF CallInputs
    <3>2. scheme = "CallCode" => in.self = f.self
      BY DEF CallInputs
    <3>3. in.moves = (scheme # "Delegate") /\ in.static = (f.static \/ scheme = "Static")
      BY DEF CallInputs
    <3>4. value > 0 \/ value = 0
      BY <1>3
    <3> QED
      BY <1>7, <3>1, <3>2, <3>3, <3>4, Zenon
  <2> QED
    BY <1>7, <2>4, <2>5, <2>6, <2>7, ExecuteCallSound DEF Callable
<1> QED
  BY <1>5, <1>6, <1>7

\* createInner.
LEMMA OpCreateSound ==
  ASSUME NEW m, Sound(m), m.frames # <<>>, NEW new \in New, NEW value \in Amount, NEW empty, NEW bad,
         NEW p \in OpCreate(m, new, value, empty, bad)
  PROVE  Sound(p)
<1> DEFINE f == Top(m)
           gas == Lendable(f.gas - CreateCost)
           paid == Pay(m, CreateCost + gas)
           in == [self |-> new, caller |-> f.self, value |-> value, gas |-> gas]
<1>1. m \in Machines /\ m.frames \in Seq(LegalFrame)
  BY DEF Sound, Machines
<1>2. f \in Frame
  BY <1>1, FrontProperties DEF Top, LegalFrame
<1>3. {"StaticViolation", "OutOfGas"} \subseteq Result \ {"Return", "Revert"}
  BY DEF Result, Failure
<1>4. \/ p \in Finish(m, "StaticViolation")
      \/ p \in Finish(m, "OutOfGas")
      \/ ~f.static /\ CanPay(m, CreateCost) /\ p \in ExecuteCreate(paid, in, empty, bad)
  BY DEF OpCreate
<1>5. CASE p \in Finish(m, "StaticViolation") \/ p \in Finish(m, "OutOfGas")
  BY <1>3, <1>5, FinishSound
<1>6. CASE ~f.static /\ CanPay(m, CreateCost) /\ p \in ExecuteCreate(paid, in, empty, bad)
  <2>1. f.gas - CreateCost \in Nat /\ f.gas \in Nat /\ CreateCost \in Nat
    BY <1>2, <1>6, FramesOK DEF CanPay, Frame
  <2>2. gas \in 0 .. f.gas - CreateCost
    BY <2>1, LendableType, Zenon
  <2> HIDE DEF gas
  <2>3. CreateCost + gas \in Nat /\ CanPay(m, CreateCost + gas)
    BY <2>1, <2>2 DEF CanPay
  <2>4. Sound(paid) /\ Top(paid).static = f.static
    BY <2>3, PaySound
  <2> HIDE DEF paid
  <2>5. in \in CreateInput
    BY <1>2, <2>2, FramesOK DEF CreateInput, Frame
  <2> QED
    BY <1>6, <2>4, <2>5, ExecuteCreateSound DEF StaticTop
<1> QED
  BY <1>4, <1>5, <1>6

\* opReturn and opRevert.
LEMMA OpReturnSound ==
  ASSUME NEW m, Sound(m), m.frames # <<>>, NEW result \in {"Return", "Revert"},
         NEW data \in {"None", "Own"}, NEW p \in OpReturn(m, result, data)
  PROVE  Sound(p)
<1> DEFINE f == [Top(m) EXCEPT !.data = data]
           n == SetTop(m, f)
<1>1. m.frames \in Seq(LegalFrame)
  BY DEF Sound, Machines
<1>2. Top(m) \in LegalFrame
  BY <1>1, FrontProperties DEF Top
<1>3. f \in LegalFrame /\ f.static = Top(m).static /\ f.data = data
  BY <1>2 DEF LegalFrame, Frame, Data
<1> HIDE DEF f
<1>4. Sound(n) /\ n.frames # <<>> /\ Top(n) = f
  BY <1>3, SetTopSound
<1>5. p \in Finish(n, result)
  BY DEF OpReturn, f
<1>6. result \in Result
  BY DEF Result, OkResult, RevertResult
<1> QED
  BY <1>3, <1>4, <1>5, <1>6, FinishSound
-----------------------------------------------------------------------------
(***************************************************************************)
(* The specification.                                                      *)
(***************************************************************************)
IInv == Sound(Machine)

\* The variables take the value of a sound machine.
LEMMA BecomeSound ==
  ASSUME NEW m, Sound(m), Become(m)
  PROVE  IInv'
<1>1. m \in Machines
  BY DEF Sound
<1>2. Machine' = m
  BY <1>1 DEF Machine, Become, Machines
<1>3. IInv' = Sound(Machine')
  BY DEF IInv, Sound, Machines, Paired, Frozen
<1> QED
  BY <1>2, <1>3

\* Nothing runs at first.
LEMMA InitSound == Init => IInv
<1> SUFFICES ASSUME Init PROVE IInv
  OBVIOUS
<1> DEFINE m == Machine
<1>1. Refused("Call", "None", 0) \in LegalOutcome
  BY RefusedType
<1>2. /\ m \in Machines /\ m.frames = <<>> /\ m.checkpoints = <<>> /\ m.hooks = <<>>
  BY <1>1, FramesOK DEF Init, Machine, Machines
<1>3. Len(m.frames) = 0 /\ Depths(0) = <<>>
  BY <1>2 DEF Depths
<1> QED
  BY <1>2, <1>3 DEF IInv, Sound, Paired, Frozen

\* Every instruction, and the start of the transaction, keeps the invariant.
LEMMA NextSound == IInv /\ [Next]_vars => IInv'
<1> SUFFICES ASSUME IInv, [Next]_vars PROVE IInv'
  OBVIOUS
<1>1. Sound(Machine) /\ Machine.frames = frames
  BY DEF IInv, Machine
<1>2. CASE Transact
  <2>1. ~StaticTop(Machine) /\ Sender \in Addr /\ GasLimit \in Nat
    BY <1>1, <1>2, FramesOK DEF Transact, Running, StaticTop
  <2>2. ASSUME NEW value \in Amount, NEW to \in Addr, NEW bad, NEW m,
               m \in ExecuteCall(Machine,
                       [self |-> to, code |-> to, caller |-> Sender, value |-> value,
                        moves |-> TRUE, static |-> FALSE, gas |-> GasLimit], bad)
        PROVE  Sound(m)
    <3> DEFINE in == [self |-> to, code |-> to, caller |-> Sender, value |-> value,
                      moves |-> TRUE, static |-> FALSE, gas |-> GasLimit]
    <3>1. in \in CallInput /\ ~in.static
      BY <2>1, FramesOK DEF CallInput
    <3>2. m \in ExecuteCall(Machine, in, bad)
      BY <2>2
    <3> HIDE DEF in
    <3> QED
      BY <1>1, <2>1, <3>1, <3>2, ExecuteCallSound DEF Callable
  <2>3. ASSUME NEW value \in Amount, NEW new \in New, NEW empty, NEW bad, NEW m,
               m \in ExecuteCreate(Machine, [self |-> new, caller |-> Sender, value |-> value,
                                             gas |-> GasLimit], empty, bad)
        PROVE  Sound(m)
    <3> DEFINE in == [self |-> new, caller |-> Sender, value |-> value, gas |-> GasLimit]
    <3>1. in \in CreateInput
      BY <2>1, FramesOK DEF CreateInput
    <3>2. m \in ExecuteCreate(Machine, in, empty, bad)
      BY <2>3
    <3> HIDE DEF in
    <3> QED
      BY <1>1, <2>1, <3>1, <3>2, ExecuteCreateSound
  <2> QED
    BY <1>2, <2>2, <2>3, BecomeSound, Zenon DEF Transact
<1>3. CASE Sstore
  BY <1>1, <1>3, OpSstoreSound, BecomeSound DEF Sstore, Running
<1>4. CASE Selfdestruct
  BY <1>1, <1>4, OpSelfdestructSound, BecomeSound DEF Selfdestruct, Running
<1>5. CASE Call
  <2>1. PICK scheme \in Schemes, to \in Addr, value \in Amount, asked \in Asked :
          \E bad \in Bad(CallAccess(to)) :
            /\ scheme \in {"Delegate", "Static"} => value = 0
            /\ \E m \in OpCall(Machine, scheme, to, value, asked, bad) : Become(m)
    BY <1>5 DEF Call
  <2>2. scheme \in {"Call", "CallCode", "Delegate", "Static"}
    BY DEF Schemes
  <2> QED
    BY <1>1, <1>5, <2>1, <2>2, OpCallSound, BecomeSound DEF Call, Running
<1>6. CASE Create
  BY <1>1, <1>6, OpCreateSound, BecomeSound DEF Create, Running
<1>7. CASE Return
  <2>1. PICK result \in {"Return", "Revert"}, data \in {"None", "Own"} :
               \E m \in OpReturn(Machine, result, data) : Become(m)
    BY <1>7 DEF Return
  <2> QED
    BY <1>1, <1>7, <2>1, OpReturnSound, BecomeSound DEF Return, Running
<1>8. CASE Halt
  <2>1. {"Stop", "Error"} \subseteq Result \ {"Return", "Revert"}
    BY DEF Result, OkResult, Failure
  <2> QED
    BY <1>1, <1>8, <2>1, FinishSound, BecomeSound DEF Halt, Running
<1>9. CASE UNCHANGED vars
  <2>1. Machine' = Machine
    BY <1>9 DEF vars, Machine
  <2> QED
    BY <1>1, <2>1 DEF IInv, Sound, Machines, Paired, Frozen
<1> QED
  BY <1>2, <1>3, <1>4, <1>5, <1>6, <1>7, <1>8, <1>9 DEF Next

\* The inductive invariant: between two instructions each frame has its checkpoint, its OnEnter
\* and legal fields, and what runs below a static frame has left the world as it was.
THEOREM FramesAlwaysSound == Spec => []IInv
<1> QED
  BY InitSound, NextSound, PTL DEF Spec

-----------------------------------------------------------------------------
(***************************************************************************)
(* What follows from it.                                                   *)
(***************************************************************************)

\* Whatever the programs do and whatever database accesses fail, no nonce passes 2^64 - 1, no
\* balance or gas goes below zero, and frames and results are those of vm/action.go.
THEOREM FramesTypeCorrect == Spec => []TypeOK
<1>1. IInv => TypeOK
  <2> SUFFICES ASSUME IInv PROVE TypeOK
    OBVIOUS
  <2>1. /\ world \in World /\ checkpoints \in Seq(World) /\ frames \in Seq(LegalFrame)
        /\ hooks \in Seq(Nat) /\ outcome \in LegalOutcome
    BY DEF IInv, Sound, Machine, Machines
  <2>2. LegalFrame \subseteq Frame /\ LegalOutcome \subseteq Outcome
    BY DEF LegalFrame, LegalOutcome
  <2>3. frames \in Seq(Frame)
    BY <2>1, <2>2
  <2> QED
    BY <2>1, <2>2, <2>3 DEF TypeOK
<1> QED
  BY <1>1, FramesAlwaysSound, PTL

\* On every path through executeCall, executeCreate, executePrecompile and returnCreate, for
\* any call-stack limit and any program, each frame that runs has one checkpoint and one
\* OnEnter to close, in the order of their depths.
THEOREM FramesAlwaysPaired == Spec => []FramesPaired
<1>1. IInv => FramesPaired
  BY DEF IInv, Sound, Paired, Depths, Machine, FramesPaired
<1> QED
  BY <1>1, FramesAlwaysSound, PTL

\* Nothing that a static frame starts, however deep and by whatever scheme, changes the world
\* (IsStatic in opCall, createInner, opSstore and opSelfdestruct).
THEOREM StaticFramesNeverWrite == Spec => []StaticNeverWrites
<1>1. IInv => StaticNeverWrites
  <2> SUFFICES ASSUME IInv PROVE StaticNeverWrites
    OBVIOUS
  <2>1. frames \in Seq(LegalFrame) /\ Frozen(Machine)
    BY DEF IInv, Sound, Machine, Machines
  <2>2. DOMAIN frames = 1 .. Len(frames)
    BY <2>1
  <2> QED
    BY <2>1, <2>2 DEF Frozen, Machine, StaticNeverWrites
<1> QED
  BY <1>1, FramesAlwaysSound, PTL

\* No frame ever shows the output of a sub-frame of a sub-frame, and none hands up what it did
\* not produce itself: the return-data buffer is never stale (InterpreterResultFromHalt).
THEOREM FramesOutputFresh == Spec => []OutputIsFresh
<1>1. IInv => OutputIsFresh
  <2> SUFFICES ASSUME IInv PROVE OutputIsFresh
    OBVIOUS
  <2>1. frames \in Seq(LegalFrame) /\ outcome \in LegalOutcome
    BY DEF IInv, Sound, Machine, Machines
  <2>2. \A i \in DOMAIN frames : frames[i] \in LegalFrame
    BY <2>1
  <2> QED
    BY <2>1, <2>2 DEF LegalFrame, LegalOutcome, OutputIsFresh
<1> QED
  BY <1>1, FramesAlwaysSound, PTL
-----------------------------------------------------------------------------
(***************************************************************************)
(* Gas and refunds.  TotalGas and TotalRefund are folds over the frames:   *)
(* they are shown to be the sums of SumProofs, which can be reasoned about *)
(* one frame at a time.                                                    *)
(***************************************************************************)
\* What the frames hold.
Gases(fs) == [i \in DOMAIN fs |-> fs[i].gas]
Refunds(fs) == [i \in DOMAIN fs |-> fs[i].refund]
GasIn(fs) == SumOver(Gases(fs), 1 .. Len(fs))
RefundIn(fs) == SumOver(Refunds(fs), 1 .. Len(fs))

\* The folds of TotalGas and TotalRefund are these sums.
LEMMA FoldIsSum ==
  ASSUME NEW fs \in Seq(LegalFrame)
  PROVE  /\ FoldSeq(LAMBDA f, n : f.gas + n, 0, fs) = GasIn(fs)
         /\ FoldSeq(LAMBDA f, n : f.refund + n, 0, fs) = RefundIn(fs)
<1> DEFINE S == DOMAIN fs
           gas == CHOOSE g : g = [s \in SUBSET S |-> IF s = {} THEN 0
                    ELSE fs[CHOOSE x \in s : TRUE].gas + g[s \ {CHOOSE x \in s : TRUE}]]
           refund == CHOOSE g : g = [s \in SUBSET S |-> IF s = {} THEN 0
                       ELSE fs[CHOOSE x \in s : TRUE].refund + g[s \ {CHOOSE x \in s : TRUE}]]
<1>1. FoldSeq(LAMBDA f, n : f.gas + n, 0, fs) = gas[S]
  BY DEF FoldSeq, FoldFunction, FoldFunctionOnSet, MapThenFoldSet
<1>2. FoldSeq(LAMBDA f, n : f.refund + n, 0, fs) = refund[S]
  BY DEF FoldSeq, FoldFunction, FoldFunctionOnSet, MapThenFoldSet
<1>3. S = 1 .. Len(fs) /\ Len(fs) \in Nat
  BY LenProperties
<1>4. IsFiniteSet(S)
  BY <1>3, FS_Interval
<1>5. \A s \in SUBSET S : s # {} => /\ Gases(fs)[Pick(s)] = fs[Pick(s)].gas
                                    /\ Refunds(fs)[Pick(s)] = fs[Pick(s)].refund
  BY DEF Pick, Gases, Refunds
<1>6. Summing(gas, Gases(fs), S)
  <2>1. PICK g : Summing(g, Gases(fs), S)
    BY <1>4, SummingExists
  <2>2. g = [s \in SUBSET S |-> IF s = {} THEN 0 ELSE fs[Pick(s)].gas + g[s \ {Pick(s)}]]
    BY <1>5, <2>1, Zenon DEF Summing
  <2>3. gas = [s \in SUBSET S |-> IF s = {} THEN 0 ELSE fs[Pick(s)].gas + gas[s \ {Pick(s)}]]
    BY <2>2, ZenonT(60) DEF Pick
  <2> HIDE DEF gas
  <2> QED
    BY <1>5, <2>3, Zenon DEF Summing
<1>7. Summing(refund, Refunds(fs), S)
  <2>1. PICK g : Summing(g, Refunds(fs), S)
    BY <1>4, SummingExists
  <2>2. g = [s \in SUBSET S |-> IF s = {} THEN 0 ELSE fs[Pick(s)].refund + g[s \ {Pick(s)}]]
    BY <1>5, <2>1, Zenon DEF Summing
  <2>3. refund = [s \in SUBSET S |-> IF s = {} THEN 0
                                       ELSE fs[Pick(s)].refund + refund[s \ {Pick(s)}]]
    BY <2>2, ZenonT(60) DEF Pick
  <2> HIDE DEF refund
  <2> QED
    BY <1>5, <2>3, Zenon DEF Summing
<1> HIDE DEF gas, refund, S
<1> QED
  BY <1>1, <1>2, <1>3, <1>4, <1>6, <1>7, SumIsFold, Zenon DEF GasIn, RefundIn

\* A frame more, a frame less, a frame replaced.
LEMMA SumsOf ==
  ASSUME NEW fs \in Seq(LegalFrame)
  PROVE  /\ GasIn(fs) \in Int /\ RefundIn(fs) \in Int
         /\ GasIn(<<>>) = 0 /\ RefundIn(<<>>) = 0
<1>1. Len(fs) \in Nat /\ IsFiniteSet(1 .. Len(fs)) /\ DOMAIN fs = 1 .. Len(fs)
  BY LenProperties, FS_Interval
<1>2. \A i \in 1 .. Len(fs) : Gases(fs)[i] \in Int /\ Refunds(fs)[i] \in Int
  BY <1>1, ElementOfSeq DEF Gases, Refunds, LegalFrame, Frame
<1>3. 1 .. Len(<<>>) = {}
  OBVIOUS
<1> QED
  BY <1>1, <1>2, <1>3, SumType, SumEmpty, Zenon DEF GasIn, RefundIn

\* One frame more, with what it holds.
LEMMA SumsAppend ==
  ASSUME NEW fs \in Seq(LegalFrame), NEW f \in LegalFrame
  PROVE  /\ GasIn(Append(fs, f)) = GasIn(fs) + f.gas
         /\ RefundIn(Append(fs, f)) = RefundIn(fs) + f.refund
         /\ \A i \in 0 .. Len(fs) : SumOver(Refunds(Append(fs, f)), 1 .. i)
                                    = SumOver(Refunds(fs), 1 .. i)
<1> DEFINE n == Len(fs)
           gs == Append(fs, f)
<1>1. n \in Nat /\ DOMAIN fs = 1 .. n /\ gs \in Seq(LegalFrame) /\ Len(gs) = n + 1
      /\ gs[n + 1] = f /\ \A i \in 1 .. n : gs[i] = fs[i]
  BY LenProperties, AppendProperties
<1>2. DOMAIN gs = 1 .. n + 1 /\ \A i \in 1 .. n + 1 : gs[i] \in LegalFrame
  BY <1>1, LenProperties, ElementOfSeq
<1> HIDE DEF gs
<1>3. \A i \in 1 .. n + 1 : /\ Gases(gs)[i] = gs[i].gas /\ Gases(gs)[i] \in Int
                            /\ Refunds(gs)[i] = gs[i].refund /\ Refunds(gs)[i] \in Int
  BY <1>2 DEF Gases, Refunds, LegalFrame, Frame
<1>4. \A i \in 1 .. n : Gases(gs)[i] = Gases(fs)[i] /\ Refunds(gs)[i] = Refunds(fs)[i]
  <2>1. \A i \in 1 .. n : i \in 1 .. n + 1
    BY <1>1
  <2> QED
    BY <1>1, <1>3, <2>1 DEF Gases, Refunds
<1>5. ASSUME NEW i \in 0 .. n
      PROVE  /\ SumOver(Gases(gs), 1 .. i) = SumOver(Gases(fs), 1 .. i)
             /\ SumOver(Refunds(gs), 1 .. i) = SumOver(Refunds(fs), 1 .. i)
  <2>1. IsFiniteSet(1 .. i) /\ \A j \in 1 .. i : j \in 1 .. n
    BY <1>1, FS_Interval
  <2> QED
    BY <1>4, <2>1, SumAgree, Zenon
<1>6. /\ SumOver(Gases(gs), 1 .. n + 1) = SumOver(Gases(gs), 1 .. n) + Gases(gs)[n + 1]
      /\ SumOver(Refunds(gs), 1 .. n + 1) = SumOver(Refunds(gs), 1 .. n) + Refunds(gs)[n + 1]
  BY <1>1, <1>3, SumNext
<1>7. n + 1 \in 1 .. n + 1 /\ n \in 0 .. n
  BY <1>1
<1>8. Gases(gs)[n + 1] = f.gas /\ Refunds(gs)[n + 1] = f.refund
  BY <1>1, <1>3, <1>7
<1>9. /\ SumOver(Gases(gs), 1 .. n) = SumOver(Gases(fs), 1 .. n)
      /\ SumOver(Refunds(gs), 1 .. n) = SumOver(Refunds(fs), 1 .. n)
  BY <1>5, <1>7
<1>10. GasIn(gs) = GasIn(fs) + f.gas /\ RefundIn(gs) = RefundIn(fs) + f.refund
  BY <1>1, <1>6, <1>8, <1>9 DEF GasIn, RefundIn
<1> QED
  BY <1>5, <1>10 DEF gs

\* The top frame, and the sums of those below it.
LEMMA SumsFront ==
  ASSUME NEW fs \in Seq(LegalFrame), fs # <<>>
  PROVE  /\ GasIn(fs) = GasIn(Front(fs)) + Last(fs).gas
         /\ RefundIn(fs) = RefundIn(Front(fs)) + Last(fs).refund
         /\ \A i \in 0 .. Len(fs) - 1 : SumOver(Refunds(fs), 1 .. i)
                                        = SumOver(Refunds(Front(fs)), 1 .. i)
<1>1. fs = Append(Front(fs), Last(fs)) /\ Front(fs) \in Seq(LegalFrame) /\ Last(fs) \in LegalFrame
      /\ Len(Front(fs)) = Len(fs) - 1
  BY FrontAppendLast, FrontProperties
<1> DEFINE gs == Front(fs)
           f == Last(fs)
<1> HIDE DEF gs, f
<1>2. gs \in Seq(LegalFrame) /\ f \in LegalFrame /\ fs = Append(gs, f) /\ Len(gs) = Len(fs) - 1
  BY <1>1 DEF gs, f
<1>3. /\ GasIn(Append(gs, f)) = GasIn(gs) + f.gas
      /\ RefundIn(Append(gs, f)) = RefundIn(gs) + f.refund
      /\ \A i \in 0 .. Len(gs) : SumOver(Refunds(Append(gs, f)), 1 .. i)
                                  = SumOver(Refunds(gs), 1 .. i)
  BY <1>2, SumsAppend
<1> QED
  BY <1>2, <1>3, Zenon DEF gs, f
-----------------------------------------------------------------------------
(***************************************************************************)
(* What the functions of the handler do to the frames: a call is Answered  *)
(* or Opens a frame, and a frame Ends.                                     *)
(***************************************************************************)
\* A call or a creation succeeded.
Won(o) == o.result \in OkResult /\ (o.kind = "Create" => o.made)

\* No frame was opened: whoever waits gets the result, with at most this gas.
Answered(m, p, gas) ==
  \E x \in Machines, o \in LegalOutcome :
    /\ p = Deliver(x, o)
    /\ x.frames = m.frames /\ x.checkpoints = m.checkpoints
    /\ x.world.slot = m.world.slot
    /\ o.gas <= gas /\ o.refund = 0
    /\ Won(o) \/ x.world \in {m.world} \cup Bumped(m.world)

\* A frame was opened.
Opens(m, p, in) ==
  \E f \in LegalFrame, c \in World :
    /\ p.frames = Append(m.frames, f) /\ p.checkpoints = Append(m.checkpoints, c)
    /\ f.self = in.self /\ f.caller = in.caller /\ f.value = in.value
    /\ f.gas = in.gas /\ f.refund = 0
    /\ c.slot = m.world.slot /\ c.bal = m.world.bal /\ p.world.slot = m.world.slot

\* The value has gone from one account to the other.
Paid(m, p, in) ==
  in.caller # in.self =>
    /\ p.world.bal[in.self] = m.world.bal[in.self] + in.value
    /\ p.world.bal[in.caller] = m.world.bal[in.caller] - in.value

\* Moving value leaves the slots alone.
LEMMA MovedBalances ==
  ASSUME NEW w \in World, NEW from \in Addr, NEW to \in Addr, NEW v
  PROVE  /\ Moved(w, from, to, v).slot = w.slot
         /\ from # to => /\ Moved(w, from, to, v).bal[to] = w.bal[to] + v
                         /\ Moved(w, from, to, v).bal[from] = w.bal[from] - v
BY DEF Moved, World

\* n has one checkpoint more than m, of the world c.
LEMMA OneMore ==
  ASSUME NEW m \in Machines, NEW n \in Machines, NEW c \in World, n.frames = m.frames,
         n.checkpoints = Append(m.checkpoints, c)
  PROVE  /\ CheckpointRevert(n) \in Machines /\ CheckpointRevert(n).frames = m.frames
         /\ CheckpointRevert(n).checkpoints = m.checkpoints /\ CheckpointRevert(n).world = c
         /\ CheckpointCommit(n) \in Machines /\ CheckpointCommit(n).frames = m.frames
         /\ CheckpointCommit(n).checkpoints = m.checkpoints
         /\ CheckpointCommit(n).world = n.world
<1>1. m.checkpoints \in Seq(World)
  BY DEF Machines
<1>2. Front(n.checkpoints) = m.checkpoints /\ Last(n.checkpoints) = c
  BY <1>1, AppendEnds
<1>3. /\ CheckpointRevert(n) = [n EXCEPT !.world = c, !.checkpoints = m.checkpoints]
      /\ CheckpointCommit(n) = [n EXCEPT !.checkpoints = m.checkpoints]
  BY <1>2 DEF CheckpointRevert, CheckpointCommit
<1> QED
  BY <1>1, <1>3, Zenon DEF Machines

\* A checkpoint whose frame did not come to run.
LEMMA AnsweredClosed ==
  ASSUME NEW m \in Machines, NEW n \in Machines, NEW c \in World, n.frames = m.frames,
         n.checkpoints = Append(m.checkpoints, c), c.slot = m.world.slot,
         n.world.slot = m.world.slot, NEW o \in LegalOutcome, o.refund = 0, NEW gas, o.gas <= gas
  PROVE  /\ c \in {m.world} \cup Bumped(m.world) => Answered(m, Deliver(CheckpointRevert(n), o), gas)
         /\ Won(o) => Answered(m, Deliver(CheckpointCommit(n), o), gas)
BY OneMore DEF Answered

\* What a call that opens no frame hands back.
LEMMA RefusedFields ==
  ASSUME NEW kind, NEW result, NEW gas
  PROVE  /\ Refused(kind, result, gas).gas = gas /\ Refused(kind, result, gas).refund = 0
         /\ Won(Refused(kind, result, gas)) <=> result \in OkResult /\ kind # "Create"
BY DEF Refused, Won

\* A precompile answers at once, with no more gas than it was given.
LEMMA PrecompileCallShape ==
  ASSUME NEW m \in Machines, NEW n \in Machines, n.frames = m.frames,
         n.checkpoints = Append(m.checkpoints, m.world), n.world.slot = m.world.slot,
         NEW in \in CallInput, NEW bad, NEW p \in PrecompileCall(n, in, bad)
  PROVE  Answered(m, p, in.gas)
<1>1. in.gas \in Nat /\ OpCost \in Nat /\ m.world \in World /\ m.world \in {m.world} \cup Bumped(m.world)
  BY FramesOK DEF CallInput, Machines
<1>2. ASSUME NEW o \in LegalOutcome, o.refund = 0, o.gas <= in.gas
      PROVE  /\ Answered(m, Deliver(CheckpointRevert(n), o), in.gas)
             /\ Won(o) => Answered(m, Deliver(CheckpointCommit(n), o), in.gas)
  BY <1>1, <1>2, AnsweredClosed
<1>3. CASE bad = "Touch"
  <2> DEFINE o == Refused("Call", "FatalExternalError", in.gas)
  <2>1. p = Deliver(CheckpointRevert(n), o)
    BY <1>3 DEF PrecompileCall
  <2>2. o \in LegalOutcome /\ o.refund = 0 /\ o.gas = in.gas
    BY <1>1, RefusedType, RefusedFields DEF Result, Failure
  <2> HIDE DEF o
  <2> QED
    BY <1>1, <1>2, <2>1, <2>2
<1>4. CASE bad # "Touch"
  <2>1. PICK end \in PrecompileRun(OnEnter(n), in) : p = Deliver(OnExit(end[1]), end[2])
    BY <1>4 DEF PrecompileCall
  <2>2. CASE end = <<CheckpointRevert(OnEnter(n)), Refused("Call", "PrecompileError", in.gas)>>
    <3> DEFINE o == Refused("Call", "PrecompileError", in.gas)
    <3>1. p = Deliver(CheckpointRevert(n), o)
      BY <2>1, <2>2, HooksBracket
    <3>2. o \in LegalOutcome /\ o.refund = 0 /\ o.gas = in.gas
      BY <1>1, RefusedType, RefusedFields DEF Result, Failure
    <3> HIDE DEF o
    <3> QED
      BY <1>1, <1>2, <3>1, <3>2
  <2>3. CASE in.gas >= OpCost
             /\ \E result \in {"Return", "Revert"} :
                  end = <<Close(OnEnter(n), result),
                          [Refused("Call", result, in.gas - OpCost) EXCEPT !.data = "Own"]>>
    <3>1. PICK result \in {"Return", "Revert"} :
                  end = <<Close(OnEnter(n), result),
                          [Refused("Call", result, in.gas - OpCost) EXCEPT !.data = "Own"]>>
      BY <2>3
    <3> DEFINE r == Refused("Call", result, in.gas - OpCost)
               o == [r EXCEPT !.data = "Own"]
    <3>2. in.gas - OpCost \in Nat /\ in.gas - OpCost <= in.gas
      BY <1>1, <2>3
    <3>3. r \in LegalOutcome
      BY <3>2, RefusedType DEF Result, OkResult, RevertResult
    <3>4. o \in LegalOutcome /\ o.gas <= in.gas /\ o.refund = 0 /\ (result = "Return" => Won(o))
      BY <3>2, <3>3, Zenon DEF LegalOutcome, Outcome, Data, Refused, Won, OkResult
    <3>5. p = Deliver(Close(n, result), o)
      BY <2>1, <3>1, HooksBracket
    <3> HIDE DEF o
    <3>6. CASE result = "Return"
      BY <1>2, <3>4, <3>5, <3>6 DEF Close, OkResult
    <3>7. CASE result = "Revert"
      BY <1>2, <3>4, <3>5, <3>7 DEF Close, OkResult
    <3> QED
      BY <3>6, <3>7
  <2>4. in.gas < OpCost \/ in.gas >= OpCost
    BY <1>1
  <2> QED
    BY <2>1, <2>2, <2>3, <2>4 DEF PrecompileRun
<1> QED
  BY <1>3, <1>4

\* What is entered answers at once or runs.
LEMMA EnteredShape ==
  ASSUME NEW m \in Machines, NEW n \in Machines, n.frames = m.frames,
         n.checkpoints = Append(m.checkpoints, m.world), n.world.slot = m.world.slot,
         NEW in \in CallInput, NEW bad, NEW p \in Entered(n, in, bad)
  PROVE  Answered(m, p, in.gas) \/ (Opens(m, p, in) /\ p.world = n.world)
<1>1. in.gas \in Nat /\ m.world \in World
  BY DEF CallInput, Machines
<1>2. CASE in.code \in Precompile
  BY <1>2, PrecompileCallShape DEF Entered
<1>3. CASE in.code \notin Precompile /\ (~n.world.code[in.code] \/ bad = "Code")
  <2> DEFINE o == Refused("Call", "Stop", in.gas)
  <2>1. p = Deliver(CheckpointCommit(n), o)
    BY <1>3, HooksBracket DEF Entered
  <2>2. o \in LegalOutcome /\ o.refund = 0 /\ o.gas = in.gas /\ Won(o)
    BY <1>1, RefusedType, RefusedFields DEF Result, OkResult
  <2> HIDE DEF o
  <2> QED
    BY <1>1, <2>1, <2>2, AnsweredClosed
<1>4. CASE in.code \notin Precompile /\ n.world.code[in.code] /\ bad # "Code"
  <2> DEFINE f == NewFrame("Call", in, in.static)
  <2>1. p = [OnEnter(n) EXCEPT !.frames = Append(@, f)]
    BY <1>4 DEF Entered
  <2>2. /\ f \in LegalFrame /\ f.self = in.self /\ f.caller = in.caller /\ f.value = in.value
        /\ f.gas = in.gas /\ f.refund = 0
    BY DEF NewFrame, LegalFrame, Frame, CallInput, Data
  <2> HIDE DEF f
  <2>3. /\ p.frames = Append(m.frames, f) /\ p.checkpoints = Append(m.checkpoints, m.world)
        /\ p.world = n.world
    BY <2>1 DEF OnEnter, Machines
  <2> QED
    BY <1>1, <2>2, <2>3 DEF Opens
<1> QED
  BY <1>2, <1>3, <1>4

\* So does every call; who runs with a value has received it, unless Journal.Transfer failed.
LEMMA ExecuteCallShape ==
  ASSUME NEW m \in Machines, NEW in \in CallInput, NEW bad, NEW p \in ExecuteCall(m, in, bad)
  PROVE  \/ Answered(m, p, in.gas)
         \/ Opens(m, p, in) /\ (in.moves /\ bad # "Transfer" => Paid(m, p, in))
<1>1. /\ m.world \in World /\ m.checkpoints \in Seq(World) /\ in.gas \in Nat
      /\ in.caller \in Addr /\ in.self \in Addr /\ in.value \in Nat
  BY DEF Machines, CallInput
<1>2. CASE Len(m.frames) > CallStackLimit
  <2> DEFINE o == Refused("Call", "CallTooDeep", in.gas)
  <2>1. p = Deliver(m, o)
    BY <1>2 DEF ExecuteCall
  <2>2. o \in LegalOutcome /\ o.refund = 0 /\ o.gas = in.gas
    BY <1>1, RefusedType, RefusedFields DEF Result, RevertResult
  <2> HIDE DEF o
  <2> QED
    BY <1>1, <2>1, <2>2 DEF Answered
<1> DEFINE n == Checkpoint(m)
<1>3. n \in Machines /\ n.frames = m.frames /\ n.world = m.world
      /\ n.checkpoints = Append(m.checkpoints, m.world)
  BY <1>1, AppendProperties, Zenon DEF Checkpoint, Machines
<1> HIDE DEF n
<1>4. CASE /\ ~(Len(m.frames) > CallStackLimit)
           /\ in.moves /\ in.value > m.world.bal[in.caller] /\ bad # "Transfer"
  <2> DEFINE o == Refused("Call", "OutOfFunds", in.gas)
  <2>1. p = Deliver(CheckpointRevert(n), o)
    BY <1>4 DEF ExecuteCall, n
  <2>2. o \in LegalOutcome /\ o.refund = 0 /\ o.gas = in.gas
    BY <1>1, RefusedType, RefusedFields DEF Result, RevertResult
  <2> HIDE DEF o
  <2> QED
    BY <1>1, <1>3, <2>1, <2>2, AnsweredClosed
<1>5. CASE /\ ~(Len(m.frames) > CallStackLimit)
           /\ ~(in.moves /\ in.value > m.world.bal[in.caller] /\ bad # "Transfer")
  <2> DEFINE t == Transferred(n, in, bad)
             w == Moved(m.world, in.caller, in.self, in.value)
  <2>1. p \in Entered(t, in, bad)
    BY <1>5 DEF ExecuteCall, n
  <2>2. CASE ~in.moves \/ bad = "Transfer"
    <3>1. t = n
      BY <2>2 DEF Transferred
    <3> QED
      BY <1>3, <2>1, <2>2, <3>1, EnteredShape
  <2>3. CASE in.moves /\ bad # "Transfer"
    <3>1. t = [n EXCEPT !.world = w]
      BY <1>3, <2>3 DEF Transferred
    <3>2. in.value <= m.world.bal[in.caller]
      BY <1>1, <1>5, <2>3 DEF World
    <3>3. w \in World
      BY <1>1, <3>2, MovedType
    <3>4. /\ w.slot = m.world.slot
          /\ in.caller # in.self => /\ w.bal[in.self] = m.world.bal[in.self] + in.value
                                    /\ w.bal[in.caller] = m.world.bal[in.caller] - in.value
      BY <1>1, MovedBalances
    <3> HIDE DEF w, t
    <3>5. t \in Machines /\ t.frames = m.frames /\ t.world = w
          /\ t.checkpoints = Append(m.checkpoints, m.world)
      BY <1>3, <3>1, <3>3, Zenon DEF Machines
    <3>6. Answered(m, p, in.gas) \/ (Opens(m, p, in) /\ p.world = w)
      BY <2>1, <3>4, <3>5, EnteredShape
    <3> QED
      BY <3>4, <3>6 DEF Paid
  <2> QED
    BY <2>2, <2>3
<1> QED
  BY <1>2, <1>4, <1>5

\* A creation without init code answers at once, another one runs.
LEMMA CreatedShape ==
  ASSUME NEW m \in Machines, NEW n \in Machines, NEW c \in World, n.frames = m.frames,
         n.checkpoints = Append(m.checkpoints, c), n.world.slot = m.world.slot,
         c.slot = m.world.slot, c.bal = m.world.bal,
         NEW in \in CreateInput, NEW empty, NEW p \in Created(n, in, empty)
  PROVE  Answered(m, p, in.gas) \/ (Opens(m, p, in) /\ p.world = n.world)
<1>1. in.gas \in Nat
  BY DEF CreateInput
<1>2. CASE empty
  <2> DEFINE r == Refused("Create", "Stop", in.gas)
             o == [r EXCEPT !.made = TRUE]
  <2>1. p = Deliver(CheckpointCommit(n), o)
    BY <1>2, HooksBracket DEF Created
  <2>2. r \in LegalOutcome
    BY <1>1, RefusedType DEF Result, OkResult
  <2>3. o \in LegalOutcome /\ o.refund = 0 /\ o.gas = in.gas /\ Won(o)
    BY <2>2, Zenon DEF LegalOutcome, Outcome, Refused, Won, OkResult
  <2> HIDE DEF o
  <2> QED
    BY <1>1, <2>1, <2>3, AnsweredClosed
<1>3. CASE ~empty
  <2> DEFINE f == NewFrame("Create", in, FALSE)
  <2>1. p = [OnEnter(n) EXCEPT !.frames = Append(@, f)]
    BY <1>3, Zenon DEF Created
  <2>2. /\ f \in LegalFrame /\ f.self = in.self /\ f.caller = in.caller /\ f.value = in.value
        /\ f.gas = in.gas /\ f.refund = 0
    BY DEF NewFrame, LegalFrame, Frame, CreateInput, Data
  <2> HIDE DEF f
  <2>3. /\ p.frames = Append(m.frames, f) /\ p.checkpoints = Append(m.checkpoints, c)
        /\ p.world = n.world
    BY <2>1 DEF OnEnter, Machines
  <2> QED
    BY <2>2, <2>3, Zenon DEF Opens
<1> QED
  BY <1>2, <1>3

\* What BumpNonce and CreateAccountCheckpoint do to the world.
LEMMA CreationWorlds ==
  ASSUME NEW m, Sound(m), ~StaticTop(m), NEW in \in CreateInput,
         ~(in.value > m.world.bal[in.caller]), m.world.nonce[in.caller] # MaxNonce
  PROVE  LET b == BumpNonce(m, in.caller)
             n == CreateAccountCheckpoint(b, in)
         IN  /\ b \in Machines /\ b.world \in Bumped(m.world) /\ b.frames = m.frames
             /\ b.checkpoints = m.checkpoints
             /\ b.world.slot = m.world.slot /\ b.world.bal = m.world.bal
             /\ n \in Machines /\ n.frames = m.frames
             /\ n.checkpoints = Append(m.checkpoints, b.world)
             /\ n.world.slot = m.world.slot /\ Paid(m, n, in)
<1> DEFINE b == BumpNonce(m, in.caller)
           n == CreateAccountCheckpoint(b, in)
           v == [m.world EXCEPT !.nonce[in.caller] = @ + 1]
<1>1. m \in Machines /\ m.world \in World /\ in.caller \in Addr /\ in.self \in Addr
      /\ in.value \in Nat /\ m.checkpoints \in Seq(World)
  BY DEF Sound, Machines, CreateInput
<1>2. m.world.nonce[in.caller] \in 0 .. MaxNonce /\ m.world.nonce[in.caller] < MaxNonce
  BY <1>1, FramesOK, SMTT(30) DEF World
<1>3. v \in Bumped(m.world)
  BY <1>1, <1>2, Zenon DEF Bumped
<1>4. b = [m EXCEPT !.world = v]
  BY <1>1 DEF BumpNonce, Machines
<1>5. Sound(b) /\ b \in Machines /\ ~StaticTop(b) /\ b.world.bal = m.world.bal
  BY <1>1, BumpNonceSound DEF Sound
<1>6. v.slot = m.world.slot /\ v.bal = m.world.bal
  BY <1>1 DEF World
<1> HIDE DEF v
<1>7. b.world = v /\ b.frames = m.frames /\ b.checkpoints = m.checkpoints
  BY <1>1, <1>4 DEF Machines
<1> HIDE DEF b
<1>8. in.value <= b.world.bal[in.caller]
  BY <1>1, <1>5 DEF World
<1>9. Opened(b, n)
  BY <1>5, <1>8, CreateAccountCheckpointOpened
<1> DEFINE w == Moved(b.world, in.caller, in.self, in.value)
           u == IF Frontier THEN w ELSE [w EXCEPT !.nonce[in.self] = 1]
<1>10. n = [Checkpoint(b) EXCEPT !.world = u]
  BY DEF CreateAccountCheckpoint
<1>11. b.world \in World
  BY <1>5 DEF Machines
<1>12. w \in World
  BY <1>1, <1>8, <1>11, MovedType
<1>13. /\ w.slot = b.world.slot
       /\ in.caller # in.self => /\ w.bal[in.self] = b.world.bal[in.self] + in.value
                                 /\ w.bal[in.caller] = b.world.bal[in.caller] - in.value
  BY <1>1, <1>11, MovedBalances
<1> HIDE DEF w
<1>14. u.slot = w.slot /\ u.bal = w.bal
  BY <1>12 DEF World
<1> HIDE DEF u
<1>15. /\ n \in Machines /\ n.frames = b.frames /\ n.world = u
       /\ n.checkpoints = Append(b.checkpoints, b.world)
  BY <1>5, <1>9, <1>10 DEF Opened, Checkpoint, Machines
<1> HIDE DEF n
<1>16. Paid(m, n, in)
  BY <1>5, <1>13, <1>14, <1>15 DEF Paid
<1>17. n.world.slot = m.world.slot /\ b.world.slot = m.world.slot
  BY <1>6, <1>7, <1>13, <1>14, <1>15
<1> QED
  BY <1>3, <1>5, <1>7, <1>15, <1>16, <1>17 DEF b, n

\* So does every creation, and it has always received its value.
LEMMA ExecuteCreateShape ==
  ASSUME NEW m, Sound(m), ~StaticTop(m), NEW in \in CreateInput, NEW empty, NEW bad,
         NEW p \in ExecuteCreate(m, in, empty, bad)
  PROVE  Answered(m, p, in.gas) \/ (Opens(m, p, in) /\ Paid(m, p, in))
<1> DEFINE bumped == BumpNonce(m, in.caller)
           n == CreateAccountCheckpoint(bumped, in)
           refuse(x, result) == Deliver(x, Refused("Create", result, in.gas))
<1>1. m \in Machines /\ in.gas \in Nat
  BY DEF Sound, Machines, CreateInput
<1>2. {"CallTooDeep", "FatalExternalError", "OutOfFunds", "CreateCollision", "Return"} \subseteq Result
  BY DEF Result, OkResult, RevertResult, Failure
<1>3. ASSUME NEW x \in Machines, NEW result \in Result, x.frames = m.frames,
             x.checkpoints = m.checkpoints, x.world.slot = m.world.slot,
             x.world \in {m.world} \cup Bumped(m.world)
      PROVE  Answered(m, refuse(x, result), in.gas)
  <2> DEFINE o == Refused("Create", result, in.gas)
  <2>1. o \in LegalOutcome /\ o.refund = 0 /\ o.gas = in.gas
    BY <1>1, <1>3, RefusedType, RefusedFields
  <2> HIDE DEF o
  <2>2. Answered(m, Deliver(x, o), in.gas)
    BY <1>1, <1>3, <2>1 DEF Answered
  <2> QED
    BY <2>2 DEF o
<1>4. \/ p \in {refuse(m, "CallTooDeep"), refuse(m, "FatalExternalError"),
               refuse(m, "OutOfFunds"), refuse(m, "Return")}
      \/ /\ ~(in.value > m.world.bal[in.caller]) /\ m.world.nonce[in.caller] # MaxNonce
         /\ \/ p \in {refuse(bumped, "FatalExternalError"), refuse(bumped, "CreateCollision")}
            \/ p \in Created(n, in, empty)
  BY DEF ExecuteCreate
<1> HIDE DEF refuse
<1>5. CASE p \in {refuse(m, "CallTooDeep"), refuse(m, "FatalExternalError"),
                  refuse(m, "OutOfFunds"), refuse(m, "Return")}
  BY <1>1, <1>2, <1>3, <1>5
<1>6. CASE ~(in.value > m.world.bal[in.caller]) /\ m.world.nonce[in.caller] # MaxNonce
  <2>1. /\ bumped \in Machines /\ bumped.world \in Bumped(m.world) /\ bumped.frames = m.frames
        /\ bumped.checkpoints = m.checkpoints
        /\ bumped.world.slot = m.world.slot /\ bumped.world.bal = m.world.bal
        /\ n \in Machines /\ n.frames = m.frames
        /\ n.checkpoints = Append(m.checkpoints, bumped.world)
        /\ n.world.slot = m.world.slot /\ Paid(m, n, in)
    BY <1>6, CreationWorlds
  <2> HIDE DEF bumped, n
  <2>2. CASE p \in {refuse(bumped, "FatalExternalError"), refuse(bumped, "CreateCollision")}
    BY <1>2, <1>3, <2>1, <2>2
  <2>3. CASE p \in Created(n, in, empty)
    <3>1. bumped.world \in World
      BY <2>1 DEF Machines
    <3>2. Answered(m, p, in.gas) \/ (Opens(m, p, in) /\ p.world = n.world)
      BY <1>1, <2>1, <2>3, <3>1, CreatedShape
    <3> QED
      BY <2>1, <3>2 DEF Paid
  <2> QED
    BY <1>4, <1>5, <2>2, <2>3
<1> QED
  BY <1>4, <1>5, <1>6

\* A frame ended: its result goes to whoever waits for it.
Ends(m, p, result) ==
  \E x \in Machines, o \in LegalOutcome :
    /\ p = Deliver(x, o)
    /\ x.frames = Front(m.frames) /\ x.checkpoints = Front(m.checkpoints)
    /\ o.gas <= Top(m).gas /\ o.refund = Top(m).refund
    /\ o.result \in OkResult => result \in OkResult /\ Won(o) /\ x.world.slot = m.world.slot
    /\ o.result \notin OkResult => x.world = Last(m.checkpoints)

\* A halt ends the frame: a success keeps its slots and its refund, a failure restores the world.
LEMMA FinishShape ==
  ASSUME NEW m, Sound(m), m.frames # <<>>, NEW result \in Result,
         result \in {"Return", "Revert"} => Top(m).data \in {"None", "Own"},
         NEW p \in Finish(m, result)
  PROVE  Ends(m, p, result)
<1> DEFINE f == Top(m)
           o == ResultFromHalt(f, result)
           n == OnExit(Popped(m))
           c == Last(m.checkpoints)
           R == CheckpointRevert(n)
           C == CheckpointCommit(n)
<1>1. m \in Machines /\ m.frames \in Seq(LegalFrame) /\ m.checkpoints \in Seq(World)
      /\ Len(m.checkpoints) = Len(m.frames) /\ m.hooks \in Seq(Nat) /\ m.hooks = Depths(Len(m.frames))
  BY DEF Sound, Machines, Paired
<1>2. f \in LegalFrame /\ Front(m.frames) \in Seq(LegalFrame)
  BY <1>1, FrontProperties, Zenon DEF Top
<1>3. m.checkpoints # <<>> /\ m.hooks # <<>>
  <2>1. Len(m.frames) \in Nat \ {0}
    BY <1>1, EmptySeq
  <2>2. Len(m.hooks) = Len(m.frames)
    BY <1>1, <2>1, DepthsType, Zenon
  <2> QED
    BY <1>1, <2>1, <2>2
<1>4. c \in World /\ Front(m.checkpoints) \in Seq(World) /\ Front(m.hooks) \in Seq(Nat)
  BY <1>1, <1>3, FrontProperties, Zenon
<1>5. n \in Machines /\ n.frames = Front(m.frames) /\ n.checkpoints = m.checkpoints
      /\ n.world = m.world
  BY <1>1, <1>2, <1>4, Zenon DEF Machines, OnExit, Popped
<1> HIDE DEF n
<1>6. /\ R \in Machines /\ R.frames = Front(m.frames) /\ R.checkpoints = Front(m.checkpoints)
      /\ R.world = c
  BY <1>4, <1>5, Zenon DEF CheckpointRevert, Machines
<1>7. /\ C \in Machines /\ C.frames = Front(m.frames) /\ C.checkpoints = Front(m.checkpoints)
      /\ C.world = m.world
  BY <1>4, <1>5, Zenon DEF CheckpointCommit, Machines
<1>8. /\ o \in LegalOutcome /\ o.gas = f.gas /\ o.gas \in Nat /\ o.refund = f.refund
      /\ o.result = result /\ o.kind = f.kind
  BY <1>2 DEF ResultFromHalt, LegalFrame, Frame, LegalOutcome, Outcome, Data
<1>9. \/ f.kind = "Call" /\ p = Deliver(Close(n, result), o)
      \/ f.kind # "Call" /\ \E output \in Output(result) : p = ReturnCreate(n, o, f.self, output)
  BY DEF Finish, n
<1> HIDE DEF o, f, R, C, c
<1>10. ASSUME NEW x \in Machines, NEW r \in LegalOutcome, p = Deliver(x, r),
              x.frames = Front(m.frames), x.checkpoints = Front(m.checkpoints),
              r.gas <= f.gas, r.refund = f.refund,
              r.result \in OkResult => result \in OkResult /\ Won(r) /\ x.world.slot = m.world.slot,
              r.result \notin OkResult => x.world = c
       PROVE  Ends(m, p, result)
  BY <1>10 DEF Ends, f, c
<1>11. CASE f.kind = "Call" /\ p = Deliver(Close(n, result), o)
  <2>1. CASE result \in OkResult
    <3>1. p = Deliver(C, o) /\ Won(o)
      BY <1>8, <1>11, <2>1 DEF Close, C, Won
    <3> QED
      BY <1>7, <1>8, <1>10, <2>1, <3>1
  <2>2. CASE result \notin OkResult
    <3>1. p = Deliver(R, o)
      BY <1>11, <2>2 DEF Close, R
    <3> QED
      BY <1>6, <1>8, <1>10, <2>2, <3>1
  <2> QED
    BY <2>1, <2>2
<1>12. ASSUME NEW output, p = ReturnCreate(n, o, f.self, output)
       PROVE  Ends(m, p, result)
  <2> DEFINE fail(r) == Deliver(R, [o EXCEPT !.result = r])
             stored == output # "Empty" /\ (output = "Empty" \/ o.gas >= DepositCost)
             left == IF stored THEN o.gas - DepositCost ELSE o.gas
             with == IF stored THEN [C EXCEPT !.world.code[f.self] = TRUE] ELSE C
             kept == [o EXCEPT !.result = "Return", !.gas = left, !.data = "None", !.made = TRUE]
  <2>1. \/ o.result \notin OkResult /\ p = fail(o.result)
        \/ p = fail("CodeRefused") \/ p = fail("OutOfGas")
        \/ o.result \in OkResult /\ p = Deliver(with, kept)
    BY <1>12 DEF ReturnCreate, R, C
  <2>2. ASSUME NEW r \in Result \ OkResult, p = fail(r) PROVE Ends(m, p, result)
    <3> DEFINE e == [o EXCEPT !.result = r]
    <3>1. e \in LegalOutcome /\ e.gas = f.gas /\ e.gas \in Nat /\ e.refund = f.refund /\ e.result = r
      BY <1>8 DEF LegalOutcome, Outcome
    <3>2. p = Deliver(R, e)
      BY <2>2
    <3> HIDE DEF e
    <3> QED
      BY <1>6, <1>10, <3>1, <3>2
  <2>3. "CodeRefused" \in Result \ OkResult /\ "OutOfGas" \in Result \ OkResult
    BY DEF Result, OkResult, Failure
  <2>4. CASE o.result \in OkResult /\ p = Deliver(with, kept)
    <3>1. left \in Nat /\ left <= f.gas
      BY <1>8, FramesOK
    <3> HIDE DEF left
    <3>2. /\ kept \in LegalOutcome /\ kept.gas = left /\ kept.refund = f.refund
          /\ kept.result = "Return" /\ kept.made
      BY <1>8, <3>1, Zenon DEF LegalOutcome, Outcome, Result, OkResult, Data
    <3>3. Won(kept)
      BY <3>2 DEF Won, OkResult
    <3>4. /\ with \in Machines /\ with.frames = C.frames /\ with.checkpoints = C.checkpoints
          /\ with.world.slot = C.world.slot
      BY <1>7, Zenon DEF Machines, World
    <3> HIDE DEF kept, with
    <3>5. kept.result \in OkResult /\ kept.gas <= f.gas
      BY <3>1, <3>2 DEF OkResult
    <3>6. with.frames = Front(m.frames) /\ with.checkpoints = Front(m.checkpoints)
          /\ with.world.slot = m.world.slot /\ result \in OkResult /\ p = Deliver(with, kept)
      BY <1>7, <1>8, <2>4, <3>4
    <3> QED
      BY <1>10, <3>2, <3>3, <3>4, <3>5, <3>6
  <2> QED
    BY <1>8, <2>1, <2>2, <2>3, <2>4
<1> QED
  BY <1>9, <1>11, <1>12
-----------------------------------------------------------------------------
(***************************************************************************)
(* What the properties say of a step from one machine to another.          *)
(***************************************************************************)
\* TotalGas and TotalRefund of a machine.
Gas(m) ==
  IF m.frames # <<>> THEN GasIn(m.frames)
    ELSE IF m.outcome.result \in OkResult \cup RevertResult THEN m.outcome.gas ELSE 0
Refund(m) ==
  IF m.frames # <<>> THEN RefundIn(m.frames)
    ELSE IF m.outcome.result \in OkResult THEN m.outcome.refund ELSE 0

Clears(slot) == Cardinality({a \in Addr : Start.slot[a] # 0 /\ slot[a] = 0})

\* The refunds count what the world has cleared, and those of the frames below a checkpoint
\* what the world had cleared there.
Balanced(m) ==
  /\ Refund(m) = Clears(m.world.slot)
  /\ \A i \in 1 .. Len(m.frames) :
       SumOver(Refunds(m.frames), 1 .. i - 1) = Clears(m.checkpoints[i].slot)

\* FailureUndone of a step from m to p.
UndoneIn(m, p) ==
  p.frames # <<>> /\ ~Top(p).ok =>
    /\ Len(p.frames) < Len(m.frames) => p.world = Last(m.checkpoints)
    /\ Len(p.frames) = Len(m.frames) =>
         [p.world EXCEPT !.slot = m.world.slot] \in {m.world} \cup Bumped(m.world)

\* ValueDelivered of a step from m to p.
DeliveredIn(m, p) ==
  Len(p.frames) > Len(m.frames) =>
    \/ Top(p).self = Top(p).caller
    \/ m.frames # <<>> /\ Top(p).self = Top(m).self
    \/ /\ p.world.bal[Top(p).self] = Last(p.checkpoints).bal[Top(p).self] + Top(p).value
       /\ p.world.bal[Top(p).caller] = Last(p.checkpoints).bal[Top(p).caller] - Top(p).value

\* What a frame gets from its sub-frame.
LEMMA ReturnedFields ==
  ASSUME NEW f \in LegalFrame, NEW o \in LegalOutcome
  PROVE  LET g == Returned(f, o)
         IN  /\ g \in LegalFrame /\ g.gas <= f.gas + o.gas
             /\ g.refund = f.refund + IF o.result \in OkResult THEN o.refund ELSE 0
             /\ g.ok = Won(o)
<1>1. f.gas \in Nat /\ o.gas \in Nat /\ f.refund \in Int /\ o.refund \in Int
  BY DEF LegalFrame, Frame, LegalOutcome, Outcome
<1>2. f \in Frame
  BY DEF LegalFrame
<1> DEFINE g == Returned(f, o)
<1>3. /\ g.gas = IF o.result \in OkResult \cup RevertResult THEN f.gas + o.gas ELSE f.gas
      /\ g.refund = IF o.result \in OkResult THEN f.refund + o.refund ELSE f.refund
      /\ g.ok = Won(o)
  BY <1>2 DEF Returned, Won, Frame
<1>4. g \in LegalFrame
  BY ReturnedType
<1> HIDE DEF g
<1>5. g.gas <= f.gas + o.gas
  BY <1>1, <1>3
<1>6. g.refund = f.refund + IF o.result \in OkResult THEN o.refund ELSE 0
  BY <1>1, <1>3
<1> QED
  BY <1>3, <1>4, <1>5, <1>6 DEF g

\* The innermost frame replaced.
LEMMA SetTopFields ==
  ASSUME NEW m \in Machines, m.frames # <<>>, NEW f \in LegalFrame
  PROVE  LET n == SetTop(m, f)
         IN  /\ n \in Machines /\ n.frames \in Seq(LegalFrame) /\ n.frames # <<>>
             /\ Len(n.frames) = Len(m.frames) /\ Top(n) = f
             /\ Front(n.frames) = Front(m.frames) /\ n.checkpoints = m.checkpoints
             /\ n.world = m.world
             /\ GasIn(n.frames) = GasIn(m.frames) - Top(m).gas + f.gas
             /\ RefundIn(n.frames) = RefundIn(m.frames) - Top(m).refund + f.refund
             /\ \A i \in 0 .. Len(m.frames) - 1 :
                  SumOver(Refunds(n.frames), 1 .. i) = SumOver(Refunds(m.frames), 1 .. i)
<1> DEFINE n == SetTop(m, f)
           fs == m.frames
           gs == n.frames
<1>1. fs \in Seq(LegalFrame) /\ Len(fs) \in Nat \ {0}
  BY EmptySeq DEF Machines
<1>2. gs = [fs EXCEPT ![Len(fs)] = f] /\ n.checkpoints = m.checkpoints /\ n.world = m.world
      /\ n.hooks = m.hooks /\ n.outcome = m.outcome
  BY DEF SetTop, Machines
<1>3. gs \in Seq(LegalFrame) /\ Len(gs) = Len(fs)
      /\ \A j \in 1 .. Len(fs) : gs[j] = IF j = Len(fs) THEN f ELSE fs[j]
  BY <1>1, <1>2, ExceptSeq
<1>4. n \in Machines
  BY <1>2, <1>3, Zenon DEF SetTop, Machines
<1>5. gs # <<>> /\ Last(gs) = f
  BY <1>1, <1>3 DEF Last
<1>6. Front(gs) = Front(fs)
  <2>1. /\ Front(gs) \in Seq(LegalFrame) /\ Len(Front(gs)) = Len(gs) - 1
        /\ \A i \in 1 .. Len(gs) - 1 : Front(gs)[i] = gs[i]
    BY <1>3, <1>5, FrontProperties
  <2>2. /\ Front(fs) \in Seq(LegalFrame) /\ Len(Front(fs)) = Len(fs) - 1
        /\ \A i \in 1 .. Len(fs) - 1 : Front(fs)[i] = fs[i]
    BY <1>1, FrontProperties, Zenon
  <2>3. \A i \in 1 .. Len(fs) - 1 : i \in 1 .. Len(fs) /\ i # Len(fs)
    BY <1>1
  <2>4. \A i \in 1 .. Len(fs) - 1 : Front(gs)[i] = Front(fs)[i]
    BY <1>3, <2>1, <2>2, <2>3
  <2> QED
    BY <1>3, <2>1, <2>2, <2>4, SeqEqual
<1> HIDE DEF n, gs, fs
<1>7. Top(m) = Last(fs) /\ Top(n) = Last(gs) /\ Last(fs) \in LegalFrame /\ fs # <<>>
  <2>1. fs # <<>>
    BY DEF fs
  <2> QED
    BY <1>1, <2>1, FrontProperties DEF Top, fs, gs
<1>8. /\ GasIn(fs) = GasIn(Front(fs)) + Last(fs).gas
      /\ RefundIn(fs) = RefundIn(Front(fs)) + Last(fs).refund
      /\ \A i \in 0 .. Len(fs) - 1 : SumOver(Refunds(fs), 1 .. i)
                                     = SumOver(Refunds(Front(fs)), 1 .. i)
  BY <1>1, <1>7, SumsFront
<1>9. /\ GasIn(gs) = GasIn(Front(fs)) + f.gas
      /\ RefundIn(gs) = RefundIn(Front(fs)) + f.refund
      /\ \A i \in 0 .. Len(fs) - 1 : SumOver(Refunds(gs), 1 .. i)
                                     = SumOver(Refunds(Front(fs)), 1 .. i)
  BY <1>3, <1>5, <1>6, SumsFront
<1>10. /\ GasIn(Front(fs)) \in Int /\ RefundIn(Front(fs)) \in Int
       /\ Last(fs).gas \in Int /\ f.gas \in Int /\ Last(fs).refund \in Int /\ f.refund \in Int
  <2>1. Front(fs) \in Seq(LegalFrame)
    BY <1>1, <1>7, FrontProperties
  <2> QED
    BY <1>7, <2>1, SumsOf DEF LegalFrame, Frame
<1>11. GasIn(gs) = GasIn(fs) - Last(fs).gas + f.gas
  BY <1>8, <1>9, <1>10
<1>12. RefundIn(gs) = RefundIn(fs) - Last(fs).refund + f.refund
  BY <1>8, <1>9, <1>10
<1>13. \A i \in 0 .. Len(fs) - 1 : SumOver(Refunds(gs), 1 .. i) = SumOver(Refunds(fs), 1 .. i)
  BY <1>8, <1>9
<1> QED
  BY <1>2, <1>3, <1>4, <1>5, <1>6, <1>7, <1>11, <1>12, <1>13, Zenon DEF n, fs, gs

\* What handing an outcome over does to the sums.
LEMMA DeliverFields ==
  ASSUME NEW x \in Machines, NEW o \in LegalOutcome
  PROVE  LET p == Deliver(x, o)
         IN  /\ p.world = x.world /\ p.checkpoints = x.checkpoints /\ Len(p.frames) = Len(x.frames)
             /\ Gas(p) \in Int /\ Gas(p) <= GasIn(x.frames) + o.gas
             /\ Refund(p) = RefundIn(x.frames) + IF o.result \in OkResult THEN o.refund ELSE 0
             /\ p.frames # <<>> => (Top(p).ok <=> Won(o))
             /\ \A i \in 0 .. Len(x.frames) - 1 :
                  SumOver(Refunds(p.frames), 1 .. i) = SumOver(Refunds(x.frames), 1 .. i)
<1> DEFINE p == Deliver(x, o)
<1>1. o.gas \in Nat /\ o.refund \in Int
  BY DEF LegalOutcome, Outcome
<1>2. x.frames \in Seq(LegalFrame)
  BY DEF Machines
<1>3. CASE x.frames = <<>>
  <2>1. p.frames = <<>> /\ p.outcome = o /\ p.world = x.world /\ p.checkpoints = x.checkpoints
    BY <1>3 DEF Deliver, Machines
  <2> HIDE DEF p
  <2>2. GasIn(x.frames) = 0 /\ RefundIn(x.frames) = 0
    BY <1>2, <1>3, SumsOf, Zenon
  <2>3. Gas(p) \in Int /\ Gas(p) <= GasIn(x.frames) + o.gas
    BY <1>1, <2>1, <2>2 DEF Gas
  <2>4. Refund(p) = RefundIn(x.frames) + IF o.result \in OkResult THEN o.refund ELSE 0
    BY <1>1, <2>1, <2>2 DEF Refund
  <2> QED
    BY <1>3, <2>1, <2>3, <2>4 DEF p
<1>4. CASE x.frames # <<>>
  <2> DEFINE f == Top(x)
             g == Returned(f, o)
  <2>1. p = SetTop(x, g)
    BY <1>4 DEF Deliver
  <2>2. f \in LegalFrame
    BY <1>2, <1>4, FrontProperties DEF Top
  <2> HIDE DEF p, f
  <2>3. /\ g \in LegalFrame /\ g.gas <= f.gas + o.gas
        /\ g.refund = f.refund + IF o.result \in OkResult THEN o.refund ELSE 0
        /\ g.ok = Won(o)
    BY <2>2, ReturnedFields
  <2> HIDE DEF g
  <2>4. /\ p.frames # <<>> /\ Len(p.frames) = Len(x.frames) /\ Top(p) = g
        /\ p.checkpoints = x.checkpoints /\ p.world = x.world
        /\ GasIn(p.frames) = GasIn(x.frames) - f.gas + g.gas
        /\ RefundIn(p.frames) = RefundIn(x.frames) - f.refund + g.refund
        /\ \A i \in 0 .. Len(x.frames) - 1 :
             SumOver(Refunds(p.frames), 1 .. i) = SumOver(Refunds(x.frames), 1 .. i)
    BY <1>4, <2>1, <2>3, SetTopFields DEF f
  <2>5. /\ GasIn(x.frames) \in Int /\ RefundIn(x.frames) \in Int /\ f.gas \in Int /\ f.refund \in Int
        /\ g.gas \in Int /\ g.refund \in Int
    BY <1>2, <2>2, <2>3, SumsOf DEF LegalFrame, Frame
  <2>6. GasIn(p.frames) \in Int /\ GasIn(p.frames) <= GasIn(x.frames) + o.gas
    <3> DEFINE before == GasIn(x.frames)
               after == GasIn(p.frames)
               old == f.gas
               new == g.gas
               back == o.gas
    <3>1. /\ before \in Int /\ old \in Int /\ new \in Int /\ back \in Int
          /\ new <= old + back /\ after = before - old + new
      BY <1>1, <2>3, <2>4, <2>5, SMTT(30)
    <3> HIDE DEF before, after, old, new, back
    <3>2. after \in Int /\ after <= before + back
      BY <3>1
    <3> QED
      BY <3>2 DEF before, after, back
  <2>7. RefundIn(p.frames) = RefundIn(x.frames) + IF o.result \in OkResult THEN o.refund ELSE 0
    BY <1>1, <2>3, <2>4, <2>5, SMTT(30)
  <2>8. Gas(p) = GasIn(p.frames) /\ Refund(p) = RefundIn(p.frames)
    BY <2>4 DEF Gas, Refund
  <2> QED
    BY <2>3, <2>4, <2>6, <2>7, <2>8 DEF p
<1> QED
  BY <1>3, <1>4

\* Balanced, when no result is there yet.
Steady(m) ==
  /\ RefundIn(m.frames) = Clears(m.world.slot)
  /\ \A i \in 1 .. Len(m.frames) :
       SumOver(Refunds(m.frames), 1 .. i - 1) = Clears(m.checkpoints[i].slot)

\* The two agree while frames run, and before the transaction has a result.
LEMMA SteadyIsBalanced ==
  ASSUME NEW m \in Machines
  PROVE  /\ m.frames # <<>> => (Balanced(m) <=> Steady(m)) /\ Gas(m) = GasIn(m.frames)
         /\ m.outcome.result \notin OkResult /\ Balanced(m) => Steady(m)
<1>1. m.frames = <<>> => RefundIn(m.frames) = 0
  BY SumsOf DEF Machines
<1> QED
  BY <1>1 DEF Balanced, Steady, Refund, Gas

\* Writing the world as it is at c into the fields of w gives c, if they differ in nothing else.
LEMMA SlotsRestored ==
  ASSUME NEW w \in World, NEW c \in World, c.slot = w.slot
  PROVE  [c EXCEPT !.slot = w.slot] = c
BY DEF World

\* A call that is answered at once creates no gas and no refund.
LEMMA AnsweredKeeps ==
  ASSUME NEW m \in Machines, Len(m.checkpoints) = Len(m.frames), NEW gas \in Nat, NEW p,
         Answered(m, p, gas)
  PROVE  /\ Gas(p) \in Int /\ Gas(p) <= GasIn(m.frames) + gas
         /\ Steady(m) => Balanced(p)
         /\ UndoneIn(m, p)
         /\ DeliveredIn(m, p)
<1>1. PICK x \in Machines, o \in LegalOutcome :
        /\ p = Deliver(x, o)
        /\ x.frames = m.frames /\ x.checkpoints = m.checkpoints
        /\ x.world.slot = m.world.slot
        /\ o.gas <= gas /\ o.refund = 0
        /\ Won(o) \/ x.world \in {m.world} \cup Bumped(m.world)
  BY DEF Answered
<1>2. /\ p.world = x.world /\ p.checkpoints = m.checkpoints /\ Len(p.frames) = Len(m.frames)
      /\ Gas(p) \in Int /\ Gas(p) <= GasIn(m.frames) + o.gas
      /\ Refund(p) = RefundIn(m.frames) + IF o.result \in OkResult THEN o.refund ELSE 0
      /\ p.frames # <<>> => (Top(p).ok <=> Won(o))
      /\ \A i \in 0 .. Len(m.frames) - 1 :
           SumOver(Refunds(p.frames), 1 .. i) = SumOver(Refunds(m.frames), 1 .. i)
  BY <1>1, DeliverFields
<1>3. /\ m.frames \in Seq(LegalFrame) /\ Len(m.frames) \in Nat /\ m.world \in World
      /\ x.world \in World
  BY DEF Machines
<1>4. GasIn(m.frames) \in Int /\ RefundIn(m.frames) \in Int /\ o.gas \in Nat
  BY <1>3, SumsOf DEF LegalOutcome, Outcome
<1>5. o.gas <= gas /\ o.refund = 0 /\ x.world.slot = m.world.slot
  BY <1>1
<1>6. Won(o) \/ x.world \in {m.world} \cup Bumped(m.world)
  BY <1>1
<1>8. Gas(p) \in Int /\ Gas(p) <= GasIn(m.frames) + gas
  BY <1>2, <1>4, <1>5
<1>9. ASSUME Steady(m) PROVE Balanced(p)
  <2>1. Refund(p) = Clears(p.world.slot)
    BY <1>2, <1>4, <1>5, <1>9 DEF Steady
  <2>2. ASSUME NEW i \in 1 .. Len(p.frames)
        PROVE  SumOver(Refunds(p.frames), 1 .. i - 1) = Clears(p.checkpoints[i].slot)
    <3>1. i \in 1 .. Len(m.frames) /\ i - 1 \in 0 .. Len(m.frames) - 1
      BY <1>2, <1>3, <2>2
    <3> QED
      BY <1>2, <1>9, <3>1 DEF Steady
  <2> QED
    BY <2>1, <2>2 DEF Balanced
<1>10. [p.world EXCEPT !.slot = m.world.slot] = p.world
  BY <1>2, <1>3, <1>5, SlotsRestored
<1>11. UndoneIn(m, p)
  BY <1>2, <1>3, <1>6, <1>10 DEF UndoneIn
<1>12. DeliveredIn(m, p)
  BY <1>2, <1>3 DEF DeliveredIn
<1> QED
  BY <1>8, <1>9, <1>11, <1>12

\* A frame that is opened holds the gas it was given; its checkpoint remembers what is cleared.
LEMMA OpensKeeps ==
  ASSUME NEW m \in Machines, Len(m.checkpoints) = Len(m.frames), NEW in, in.gas \in Nat, NEW p,
         Opens(m, p, in)
  PROVE  /\ Gas(p) = GasIn(m.frames) + in.gas
         /\ Steady(m) => Balanced(p)
         /\ UndoneIn(m, p)
         /\ Len(p.frames) = Len(m.frames) + 1
         /\ Top(p).self = in.self /\ Top(p).caller = in.caller
         /\ Paid(m, p, in) => DeliveredIn(m, p)
<1>1. PICK f \in LegalFrame, c \in World :
        /\ p.frames = Append(m.frames, f) /\ p.checkpoints = Append(m.checkpoints, c)
        /\ f.self = in.self /\ f.caller = in.caller /\ f.value = in.value
        /\ f.gas = in.gas /\ f.refund = 0
        /\ c.slot = m.world.slot /\ c.bal = m.world.bal /\ p.world.slot = m.world.slot
  BY DEF Opens
<1>2. /\ m.frames \in Seq(LegalFrame) /\ Len(m.frames) \in Nat /\ m.checkpoints \in Seq(World)
  BY DEF Machines
<1>3. /\ GasIn(p.frames) = GasIn(m.frames) + f.gas
      /\ RefundIn(p.frames) = RefundIn(m.frames) + f.refund
      /\ \A i \in 0 .. Len(m.frames) :
           SumOver(Refunds(p.frames), 1 .. i) = SumOver(Refunds(m.frames), 1 .. i)
  BY <1>1, <1>2, SumsAppend
<1>4. Len(p.frames) = Len(m.frames) + 1 /\ p.frames # <<>> /\ p.frames \in Seq(LegalFrame)
  BY <1>1, <1>2, SMTT(30)
<1>5. Last(p.frames) = f /\ Last(p.checkpoints) = c
  BY <1>1, <1>2, AppendEnds
<1>6. Top(p) = f
  BY <1>5 DEF Top
<1>7. Gas(p) = GasIn(m.frames) + in.gas
  BY <1>1, <1>3, <1>4 DEF Gas
<1>8. ASSUME Steady(m) PROVE Balanced(p)
  <2>1. RefundIn(m.frames) \in Int /\ f.refund = 0
    BY <1>1, <1>2, SumsOf
  <2>2. RefundIn(p.frames) = RefundIn(m.frames)
    BY <1>3, <2>1
  <2>3. Refund(p) = Clears(p.world.slot)
    BY <1>1, <1>4, <1>8, <2>2 DEF Steady, Refund
  <2>4. ASSUME NEW i \in 1 .. Len(p.frames)
        PROVE  SumOver(Refunds(p.frames), 1 .. i - 1) = Clears(p.checkpoints[i].slot)
    <3>1. i - 1 \in 0 .. Len(m.frames)
      BY <1>2, <1>4, <2>4
    <3>2. SumOver(Refunds(p.frames), 1 .. i - 1) = SumOver(Refunds(m.frames), 1 .. i - 1)
      BY <1>3, <3>1
    <3>3. CASE i \in 1 .. Len(m.frames)
      <4>1. p.checkpoints[i] = m.checkpoints[i]
        BY <1>1, <1>2, <3>3
      <4> QED
        BY <1>8, <3>2, <3>3, <4>1 DEF Steady
    <3>4. CASE i = Len(m.frames) + 1
      <4>1. p.checkpoints[i] = c
        BY <1>1, <1>2, <3>4
      <4>2. SumOver(Refunds(m.frames), 1 .. i - 1) = RefundIn(m.frames)
        <5>1. i - 1 = Len(m.frames)
          BY <1>2, <3>4
        <5> QED
          BY <5>1 DEF RefundIn
      <4> QED
        BY <1>1, <1>8, <3>2, <4>1, <4>2 DEF Steady
    <3> QED
      BY <1>2, <1>4, <2>4, <3>3, <3>4
  <2> QED
    BY <2>3, <2>4 DEF Balanced
<1>9. UndoneIn(m, p)
  BY <1>2, <1>4 DEF UndoneIn
<1>10. Paid(m, p, in) => DeliveredIn(m, p)
  BY <1>1, <1>5, <1>6 DEF Paid, DeliveredIn
<1> QED
  BY <1>1, <1>4, <1>6, <1>7, <1>8, <1>9, <1>10

\* A frame that ends gives back at most its gas, and its refund only with its slots.
LEMMA EndsKeeps ==
  ASSUME NEW m, Sound(m), m.frames # <<>>, NEW result, NEW p, Ends(m, p, result)
  PROVE  /\ Gas(p) <= GasIn(m.frames)
         /\ Steady(m) => Balanced(p)
         /\ UndoneIn(m, p)
         /\ DeliveredIn(m, p)
<1> DEFINE fs == Front(m.frames)
           f == Top(m)
<1>1. PICK x \in Machines, o \in LegalOutcome :
        /\ p = Deliver(x, o)
        /\ x.frames = fs /\ x.checkpoints = Front(m.checkpoints)
        /\ o.gas <= f.gas /\ o.refund = f.refund
        /\ o.result \in OkResult => result \in OkResult /\ Won(o) /\ x.world.slot = m.world.slot
        /\ o.result \notin OkResult => x.world = Last(m.checkpoints)
  BY DEF Ends
<1>2. /\ m.frames \in Seq(LegalFrame) /\ Len(m.frames) \in Nat \ {0} /\ m.checkpoints \in Seq(World)
      /\ Len(m.checkpoints) = Len(m.frames) /\ m.checkpoints # <<>>
  BY EmptySeq DEF Sound, Machines, Paired
<1>3. /\ fs \in Seq(LegalFrame) /\ Len(fs) = Len(m.frames) - 1 /\ f \in LegalFrame
      /\ Last(m.checkpoints) = m.checkpoints[Len(m.frames)]
      /\ \A i \in 1 .. Len(m.frames) - 1 : Front(m.checkpoints)[i] = m.checkpoints[i]
  BY <1>2, FrontProperties, Zenon DEF Top
<1>4. /\ GasIn(m.frames) = GasIn(fs) + f.gas
      /\ RefundIn(m.frames) = RefundIn(fs) + f.refund
      /\ \A i \in 0 .. Len(m.frames) - 1 :
           SumOver(Refunds(m.frames), 1 .. i) = SumOver(Refunds(fs), 1 .. i)
  BY <1>2, SumsFront DEF Top
<1> HIDE DEF fs, f
<1>5. /\ p.world = x.world /\ p.checkpoints = Front(m.checkpoints) /\ Len(p.frames) = Len(fs)
      /\ Gas(p) \in Int /\ Gas(p) <= GasIn(fs) + o.gas
      /\ Refund(p) = RefundIn(fs) + IF o.result \in OkResult THEN o.refund ELSE 0
      /\ p.frames # <<>> => (Top(p).ok <=> Won(o))
      /\ \A i \in 0 .. Len(fs) - 1 :
           SumOver(Refunds(p.frames), 1 .. i) = SumOver(Refunds(fs), 1 .. i)
  BY <1>1, DeliverFields
<1>6. GasIn(fs) \in Int /\ RefundIn(fs) \in Int /\ o.gas \in Nat /\ f.gas \in Nat /\ f.refund \in Int
  BY <1>3, SumsOf DEF LegalOutcome, Outcome, LegalFrame, Frame
<1>7. o.gas <= f.gas /\ o.refund = f.refund
  BY <1>1
<1>8. Gas(p) <= GasIn(m.frames)
  BY <1>4, <1>5, <1>6, <1>7
<1>9. ASSUME Steady(m) PROVE Balanced(p)
  <2>1. ASSUME o.result \in OkResult PROVE Refund(p) = Clears(p.world.slot)
    <3>1. Refund(p) = RefundIn(m.frames) /\ p.world.slot = m.world.slot
      BY <1>1, <1>4, <1>5, <1>6, <1>7, <2>1
    <3> QED
      BY <1>9, <3>1 DEF Steady
  <2>2. ASSUME o.result \notin OkResult PROVE Refund(p) = Clears(p.world.slot)
    <3>1. Refund(p) = RefundIn(fs) /\ p.world = m.checkpoints[Len(m.frames)]
      BY <1>1, <1>3, <1>5, <1>6, <2>2
    <3>2. Len(fs) \in 0 .. Len(m.frames) - 1 /\ Len(m.frames) \in 1 .. Len(m.frames)
      BY <1>2, <1>3
    <3>3. SumOver(Refunds(m.frames), 1 .. Len(fs)) = RefundIn(fs)
      BY <1>4, <3>2 DEF RefundIn
    <3>4. SumOver(Refunds(m.frames), 1 .. Len(m.frames) - 1) = Clears(p.world.slot)
      BY <1>9, <3>1, <3>2 DEF Steady
    <3> QED
      BY <1>3, <3>1, <3>3, <3>4
  <2>3. Refund(p) = Clears(p.world.slot)
    BY <2>1, <2>2
  <2>4. ASSUME NEW i \in 1 .. Len(p.frames)
        PROVE  SumOver(Refunds(p.frames), 1 .. i - 1) = Clears(p.checkpoints[i].slot)
    <3>1. /\ i \in 1 .. Len(m.frames) /\ i \in 1 .. Len(m.frames) - 1
          /\ i - 1 \in 0 .. Len(fs) - 1 /\ i - 1 \in 0 .. Len(m.frames) - 1
      BY <1>2, <1>3, <1>5, <2>4
    <3>2. SumOver(Refunds(p.frames), 1 .. i - 1) = SumOver(Refunds(m.frames), 1 .. i - 1)
      BY <1>4, <1>5, <3>1
    <3>3. p.checkpoints[i] = m.checkpoints[i]
      BY <1>3, <1>5, <3>1
    <3> QED
      BY <1>9, <3>1, <3>2, <3>3 DEF Steady
  <2> QED
    BY <2>3, <2>4 DEF Balanced
<1>10. UndoneIn(m, p)
  <2>1. SUFFICES ASSUME p.frames # <<>>, ~Top(p).ok PROVE p.world = Last(m.checkpoints)
    BY <1>2, <1>3, <1>5 DEF UndoneIn
  <2> QED
    BY <1>1, <1>5, <2>1
<1>11. DeliveredIn(m, p)
  BY <1>2, <1>3, <1>5 DEF DeliveredIn
<1> QED
  BY <1>8, <1>9, <1>10, <1>11
-----------------------------------------------------------------------------
(***************************************************************************)
(* The instructions, again: what each does to gas, refunds and failures.   *)
(***************************************************************************)
\* What a step of the frames from m to p does to gas, refunds and what failed.
Keeps(m, p) ==
  /\ Gas(p) <= GasIn(m.frames)
  /\ ~Frontier /\ Steady(m) => Balanced(p)
  /\ UndoneIn(m, p)

\* A frame that ends after it changed its gas, its data, or slots if it fails.
LEMMA FinishKeeps ==
  ASSUME NEW m, Sound(m), m.frames # <<>>, NEW q, Sound(q), q.frames # <<>>,
         q.checkpoints = m.checkpoints, Front(q.frames) = Front(m.frames),
         Top(q).gas <= Top(m).gas, Top(q).refund = Top(m).refund,
         NEW result \in Result, q.world.slot = m.world.slot \/ result \notin OkResult,
         result \in {"Return", "Revert"} => Top(q).data \in {"None", "Own"},
         NEW p \in Finish(q, result)
  PROVE  Keeps(m, p) /\ DeliveredIn(m, p)
<1>1. Ends(q, p, result)
  BY FinishShape
<1>2. PICK x \in Machines, o \in LegalOutcome :
        /\ p = Deliver(x, o)
        /\ x.frames = Front(q.frames) /\ x.checkpoints = Front(q.checkpoints)
        /\ o.gas <= Top(q).gas /\ o.refund = Top(q).refund
        /\ o.result \in OkResult => result \in OkResult /\ Won(o) /\ x.world.slot = q.world.slot
        /\ o.result \notin OkResult => x.world = Last(q.checkpoints)
  BY <1>1 DEF Ends
<1>3. Top(m) \in LegalFrame /\ Top(q) \in LegalFrame
  BY FrontProperties DEF Sound, Machines, Top
<1>4. o.gas \in Nat /\ Top(m).gas \in Nat /\ Top(q).gas \in Nat
  BY <1>3 DEF LegalOutcome, Outcome, LegalFrame, Frame
<1>5. o.gas <= Top(q).gas
  BY <1>2
<1>6. o.gas <= Top(m).gas
  BY <1>4, <1>5
<1>7. o.result \in OkResult => result \in OkResult /\ Won(o) /\ x.world.slot = m.world.slot
  BY <1>2
<1>8. Ends(m, p, result)
  BY <1>2, <1>6, <1>7 DEF Ends
<1> QED
  BY <1>8, EndsKeeps DEF Keeps

\* A frame that ends at once.
LEMMA FinishNow ==
  ASSUME NEW m, Sound(m), m.frames # <<>>, NEW result \in Result,
         result \in {"Return", "Revert"} => Top(m).data \in {"None", "Own"},
         NEW p \in Finish(m, result)
  PROVE  Keeps(m, p) /\ DeliveredIn(m, p)
<1>1. Ends(m, p, result)
  BY FinishShape
<1> QED
  BY <1>1, EndsKeeps DEF Keeps

\* The top frame pays.
LEMMA PayFields ==
  ASSUME NEW m, Sound(m), m.frames # <<>>, NEW cost \in Nat, CanPay(m, cost)
  PROVE  LET q == Pay(m, cost)
         IN  /\ q \in Machines /\ q.frames # <<>> /\ Len(q.frames) = Len(m.frames)
             /\ Len(q.checkpoints) = Len(q.frames)
             /\ Front(q.frames) = Front(m.frames) /\ q.checkpoints = m.checkpoints
             /\ q.world = m.world
             /\ Top(q).self = Top(m).self /\ Top(q).refund = Top(m).refund
             /\ Top(q).gas = Top(m).gas - cost
             /\ GasIn(q.frames) = GasIn(m.frames) - cost
             /\ Steady(m) => Steady(q)
<1> DEFINE f == Top(m)
           g == [f EXCEPT !.gas = @ - cost]
           q == Pay(m, cost)
<1>1. m \in Machines /\ m.frames \in Seq(LegalFrame) /\ Len(m.checkpoints) = Len(m.frames)
      /\ Len(m.frames) \in Nat
  BY DEF Sound, Machines, Paired
<1>2. f \in LegalFrame
  BY <1>1, FrontProperties DEF Top
<1>3. f.gas \in Nat /\ f.refund \in Int /\ f.gas - cost \in Nat
  BY <1>2 DEF CanPay, LegalFrame, Frame
<1>4. g \in LegalFrame /\ g.gas = f.gas - cost /\ g.refund = f.refund /\ g.self = f.self
  BY <1>2, <1>3 DEF LegalFrame, Frame
<1>5. q = SetTop(m, g)
  BY DEF Pay
<1> HIDE DEF g, q
<1>6. /\ q \in Machines /\ q.frames # <<>>
      /\ Len(q.frames) = Len(m.frames) /\ Top(q) = g
      /\ Front(q.frames) = Front(m.frames) /\ q.checkpoints = m.checkpoints
      /\ q.world = m.world
      /\ GasIn(q.frames) = GasIn(m.frames) - f.gas + g.gas
      /\ RefundIn(q.frames) = RefundIn(m.frames) - f.refund + g.refund
      /\ \A i \in 0 .. Len(m.frames) - 1 :
           SumOver(Refunds(q.frames), 1 .. i) = SumOver(Refunds(m.frames), 1 .. i)
  BY <1>1, <1>4, <1>5, SetTopFields
<1> HIDE DEF f
<1>7. GasIn(m.frames) \in Int /\ RefundIn(m.frames) \in Int
  BY <1>1, SumsOf
<1>8. GasIn(q.frames) = GasIn(m.frames) - cost
  BY <1>3, <1>4, <1>6, <1>7
<1>9. RefundIn(q.frames) = RefundIn(m.frames)
  BY <1>3, <1>4, <1>6, <1>7
<1>10. ASSUME Steady(m) PROVE Steady(q)
  <2>1. RefundIn(q.frames) = Clears(q.world.slot)
    BY <1>6, <1>9, <1>10 DEF Steady
  <2>2. ASSUME NEW i \in 1 .. Len(q.frames)
        PROVE  SumOver(Refunds(q.frames), 1 .. i - 1) = Clears(q.checkpoints[i].slot)
    <3>1. i \in 1 .. Len(m.frames) /\ i - 1 \in 0 .. Len(m.frames) - 1
      BY <1>1, <1>6, <2>2
    <3> QED
      BY <1>6, <1>10, <3>1 DEF Steady
  <2> QED
    BY <2>1, <2>2 DEF Steady
<1> QED
  BY <1>1, <1>4, <1>6, <1>8, <1>10 DEF f, q

\* The cases of ClearRefund, after EIP-3529: it follows the set of cleared slots.
LEMMA ClearsFollow ==
  ASSUME ~Frontier, NEW w \in World, NEW a \in Addr, NEW v \in {0, 1}
  PROVE  Clears([w.slot EXCEPT ![a] = v])
           = Clears(w.slot) + ClearRefund(Start.slot[a], w.slot[a], v)
<1> DEFINE of(slot) == {b \in Addr : Start.slot[b] # 0 /\ slot[b] = 0}
           before == of(w.slot)
           after == of([w.slot EXCEPT ![a] = v])
<1>1. /\ w.slot \in [Addr -> {0, 1}] /\ Start.slot[a] \in {0, 1} /\ w.slot[a] \in {0, 1}
      /\ IsFiniteSet(Addr)
  BY FramesOK DEF World
<1>2. IsFiniteSet(before)
  BY <1>1, FS_Subset
<1>3. Cardinality(before) \in Nat
  BY <1>2, FS_CardinalityType
<1>4. Clears(w.slot) = Cardinality(before) /\ Clears([w.slot EXCEPT ![a] = v]) = Cardinality(after)
  BY DEF Clears
<1>5. CASE Start.slot[a] = 0 \/ w.slot[a] = v
  <2>1. after = before
    BY <1>1, <1>5
  <2>2. ClearRefund(Start.slot[a], w.slot[a], v) = 0
    BY <1>1, <1>5 DEF ClearRefund
  <2> QED
    BY <1>3, <1>4, <2>1, <2>2, SMTT(30)
<1>6. CASE Start.slot[a] = 1 /\ w.slot[a] = 1 /\ v = 0
  <2>1. after = before \cup {a} /\ a \notin before
    BY <1>1, <1>6
  <2>2. ClearRefund(Start.slot[a], w.slot[a], v) = 1
    BY <1>6 DEF ClearRefund
  <2>3. Cardinality(after) = Cardinality(before) + 1
    BY <1>2, <2>1, FS_AddElement, Zenon
  <2> QED
    BY <1>4, <2>2, <2>3
<1>7. CASE Start.slot[a] = 1 /\ w.slot[a] = 0 /\ v = 1
  <2>1. after = before \ {a} /\ a \in before
    BY <1>1, <1>7
  <2>2. ClearRefund(Start.slot[a], w.slot[a], v) = -1
    BY <1>7 DEF ClearRefund
  <2>3. Cardinality(after) = Cardinality(before) - 1
    BY <1>2, <2>1, FS_RemoveElement, Zenon
  <2> QED
    BY <1>3, <1>4, <2>2, <2>3
<1> QED
  BY <1>1, <1>5, <1>6, <1>7

\* opSstore: the refund follows the slot it writes, and a frame that cannot pay is undone.
LEMMA OpSstoreKeeps ==
  ASSUME NEW m, Sound(m), m.frames # <<>>, NEW v \in {0, 1}, NEW p \in OpSstore(m, v)
  PROVE  Keeps(m, p) /\ DeliveredIn(m, p)
<1> DEFINE f == Top(m)
           w == [m.world EXCEPT !.slot[f.self] = v]
           written == [m EXCEPT !.world = w]
           refund == ClearRefund(Start.slot[f.self], m.world.slot[f.self], v)
           g == [f EXCEPT !.gas = @ - OpCost, !.refund = @ + refund]
<1>1. m \in Machines /\ m.world \in World /\ m.frames \in Seq(LegalFrame) /\ Len(m.frames) \in Nat
  BY DEF Sound, Machines
<1>2. f \in LegalFrame /\ f.self \in Addr /\ f.gas \in Nat /\ f.refund \in Int
  <2>1. f \in LegalFrame
    BY <1>1, FrontProperties DEF Top
  <2> QED
    BY <2>1 DEF LegalFrame, Frame
<1>3. [m EXCEPT !.world.slot[f.self] = v] = written
  BY <1>1 DEF Machines
<1>4. w \in World /\ w.slot = [m.world.slot EXCEPT ![f.self] = v]
      /\ [w EXCEPT !.slot = m.world.slot] = m.world
  BY <1>1, <1>2, Zenon DEF World
<1>5. refund \in Int
  BY DEF ClearRefund
<1>6. {"StaticViolation", "OutOfGas"} \subseteq Result \ ({"Return", "Revert"} \cup OkResult)
  BY DEF Result, Failure, OkResult
<1>7. ~Frontier => Clears(w.slot) = Clears(m.world.slot) + refund
  <2>1. SUFFICES ASSUME ~Frontier
                 PROVE  Clears([m.world.slot EXCEPT ![f.self] = v]) = Clears(m.world.slot) + refund
    BY <1>4
  <2> QED
    BY <1>1, <1>2, <2>1, ClearsFollow, Zenon
<1> HIDE DEF w, refund
<1>8. /\ written.frames = m.frames /\ Top(written) = f /\ written.checkpoints = m.checkpoints
      /\ written.world = w /\ written \in Machines
  BY <1>1, <1>4, Zenon DEF Machines, Top
<1>9. \/ p \in Finish(m, "StaticViolation")
      \/ p \in Finish(m, "OutOfGas")
      \/ ~f.static /\ p \in Finish(written, "OutOfGas")
      \/ ~f.static /\ CanPay(m, OpCost) /\ p = SetTop(written, g)
  BY <1>3 DEF OpSstore, refund
<1>10. CASE p \in Finish(m, "StaticViolation") \/ p \in Finish(m, "OutOfGas")
  BY <1>6, <1>10, FinishNow
<1>11. CASE ~f.static /\ p \in Finish(written, "OutOfGas")
  <2>1. Sound(written)
    BY <1>4, <1>11, Rewritten DEF StaticTop
  <2> HIDE DEF written
  <2>2. Top(written).gas <= Top(m).gas
    BY <1>2, <1>8
  <2> QED
    BY <1>6, <1>8, <1>11, <2>1, <2>2, FinishKeeps
<1>12. CASE CanPay(m, OpCost) /\ p = SetTop(written, g)
  <2>1. f.gas - OpCost \in Nat /\ f.refund + refund \in Int
    <3>1. f.gas >= OpCost
      BY <1>12 DEF CanPay
    <3>2. OpCost \in Nat
      BY FramesOK
    <3> HIDE DEF f
    <3> QED
      BY <1>2, <1>5, <3>1, <3>2
  <2>2. g \in LegalFrame /\ g.gas = f.gas - OpCost /\ g.refund = f.refund + refund
    <3>1. g \in LegalFrame
      BY <1>2, <2>1, ChargedType, Zenon
    <3> QED
      BY <1>2, <3>1 DEF LegalFrame, Frame
  <2> HIDE DEF g, written, f
  <2>3. /\ p.frames # <<>> /\ Len(p.frames) = Len(m.frames)
        /\ p.checkpoints = m.checkpoints /\ p.world = w
        /\ GasIn(p.frames) = GasIn(m.frames) - f.gas + g.gas
        /\ RefundIn(p.frames) = RefundIn(m.frames) - f.refund + g.refund
        /\ \A i \in 0 .. Len(m.frames) - 1 :
             SumOver(Refunds(p.frames), 1 .. i) = SumOver(Refunds(m.frames), 1 .. i)
    BY <1>8, <1>12, <2>2, SetTopFields
  <2>4. GasIn(m.frames) \in Int /\ RefundIn(m.frames) \in Int /\ OpCost \in Nat
    BY <1>1, SumsOf, FramesOK, Zenon
  <2>5. GasIn(p.frames) <= GasIn(m.frames)
    BY <1>2, <2>2, <2>3, <2>4
  <2>6. RefundIn(p.frames) = RefundIn(m.frames) + refund
    BY <1>2, <1>5, <2>2, <2>3, <2>4
  <2>7. ASSUME ~Frontier, Steady(m) PROVE Balanced(p)
    <3>1. Refund(p) = Clears(p.world.slot)
      BY <1>7, <2>3, <2>6, <2>7 DEF Steady, Refund
    <3>2. ASSUME NEW i \in 1 .. Len(p.frames)
          PROVE  SumOver(Refunds(p.frames), 1 .. i - 1) = Clears(p.checkpoints[i].slot)
      <4>1. i \in 1 .. Len(m.frames) /\ i - 1 \in 0 .. Len(m.frames) - 1
        BY <1>1, <2>3, <3>2
      <4> QED
        BY <2>3, <2>7, <4>1 DEF Steady
    <3> QED
      BY <3>1, <3>2 DEF Balanced
  <2>8. Gas(p) <= GasIn(m.frames)
    BY <2>3, <2>5 DEF Gas
  <2>9. UndoneIn(m, p)
    BY <1>1, <1>4, <2>3 DEF UndoneIn
  <2>10. DeliveredIn(m, p)
    BY <1>1, <2>3 DEF DeliveredIn
  <2> QED
    BY <2>7, <2>8, <2>9, <2>10 DEF Keeps
<1> QED
  BY <1>9, <1>10, <1>11, <1>12

\* opSelfdestruct: no slot changes.
LEMMA OpSelfdestructKeeps ==
  ASSUME NEW m, Sound(m), m.frames # <<>>, NEW to \in Addr, NEW burnt, NEW bad,
         NEW p \in OpSelfdestruct(m, to, burnt, bad)
  PROVE  Keeps(m, p) /\ DeliveredIn(m, p)
<1> DEFINE f == Top(m)
           moved == Moved(m.world, f.self, to, m.world.bal[f.self])
           w == IF burnt THEN [moved EXCEPT !.bal[to] = 0] ELSE moved
           gone == IF bad = "Beneficiary" THEN m ELSE [m EXCEPT !.world = w]
<1>1. m \in Machines /\ m.world \in World /\ m.frames \in Seq(LegalFrame)
  BY DEF Sound, Machines
<1>2. f.self \in Addr /\ f.gas \in Nat
  <2>1. f \in LegalFrame
    BY <1>1, FrontProperties DEF Top
  <2> QED
    BY <2>1 DEF LegalFrame, Frame
<1>3. moved \in World
  <2>1. m.world.bal[f.self] \in Nat /\ m.world.bal[f.self] <= m.world.bal[f.self]
    BY <1>1, <1>2 DEF World
  <2> QED
    BY <1>1, <1>2, <2>1, MovedType
<1>4. moved.slot = m.world.slot
  BY <1>1, <1>2, MovedBalances
<1> HIDE DEF moved
<1>5. w \in World /\ w.slot = m.world.slot
  BY <1>3, <1>4, Zenon DEF World
<1>6. {"StaticViolation", "OutOfGas", "SelfDestruct"} \subseteq Result \ {"Return", "Revert"}
      /\ "OutOfGas" \notin OkResult
  BY DEF Result, Failure, OkResult
<1> HIDE DEF w
<1>7. /\ gone.frames = m.frames /\ Top(gone) = f /\ gone.checkpoints = m.checkpoints
      /\ gone.world.slot = m.world.slot
  BY <1>1, <1>5 DEF Machines, Top
<1>8. \/ p \in Finish(m, "StaticViolation")
      \/ ~f.static /\ p \in Finish(gone, "OutOfGas")
      \/ ~f.static /\ CanPay(m, OpCost) /\ p \in Finish(Pay(gone, OpCost), "SelfDestruct")
  BY DEF OpSelfdestruct, moved, w
<1>9. CASE p \in Finish(m, "StaticViolation")
  BY <1>6, <1>9, FinishNow
<1>10. CASE ~f.static
  <2>1. Sound(gone)
    BY <1>5, <1>10, Rewritten DEF StaticTop
  <2> HIDE DEF gone
  <2>2. CASE p \in Finish(gone, "OutOfGas")
    <3>1. Top(gone).gas <= Top(m).gas
      BY <1>2, <1>7
    <3> QED
      BY <1>6, <1>7, <2>1, <2>2, <3>1, FinishKeeps
  <2>3. CASE CanPay(m, OpCost) /\ p \in Finish(Pay(gone, OpCost), "SelfDestruct")
    <3> DEFINE q == Pay(gone, OpCost)
    <3>1. CanPay(gone, OpCost) /\ OpCost \in Nat
      BY <1>7, <2>3, FramesOK DEF CanPay
    <3>2. Sound(q)
      BY <1>7, <2>1, <3>1, PaySound
    <3>3. /\ q.frames # <<>> /\ Front(q.frames) = Front(m.frames)
          /\ q.checkpoints = m.checkpoints /\ q.world.slot = m.world.slot
          /\ Top(q).refund = f.refund /\ Top(q).gas = f.gas - OpCost
      BY <1>7, <2>1, <3>1, PayFields
    <3>4. p \in Finish(q, "SelfDestruct")
      BY <2>3
    <3> HIDE DEF q
    <3>5. Top(q).gas <= f.gas
      BY <1>2, <3>1, <3>3
    <3> QED
      BY <1>6, <3>2, <3>3, <3>4, <3>5, FinishKeeps
  <2> QED
    BY <1>8, <1>9, <2>2, <2>3
<1> QED
  BY <1>8, <1>9, <1>10

\* opReturn and opRevert.
LEMMA OpReturnKeeps ==
  ASSUME NEW m, Sound(m), m.frames # <<>>, NEW result \in {"Return", "Revert"},
         NEW data \in {"None", "Own"}, NEW p \in OpReturn(m, result, data)
  PROVE  Keeps(m, p) /\ DeliveredIn(m, p)
<1> DEFINE f == [Top(m) EXCEPT !.data = data]
           n == SetTop(m, f)
<1>1. m \in Machines /\ m.frames \in Seq(LegalFrame)
  BY DEF Sound, Machines
<1>2. Top(m) \in LegalFrame
  BY <1>1, FrontProperties DEF Top
<1>3. /\ f \in LegalFrame /\ f.static = Top(m).static /\ f.data = data
      /\ f.gas <= Top(m).gas /\ f.refund = Top(m).refund
  BY <1>2 DEF LegalFrame, Frame, Data
<1> HIDE DEF f
<1>4. Sound(n)
  BY <1>3, SetTopSound
<1>5. /\ n.frames # <<>> /\ Top(n) = f /\ Front(n.frames) = Front(m.frames)
      /\ n.checkpoints = m.checkpoints /\ n.world = m.world
  BY <1>1, <1>3, SetTopFields
<1>6. p \in Finish(n, result)
  BY DEF OpReturn, f
<1>7. result \in Result
  BY DEF Result, OkResult, RevertResult
<1> HIDE DEF n
<1> QED
  BY <1>3, <1>4, <1>5, <1>6, <1>7, FinishKeeps

\* What holds from the machine that has paid holds from the one that had not.
LEMMA PaidKeeps ==
  ASSUME NEW m, Sound(m), m.frames # <<>>, NEW cost \in Nat, CanPay(m, cost), NEW p,
         Gas(p) \in Int, Gas(p) <= GasIn(Pay(m, cost).frames) + cost,
         Steady(Pay(m, cost)) => Balanced(p), UndoneIn(Pay(m, cost), p)
  PROVE  Keeps(m, p) /\ (DeliveredIn(Pay(m, cost), p) => DeliveredIn(m, p))
<1> DEFINE q == Pay(m, cost)
<1>1. /\ q.frames # <<>> /\ Len(q.frames) = Len(m.frames)
      /\ q.checkpoints = m.checkpoints /\ q.world = m.world /\ Top(q).self = Top(m).self
      /\ GasIn(q.frames) = GasIn(m.frames) - cost
      /\ Steady(m) => Steady(q)
  BY PayFields
<1>2. GasIn(m.frames) \in Int
  BY SumsOf DEF Sound, Machines
<1>3. Gas(p) <= GasIn(q.frames) + cost /\ (Steady(q) => Balanced(p)) /\ UndoneIn(q, p)
  OBVIOUS
<1> HIDE DEF q
<1>4. Gas(p) <= GasIn(m.frames)
  BY <1>1, <1>2, <1>3
<1>5. UndoneIn(m, p)
  BY <1>1, <1>3 DEF UndoneIn
<1>6. DeliveredIn(q, p) => DeliveredIn(m, p)
  BY <1>1 DEF DeliveredIn
<1> QED
  BY <1>1, <1>3, <1>4, <1>5, <1>6 DEF Keeps, q

\* A call pays for the stipend it brings: Stipend < TransferCost.
LEMMA OpCallKeeps ==
  ASSUME NEW m, Sound(m), m.frames # <<>>, NEW scheme, NEW to \in Addr, NEW value \in Amount,
         NEW asked \in Asked, NEW bad, scheme \in {"Call", "CallCode", "Delegate", "Static"},
         scheme \in {"Delegate", "Static"} => value = 0,
         NEW p \in OpCall(m, scheme, to, value, asked, bad)
  PROVE  Keeps(m, p) /\ (bad # "Transfer" => DeliveredIn(m, p))
<1> DEFINE f == Top(m)
           cost == IF value > 0 THEN CallCost + TransferCost ELSE CallCost
           cap == Lendable(f.gas - cost)
           gas == IF asked < cap \/ Frontier THEN asked ELSE cap
           q == Pay(m, cost + gas)
           in == CallInputs(f, scheme, to, value, gas)
<1>1. m \in Machines /\ m.frames \in Seq(LegalFrame)
  BY DEF Sound, Machines
<1>2. f \in LegalFrame /\ f \in Frame
  BY <1>1, FrontProperties DEF Top, LegalFrame
<1>3. cost \in Nat /\ asked \in Nat /\ value \in Nat /\ f.gas \in Nat /\ Stipend \in Nat
  BY <1>2, FramesOK, SMTT(30) DEF Frame
<1>4. {"StaticViolation", "OutOfGas"} \subseteq Result \ {"Return", "Revert"}
  BY DEF Result, Failure
<1>5. \/ p \in Finish(m, "StaticViolation")
      \/ p \in Finish(m, "OutOfGas")
      \/ CanPay(m, cost) /\ CanPay(m, cost + gas) /\ p \in ExecuteCall(q, in, bad)
  BY DEF OpCall
<1>6. CASE p \in Finish(m, "StaticViolation") \/ p \in Finish(m, "OutOfGas")
  BY <1>4, <1>6, FinishNow
<1>7. CASE CanPay(m, cost) /\ CanPay(m, cost + gas) /\ p \in ExecuteCall(q, in, bad)
  <2>1. value > 0 => Stipend <= cost
    BY FramesOK
  <2> HIDE DEF cost
  <2>2. cap \in Nat
    <3>1. f.gas - cost \in Nat
      BY <1>3, <1>7 DEF CanPay
    <3> QED
      BY <3>1, LendableType
  <2> HIDE DEF cap
  <2>3. gas \in Nat
    BY <1>3, <2>2
  <2> HIDE DEF gas
  <2>4. cost + gas \in Nat
    BY <1>3, <2>3
  <2>5. /\ in.gas \in Nat /\ in.gas <= cost + gas
        /\ in.self = IF scheme \in {"Call", "Static"} THEN to ELSE f.self
        /\ in.moves = (scheme # "Delegate")
    <3>1. in.gas = IF value > 0 THEN gas + Stipend ELSE gas
      BY DEF CallInputs
    <3>2. in.gas \in Nat /\ in.gas <= cost + gas
      BY <1>3, <2>1, <2>3, <3>1
    <3> QED
      BY <3>2 DEF CallInputs
  <2>6. in \in CallInput
    <3>1. (IF value > 0 THEN gas + Stipend ELSE gas) \in Nat
      BY <1>3, <2>3
    <3> QED
      BY <1>2, <1>3, <3>1 DEF CallInputs, CallInput, Frame
  <2>7. /\ q \in Machines /\ Len(q.checkpoints) = Len(q.frames) /\ q.frames # <<>>
        /\ Len(q.frames) = Len(m.frames) /\ Len(m.frames) \in Nat
        /\ Top(q).self = f.self /\ GasIn(q.frames) \in Int
    <3>1. q \in Machines /\ Len(q.checkpoints) = Len(q.frames) /\ q.frames # <<>>
          /\ Len(q.frames) = Len(m.frames) /\ Top(q).self = f.self
      BY <1>7, <2>4, PayFields
    <3> QED
      BY <1>1, <3>1, SumsOf DEF Machines
  <2>8. p \in ExecuteCall(q, in, bad)
    BY <1>7
  <2>9. ASSUME Gas(p) \in Int, Gas(p) <= GasIn(q.frames) + (cost + gas),
               Steady(q) => Balanced(p), UndoneIn(q, p)
        PROVE  Keeps(m, p) /\ (DeliveredIn(q, p) => DeliveredIn(m, p))
    BY <1>7, <2>4, <2>9, PaidKeeps
  <2> HIDE DEF q, in, f
  <2>10. \/ Answered(q, p, in.gas)
         \/ Opens(q, p, in) /\ (in.moves /\ bad # "Transfer" => Paid(q, p, in))
    BY <2>6, <2>7, <2>8, ExecuteCallShape
  <2>11. CASE Answered(q, p, in.gas)
    <3>1. Gas(p) \in Int /\ Gas(p) <= GasIn(q.frames) + in.gas /\ (Steady(q) => Balanced(p))
          /\ UndoneIn(q, p) /\ DeliveredIn(q, p)
      BY <2>5, <2>7, <2>11, AnsweredKeeps
    <3>2. Gas(p) <= GasIn(q.frames) + (cost + gas)
      BY <1>3, <2>3, <2>5, <2>7, <3>1
    <3> QED
      BY <2>9, <3>1, <3>2
  <2>12. CASE Opens(q, p, in) /\ (in.moves /\ bad # "Transfer" => Paid(q, p, in))
    <3>1. /\ Gas(p) = GasIn(q.frames) + in.gas /\ (Steady(q) => Balanced(p)) /\ UndoneIn(q, p)
          /\ Len(p.frames) = Len(q.frames) + 1 /\ Top(p).self = in.self
          /\ Paid(q, p, in) => DeliveredIn(q, p)
      BY <2>5, <2>7, <2>12, OpensKeeps
    <3>2. Gas(p) \in Int /\ Gas(p) <= GasIn(q.frames) + (cost + gas)
      BY <1>3, <2>3, <2>5, <2>7, <3>1
    <3>3. CASE scheme = "Delegate"
      <4>1. Top(p).self = f.self
        BY <2>5, <3>1, <3>3
      <4>2. DeliveredIn(m, p)
        BY <4>1 DEF DeliveredIn, f
      <4> QED
        BY <2>9, <3>1, <3>2, <4>2
    <3>4. CASE scheme # "Delegate"
      BY <2>5, <2>9, <2>12, <3>1, <3>2, <3>4, Zenon
    <3> QED
      BY <3>3, <3>4
  <2> QED
    BY <2>10, <2>11, <2>12
<1> QED
  BY <1>5, <1>6, <1>7

\* createInner lends what it has taken.
LEMMA OpCreateKeeps ==
  ASSUME NEW m, Sound(m), m.frames # <<>>, NEW new \in New, NEW value \in Amount, NEW empty, NEW bad,
         NEW p \in OpCreate(m, new, value, empty, bad)
  PROVE  Keeps(m, p) /\ DeliveredIn(m, p)
<1> DEFINE f == Top(m)
           gas == Lendable(f.gas - CreateCost)
           q == Pay(m, CreateCost + gas)
           in == [self |-> new, caller |-> f.self, value |-> value, gas |-> gas]
<1>1. m \in Machines /\ m.frames \in Seq(LegalFrame)
  BY DEF Sound, Machines
<1>2. f \in Frame
  BY <1>1, FrontProperties DEF Top, LegalFrame
<1>3. {"StaticViolation", "OutOfGas"} \subseteq Result \ {"Return", "Revert"}
  BY DEF Result, Failure
<1>4. \/ p \in Finish(m, "StaticViolation")
      \/ p \in Finish(m, "OutOfGas")
      \/ ~f.static /\ CanPay(m, CreateCost) /\ p \in ExecuteCreate(q, in, empty, bad)
  BY DEF OpCreate
<1>5. CASE p \in Finish(m, "StaticViolation") \/ p \in Finish(m, "OutOfGas")
  BY <1>3, <1>5, FinishNow
<1>6. CASE ~f.static /\ CanPay(m, CreateCost) /\ p \in ExecuteCreate(q, in, empty, bad)
  <2>1. f.gas - CreateCost \in Nat /\ f.gas \in Nat /\ CreateCost \in Nat
    BY <1>2, <1>6, FramesOK DEF CanPay, Frame
  <2>2. gas \in 0 .. f.gas - CreateCost
    BY <2>1, LendableType, Zenon
  <2> HIDE DEF gas
  <2>3. CreateCost + gas \in Nat /\ CanPay(m, CreateCost + gas) /\ gas \in Nat
    BY <2>1, <2>2 DEF CanPay
  <2>4. Sound(q) /\ ~StaticTop(q)
    BY <1>6, <2>3, PaySound DEF StaticTop
  <2>5. in \in CreateInput /\ in.gas = gas
    BY <1>2, <2>2, FramesOK DEF CreateInput, Frame
  <2>6. p \in ExecuteCreate(q, in, empty, bad)
    BY <1>6
  <2>7. /\ q \in Machines /\ Len(q.checkpoints) = Len(q.frames) /\ GasIn(q.frames) \in Int
    <3>1. q \in Machines /\ Len(q.checkpoints) = Len(q.frames)
      BY <2>3, PayFields
    <3> QED
      BY <3>1, SumsOf DEF Machines
  <2>8. ASSUME Gas(p) \in Int, Gas(p) <= GasIn(q.frames) + (CreateCost + gas),
               Steady(q) => Balanced(p), UndoneIn(q, p)
        PROVE  Keeps(m, p) /\ (DeliveredIn(q, p) => DeliveredIn(m, p))
    BY <2>3, <2>8, PaidKeeps
  <2> HIDE DEF q, in, f
  <2>9. Answered(q, p, in.gas) \/ (Opens(q, p, in) /\ Paid(q, p, in))
    BY <2>4, <2>5, <2>6, ExecuteCreateShape
  <2>10. /\ Gas(p) \in Int /\ Gas(p) <= GasIn(q.frames) + in.gas
         /\ Steady(q) => Balanced(p)
         /\ UndoneIn(q, p) /\ DeliveredIn(q, p)
    <3>1. CASE Answered(q, p, in.gas)
      BY <2>3, <2>5, <2>7, <3>1, AnsweredKeeps
    <3>2. CASE Opens(q, p, in) /\ Paid(q, p, in)
      <4>1. /\ Gas(p) = GasIn(q.frames) + in.gas /\ (Steady(q) => Balanced(p))
            /\ UndoneIn(q, p) /\ DeliveredIn(q, p)
        BY <2>3, <2>5, <2>7, <3>2, OpensKeeps
      <4> QED
        BY <2>3, <2>5, <2>7, <4>1
    <3> QED
      BY <2>9, <3>1, <3>2
  <2>11. Gas(p) <= GasIn(q.frames) + (CreateCost + gas)
    BY <2>1, <2>3, <2>5, <2>7, <2>10
  <2> QED
    BY <2>8, <2>10, <2>11
<1> QED
  BY <1>4, <1>5, <1>6
-----------------------------------------------------------------------------
(***************************************************************************)
(* The specification, again.                                               *)
(***************************************************************************)
\* Without a failing Journal.Transfer, whose error executeCall drops.
TransfersSucceed == "Transfer" \notin DBErrors

\* The machine after a step.
LEMMA BecomeMachine ==
  ASSUME NEW m, Sound(m), Become(m)
  PROVE  Machine' = m
BY DEF Sound, Machine, Become, Machines

\* Only an access that may fail fails.
LEMMA BadIsKnown ==
  ASSUME NEW accesses, NEW bad \in Bad(accesses), TransfersSucceed
  PROVE  bad # "Transfer"
BY DEF Bad, TransfersSucceed

\* One step of the frames that run.
LEMMA RunningStep ==
  ASSUME IInv, Running, Next
  PROVE  Keeps(Machine, Machine') /\ (TransfersSucceed => DeliveredIn(Machine, Machine'))
<1> DEFINE M == Machine
<1>1. Sound(M) /\ M.frames = frames /\ M.frames # <<>>
  BY DEF IInv, Machine, Running
<1>2. ASSUME NEW p, Sound(p), Become(p), Keeps(M, p), TransfersSucceed => DeliveredIn(M, p)
      PROVE  Keeps(Machine, Machine') /\ (TransfersSucceed => DeliveredIn(Machine, Machine'))
  BY <1>2, BecomeMachine
<1>3. ~Transact
  BY DEF Transact
<1> HIDE DEF M
<1>4. CASE Sstore
  <2>1. PICK v \in {0, 1} : \E p \in OpSstore(M, v) : Become(p)
    BY <1>4 DEF Sstore, M
  <2> QED
    BY <1>1, <1>2, <2>1, OpSstoreSound, OpSstoreKeeps
<1>5. CASE Selfdestruct
  <2>1. PICK to \in Addr, bad \in Bad({"Beneficiary"}) :
          \E burnt \in IF to = Last(frames).self THEN BOOLEAN ELSE {FALSE} :
            \E p \in OpSelfdestruct(M, to, burnt, bad) : Become(p)
    BY <1>5, Zenon DEF Selfdestruct, M
  <2>2. PICK burnt : \E p \in OpSelfdestruct(M, to, burnt, bad) : Become(p)
    BY <2>1
  <2> QED
    BY <1>1, <1>2, <2>2, OpSelfdestructSound, OpSelfdestructKeeps
<1>6. CASE Call
  <2>1. PICK scheme \in Schemes, to \in Addr, value \in Amount, asked \in Asked :
          \E bad \in Bad(CallAccess(to)) :
            /\ scheme \in {"Delegate", "Static"} => value = 0
            /\ \E p \in OpCall(M, scheme, to, value, asked, bad) : Become(p)
    BY <1>6 DEF Call, M
  <2>2. PICK bad \in Bad(CallAccess(to)) :
            /\ scheme \in {"Delegate", "Static"} => value = 0
            /\ \E p \in OpCall(M, scheme, to, value, asked, bad) : Become(p)
    BY <2>1
  <2>3. PICK p \in OpCall(M, scheme, to, value, asked, bad) : Become(p)
    BY <2>2
  <2>4. scheme \in {"Call", "CallCode", "Delegate", "Static"}
    BY DEF Schemes
  <2>5. Sound(p)
    BY <1>1, <2>2, <2>3, <2>4, OpCallSound
  <2>6. Keeps(M, p) /\ (bad # "Transfer" => DeliveredIn(M, p))
    BY <1>1, <2>2, <2>3, <2>4, OpCallKeeps
  <2> QED
    BY <1>2, <2>3, <2>5, <2>6, BadIsKnown
<1>7. CASE Create
  <2>1. PICK new \in New, value \in Amount, empty \in BOOLEAN, bad \in Bad(CreateAccess) :
          \E p \in OpCreate(M, new, value, empty, bad) : Become(p)
    BY <1>7 DEF Create, M
  <2> QED
    BY <1>1, <1>2, <2>1, OpCreateSound, OpCreateKeeps
<1>8. CASE Return
  <2>1. PICK result \in {"Return", "Revert"}, data \in {"None", "Own"} :
          \E p \in OpReturn(M, result, data) : Become(p)
    BY <1>8 DEF Return, M
  <2> QED
    BY <1>1, <1>2, <2>1, OpReturnSound, OpReturnKeeps
<1>9. CASE Halt
  <2>1. PICK result \in {"Stop", "Error"} : \E p \in Finish(M, result) : Become(p)
    BY <1>9 DEF Halt, M
  <2>2. result \in Result /\ result \notin {"Return", "Revert"}
    BY DEF Result, OkResult, Failure
  <2> QED
    BY <1>1, <1>2, <2>1, <2>2, FinishSound, FinishNow
<1> QED
  BY <1>3, <1>4, <1>5, <1>6, <1>7, <1>8, <1>9 DEF Next

\* The step that starts the transaction.
LEMMA TransactStep ==
  ASSUME IInv, Transact
  PROVE  /\ Balanced(Machine) => Balanced(Machine')
         /\ TransfersSucceed => DeliveredIn(Machine, Machine')
<1> DEFINE M == Machine
           Done(p) == /\ Steady(M) => Balanced(p)
                      /\ TransfersSucceed => DeliveredIn(M, p)
<1>1. /\ Sound(M) /\ M \in Machines /\ ~StaticTop(M) /\ Len(M.checkpoints) = Len(M.frames)
      /\ M.outcome.result = "None"
  BY DEF IInv, Sound, Machine, Paired, Transact, Running, StaticTop
<1>2. "None" \notin OkResult
  BY DEF OkResult
<1>3. Balanced(M) => Steady(M)
  BY <1>1, <1>2, SteadyIsBalanced
<1>4. ASSUME NEW p, Sound(p), Become(p), Done(p)
      PROVE  /\ Balanced(Machine) => Balanced(Machine')
             /\ TransfersSucceed => DeliveredIn(Machine, Machine')
  BY <1>3, <1>4, BecomeMachine
<1> HIDE DEF M
<1>5. Sender \in Addr /\ GasLimit \in Nat /\ Amount \subseteq Nat /\ New \subseteq Addr
  BY FramesOK
<1>6. ASSUME NEW value \in Amount, NEW to \in Addr, NEW bad \in Bad(CallAccess(to)), NEW p,
             p \in ExecuteCall(M,
                     [self |-> to, code |-> to, caller |-> Sender, value |-> value,
                      moves |-> TRUE, static |-> FALSE, gas |-> GasLimit], bad)
      PROVE  Sound(p) /\ Done(p)
  <2> DEFINE in == [self |-> to, code |-> to, caller |-> Sender, value |-> value,
                    moves |-> TRUE, static |-> FALSE, gas |-> GasLimit]
  <2>1. in \in CallInput /\ ~in.static /\ in.moves /\ in.gas \in Nat
    BY <1>5 DEF CallInput
  <2>2. p \in ExecuteCall(M, in, bad)
    BY <1>6
  <2> HIDE DEF in
  <2>3. Sound(p)
    BY <1>1, <2>1, <2>2, ExecuteCallSound DEF Callable
  <2>4. Answered(M, p, in.gas) \/ (Opens(M, p, in) /\ (bad # "Transfer" => Paid(M, p, in)))
    BY <1>1, <2>1, <2>2, ExecuteCallShape
  <2>5. CASE Answered(M, p, in.gas)
    BY <1>1, <2>1, <2>3, <2>5, AnsweredKeeps
  <2>6. CASE Opens(M, p, in) /\ (bad # "Transfer" => Paid(M, p, in))
    <3>1. (Steady(M) => Balanced(p)) /\ (Paid(M, p, in) => DeliveredIn(M, p))
      BY <1>1, <2>1, <2>6, OpensKeeps
    <3> QED
      BY <2>3, <2>6, <3>1, BadIsKnown
  <2> QED
    BY <2>4, <2>5, <2>6
<1>7. ASSUME NEW value \in Amount, NEW new \in New, NEW empty, NEW bad, NEW p,
             p \in ExecuteCreate(M, [self |-> new, caller |-> Sender, value |-> value,
                                     gas |-> GasLimit], empty, bad)
      PROVE  Sound(p) /\ Done(p)
  <2> DEFINE in == [self |-> new, caller |-> Sender, value |-> value, gas |-> GasLimit]
  <2>1. in \in CreateInput /\ in.gas \in Nat
    BY <1>5 DEF CreateInput
  <2>2. p \in ExecuteCreate(M, in, empty, bad)
    BY <1>7
  <2> HIDE DEF in
  <2>3. Sound(p)
    BY <1>1, <2>1, <2>2, ExecuteCreateSound
  <2>4. Answered(M, p, in.gas) \/ (Opens(M, p, in) /\ Paid(M, p, in))
    BY <1>1, <2>1, <2>2, ExecuteCreateShape
  <2> QED
    BY <1>1, <2>1, <2>3, <2>4, AnsweredKeeps, OpensKeeps
<1> HIDE DEF Done
<1>8. \E p : Sound(p) /\ Done(p) /\ Become(p)
  BY <1>6, <1>7, Zenon DEF Transact, M
<1> QED
  BY <1>4, <1>8

\* The totals that the properties speak of are the sums of the machine.
LEMMA TotalsAreSums == IInv => TotalGas = Gas(Machine) /\ TotalRefund = Refund(Machine)
<1> SUFFICES ASSUME IInv PROVE TotalGas = Gas(Machine) /\ TotalRefund = Refund(Machine)
  OBVIOUS
<1>1. Machine.frames = frames /\ Machine.outcome = outcome /\ frames \in Seq(LegalFrame)
  BY DEF IInv, Sound, Machine, Machines
<1>2. /\ FoldSeq(LAMBDA f, n : f.gas + n, 0, frames) = GasIn(frames)
      /\ FoldSeq(LAMBDA f, n : f.refund + n, 0, frames) = RefundIn(frames)
  BY <1>1, FoldIsSum, Zenon
<1>3. TotalGas = IF frames # <<>> THEN GasIn(frames)
                   ELSE IF outcome.result \in OkResult \cup RevertResult THEN outcome.gas ELSE 0
  BY <1>2, Zenon DEF TotalGas, Running
<1>4. TotalRefund = IF frames # <<>> THEN RefundIn(frames)
                      ELSE IF outcome.result \in OkResult THEN outcome.refund ELSE 0
  BY <1>2, Zenon DEF TotalRefund, Running
<1> QED
  BY <1>1, <1>3, <1>4 DEF Gas, Refund

\* No instruction, and no way back from a sub-frame, gives more gas than was lent or paid for,
\* stipends included: for any program, call depth and gas schedule in which the stipend is
\* below the cost of a transfer (loadAccountAndCalcGas, handleCallReturn, handleCreateReturn).
THEOREM GasIsNeverCreated == Spec => GasNeverCreated
<1>1. IInv /\ IInv' /\ [Next]_vars => [Running => TotalGas' <= TotalGas]_vars
  <2> SUFFICES ASSUME IInv, IInv', Next, Running PROVE TotalGas' <= TotalGas
    OBVIOUS
  <2>1. TotalGas = Gas(Machine)
    BY TotalsAreSums
  <2>2. (IInv => TotalGas = Gas(Machine) /\ TotalRefund = Refund(Machine))'
    BY TotalsAreSums, PTL
  <2>3. TotalGas' = Gas(Machine')
    BY <2>2 DEF Gas, Machine
  <2>4. Gas(Machine') <= GasIn(Machine.frames)
    BY RunningStep DEF Keeps
  <2>5. Gas(Machine) = GasIn(Machine.frames)
    BY DEF Gas, Machine, Running
  <2> QED
    BY <2>1, <2>3, <2>4, <2>5
<1> QED
  BY <1>1, FramesAlwaysSound, PTL DEF Spec, GasNeverCreated

\* Whatever ran inside it, a call that failed leaves the world as it was at its checkpoint, and
\* one that was refused changes at most a nonce, the creator's (executeCall, executePrecompile,
\* executeCreate, returnCreate).
THEOREM FailuresAreUndone == Spec => FailureUndone
<1> DEFINE Undone ==
      Running /\ Running' /\ ~Last(frames').ok =>
       CASE Len(frames') < Len(frames) -> world' = Last(checkpoints)
         [] Len(frames') = Len(frames) ->
              [world' EXCEPT !.slot = world.slot] \in {world} \cup Bumped(world)
         [] OTHER -> TRUE
<1>1. IInv /\ [Next]_vars => [Undone]_vars
  <2> SUFFICES ASSUME IInv, Next, Running, Running', ~Last(frames').ok
               PROVE  /\ Len(frames') < Len(frames) => world' = Last(checkpoints)
                      /\ Len(frames') = Len(frames) =>
                           [world' EXCEPT !.slot = world.slot] \in {world} \cup Bumped(world)
    <3>1. CASE Len(frames') < Len(frames)
      BY <3>1
    <3>2. CASE Len(frames') = Len(frames)
      BY <3>2
    <3> QED
      BY <3>1, <3>2
  <2>1. UndoneIn(Machine, Machine')
    BY RunningStep DEF Keeps
  <2> QED
    BY <2>1 DEF UndoneIn, Machine, Top, Running
<1> QED
  BY <1>1, FramesAlwaysSound, PTL DEF Spec, FailureUndone

\* After LONDON the refunds of the open frames, and that of the result, count the slots that are
\* clear and were not, through any nesting of failures: a frame that fails takes its refund and
\* its slots with it (SstoreRefund, RecordRefund in handleCallReturn).  The reason is that at
\* each checkpoint the frames below it counted what was clear then (Balanced).
THEOREM RefundsMatchClears ==
  ASSUME ~Frontier
  PROVE  Spec => []RefundMatchesClears
<1> DEFINE RInv == Balanced(Machine)
<1>1. Init => RInv
  <2> SUFFICES ASSUME Init PROVE Balanced(Machine)
    OBVIOUS
  <2>1. /\ Machine.frames = <<>> /\ Machine.outcome.result = "None" /\ Machine.world = Start
    BY DEF Init, Machine, Refused
  <2>2. "None" \notin OkResult
    BY DEF OkResult
  <2>3. Refund(Machine) = 0
    BY <2>1, <2>2 DEF Refund
  <2>4. {a \in Addr : Start.slot[a] # 0 /\ Start.slot[a] = 0} = {}
    OBVIOUS
  <2>5. Clears(Start.slot) = 0
    BY <2>4, FS_EmptySet DEF Clears
  <2>6. 1 .. Len(Machine.frames) = {}
    BY <2>1
  <2> QED
    BY <2>1, <2>3, <2>5, <2>6 DEF Balanced
<1>2. IInv /\ RInv /\ [Next]_vars => RInv'
  <2> SUFFICES ASSUME IInv, Balanced(Machine), [Next]_vars PROVE Balanced(Machine')
    BY DEF Balanced, Machine
  <2>1. CASE Transact
    BY <2>1, TransactStep
  <2>2. CASE Running /\ Next
    <3>1. Machine \in Machines /\ Machine.frames # <<>>
      BY <2>2 DEF IInv, Sound, Machine, Running
    <3>2. Steady(Machine)
      BY <3>1, SteadyIsBalanced
    <3> QED
      BY <2>2, <3>2, RunningStep DEF Keeps
  <2>3. CASE UNCHANGED vars
    BY <2>3 DEF vars, Machine
  <2> QED
    BY <2>1, <2>2, <2>3, Zenon DEF Next, Sstore, Selfdestruct, Call, Create, Return, Halt
<1>3. IInv /\ RInv => RefundMatchesClears
  BY TotalsAreSums DEF Balanced, Clears, RefundMatchesClears, Machine
<1> HIDE DEF RInv
<1> QED
  BY <1>1, <1>2, <1>3, FramesAlwaysSound, PTL DEF Spec

\* Who starts to run with the value of another account has received it, if no Journal.Transfer
\* fails: that executeCall drops its error is the only way to run unpaid (executeCall,
\* CreateAccountCheckpoint).
THEOREM ValueIsDelivered ==
  ASSUME TransfersSucceed
  PROVE  Spec => ValueDelivered
<1> DEFINE Delivered ==
      Len(frames') > Len(frames) =>
       LET f == Last(frames')
           before == Last(checkpoints').bal
       IN  \/ f.self = f.caller
           \/ Running /\ f.self = Last(frames).self
           \/ /\ world'.bal[f.self] = before[f.self] + f.value
              /\ world'.bal[f.caller] = before[f.caller] - f.value
<1>1. IInv /\ [Next]_vars => [Delivered]_vars
  <2> SUFFICES ASSUME IInv, Next PROVE Delivered
    OBVIOUS
  <2>1. DeliveredIn(Machine, Machine')
    BY RunningStep, TransactStep, Zenon DEF Next, Sstore, Selfdestruct, Call, Create, Return, Halt
  <2> QED
    BY <2>1 DEF DeliveredIn, Machine, Top, Running
<1> QED
  BY <1>1, FramesAlwaysSound, PTL DEF Spec, ValueDelivered
-----------------------------------------------------------------------------
(***************************************************************************)
(* What a creation pays for its code.                                      *)
(***************************************************************************)
\* A success hands over all the gas it has left.
LEMMA DeliverWon ==
  ASSUME NEW x \in Machines, NEW o \in LegalOutcome, o.result \in OkResult
  PROVE  Gas(Deliver(x, o)) = GasIn(x.frames) + o.gas
<1> DEFINE p == Deliver(x, o)
<1>1. o.gas \in Nat /\ x.frames \in Seq(LegalFrame)
  BY DEF LegalOutcome, Outcome, Machines
<1>2. CASE x.frames = <<>>
  <2>1. p.frames = <<>> /\ p.outcome = o
    BY <1>2 DEF Deliver, Machines
  <2>2. GasIn(x.frames) = 0
    BY <1>1, <1>2, SumsOf, Zenon
  <2> QED
    BY <1>1, <2>1, <2>2 DEF Gas
<1>3. CASE x.frames # <<>>
  <2> DEFINE f == Top(x)
             g == Returned(f, o)
  <2>1. f \in LegalFrame /\ p = SetTop(x, g)
    BY <1>1, <1>3, FrontProperties DEF Deliver, Top
  <2>2. g \in LegalFrame
    BY <2>1, ReturnedType, Zenon
  <2>3. f.gas \in Nat /\ g.gas = f.gas + o.gas
    BY <2>1 DEF Returned, LegalFrame, Frame
  <2>4. GasIn(x.frames) \in Int
    BY <1>1, SumsOf
  <2> HIDE DEF p, g
  <2>5. p.frames # <<>> /\ GasIn(p.frames) = GasIn(x.frames) - f.gas + g.gas
    BY <1>3, <2>1, <2>2, SetTopFields
  <2>6. GasIn(p.frames) = GasIn(x.frames) + o.gas
    BY <1>1, <2>3, <2>4, <2>5
  <2> QED
    BY <2>5, <2>6 DEF Gas, p
<1> QED
  BY <1>2, <1>3

\* DepositBuysCode of a step from m, whose innermost frame creates, to p.
BoughtIn(m, p) ==
  LET won == IF p.frames # <<>> THEN Top(p).ok
               ELSE p.outcome.result \in OkResult /\ p.outcome.made
  IN  /\ won => Gas(p) = Gas(m) - IF p.world.code[Top(m).self] THEN DepositCost ELSE 0
      /\ Frontier => won

\* opReturn and opRevert of init code.
LEMMA OpReturnBuys ==
  ASSUME NEW m, Sound(m), m.frames # <<>>, Top(m).kind = "Create", ~m.world.code[Top(m).self],
         NEW result \in {"Return", "Revert"}, Frontier => result = "Return",
         NEW data \in {"None", "Own"}, NEW p \in OpReturn(m, result, data)
  PROVE  BoughtIn(m, p)
<1> DEFINE f == [Top(m) EXCEPT !.data = data]
           q == SetTop(m, f)
           o == ResultFromHalt(f, result)
           n == OnExit(Popped(q))
           R == CheckpointRevert(n)
           C == CheckpointCommit(n)
           self == Top(m).self
<1>1. /\ m \in Machines /\ m.frames \in Seq(LegalFrame) /\ m.checkpoints \in Seq(World)
      /\ m.checkpoints # <<>> /\ m.hooks \in Seq(Nat) /\ m.hooks # <<>>
  <2>1. /\ m \in Machines /\ m.frames \in Seq(LegalFrame) /\ Len(m.checkpoints) = Len(m.frames)
        /\ m.hooks \in Seq(Nat) /\ m.checkpoints \in Seq(World) /\ m.hooks = Depths(Len(m.frames))
    BY DEF Sound, Machines, Paired
  <2>2. Len(m.frames) \in Nat \ {0}
    BY <2>1, EmptySeq
  <2>3. Len(m.hooks) = Len(m.frames)
    BY <2>1, <2>2, DepthsType, Zenon
  <2> QED
    BY <2>1, <2>2, <2>3
<1>2. Top(m) \in LegalFrame
  BY <1>1, FrontProperties DEF Top
<1>3. /\ f \in LegalFrame /\ f.static = Top(m).static /\ f.data = data /\ f.kind = "Create"
      /\ f.self = self /\ f.gas = Top(m).gas
  BY <1>2 DEF LegalFrame, Frame, Data
<1> HIDE DEF f
<1>4. /\ q \in Machines /\ q.frames # <<>> /\ Top(q) = f /\ Front(q.frames) = Front(m.frames)
      /\ q.checkpoints = m.checkpoints /\ q.world = m.world
  BY <1>1, <1>3, SetTopFields
<1>5. q.hooks = m.hooks
  BY DEF SetTop
<1>6. \E output \in Output(result) : p = ReturnCreate(n, o, self, output)
  <2>1. p \in Finish(q, result)
    BY Zenon DEF OpReturn, f
  <2> HIDE DEF q
  <2>2. q.frames # <<>> /\ Top(q).kind # "Call" /\ Top(q).self = self /\ Top(q) = f
    BY <1>3, <1>4
  <2>3. p \in {ReturnCreate(OnExit(Popped(q)), ResultFromHalt(Top(q), result), Top(q).self, output) :
                 output \in Output(result)}
    BY <2>1, <2>2, Zenon DEF Finish
  <2> QED
    BY <2>2, <2>3
<1> HIDE DEF q
<1>7. /\ n \in Machines /\ n.frames = Front(m.frames) /\ n.checkpoints = m.checkpoints
      /\ n.world = m.world
  <2>1. Front(m.frames) \in Seq(LegalFrame) /\ Front(m.hooks) \in Seq(Nat)
    BY <1>1, FrontProperties, Zenon
  <2> QED
    BY <1>4, <1>5, <2>1, Zenon DEF Machines, OnExit, Popped
<1> HIDE DEF n
<1>8. /\ C \in Machines /\ C.frames = Front(m.frames) /\ C.world = m.world
      /\ R \in Machines /\ R.frames = Front(m.frames)
  <2>1. Last(m.checkpoints) \in World /\ Front(m.checkpoints) \in Seq(World)
    BY <1>1, FrontProperties, Zenon
  <2> QED
    BY <1>7, <2>1, Zenon DEF CheckpointCommit, CheckpointRevert, Machines
<1>9. /\ o \in LegalOutcome /\ o.gas = Top(m).gas /\ o.gas \in Nat
      /\ o.result = result /\ o.kind = "Create"
  <2>1. data \in {"None", "Own"} /\ result \in Result
    BY DEF Result, OkResult, RevertResult
  <2> QED
    BY <1>3, <2>1 DEF ResultFromHalt, LegalFrame, Frame, LegalOutcome, Outcome, Data
<1> HIDE DEF o, R, C
<1>10. PICK output : p = ReturnCreate(n, o, self, output)
  BY <1>6
<1> DEFINE stored == output # "Empty" /\ (output = "Empty" \/ o.gas >= DepositCost)
           left == IF stored THEN o.gas - DepositCost ELSE o.gas
           with == IF stored THEN [C EXCEPT !.world.code[self] = TRUE] ELSE C
           kept == [o EXCEPT !.result = "Return", !.gas = left, !.data = "None", !.made = TRUE]
<1>11. \/ \E r \in Result \ OkResult : p = Deliver(R, [o EXCEPT !.result = r]) /\ ~Frontier
       \/ p = Deliver(with, kept)
  <2>1. \/ o.result \notin OkResult /\ p = Deliver(R, [o EXCEPT !.result = o.result])
        \/ ~Frontier /\ p = Deliver(R, [o EXCEPT !.result = "CodeRefused"])
        \/ ~Frontier /\ p = Deliver(R, [o EXCEPT !.result = "OutOfGas"])
        \/ p = Deliver(with, kept)
    BY <1>10 DEF ReturnCreate, R, C
  <2>2. /\ "CodeRefused" \in Result \ OkResult /\ "OutOfGas" \in Result \ OkResult
        /\ "Return" \in OkResult /\ result \in Result
    BY DEF Result, OkResult, RevertResult, Failure
  <2> QED
    BY <1>9, <2>1, <2>2
<1>12. CASE \E r \in Result \ OkResult : p = Deliver(R, [o EXCEPT !.result = r]) /\ ~Frontier
  <2>1. PICK r \in Result \ OkResult : p = Deliver(R, [o EXCEPT !.result = r]) /\ ~Frontier
    BY <1>12
  <2> DEFINE e == [o EXCEPT !.result = r]
  <2>2. e \in LegalOutcome /\ e.result = r
    BY <1>9 DEF LegalOutcome, Outcome
  <2>3. p = Deliver(R, e) /\ ~Frontier
    BY <2>1
  <2> HIDE DEF e
  <2>4. CASE R.frames = <<>>
    <3>1. p.frames = <<>> /\ p.outcome.result \notin OkResult
      BY <1>8, <2>2, <2>3, <2>4 DEF Deliver, Machines
    <3> QED
      BY <2>3, <3>1 DEF BoughtIn
  <2>5. CASE R.frames # <<>>
    <3>1. p.frames # <<>> => (Top(p).ok <=> Won(e))
      BY <1>8, <2>2, <2>3, DeliverFields
    <3>2. Len(p.frames) = Len(R.frames) /\ R.frames \in Seq(LegalFrame)
      <4>1. Len(p.frames) = Len(R.frames)
        BY <1>8, <2>2, <2>3, DeliverFields
      <4> QED
        BY <1>8, <4>1 DEF Machines
    <3>3. p.frames # <<>> /\ ~Won(e)
      BY <2>2, <2>5, <3>2 DEF Won
    <3> QED
      BY <2>3, <3>1, <3>3 DEF BoughtIn
  <2> QED
    BY <2>4, <2>5
<1>13. CASE p = Deliver(with, kept)
  <2>1. left \in Nat /\ left = o.gas - IF stored THEN DepositCost ELSE 0
    BY <1>9, FramesOK
  <2>2. /\ with \in Machines /\ with.frames = Front(m.frames)
        /\ with.world.code[self] = stored
    <3>1. self \in Addr /\ m.world \in World
      BY <1>1, <1>2 DEF LegalFrame, Frame, Machines
    <3> DEFINE coded == [C EXCEPT !.world.code[self] = TRUE]
    <3>2. /\ coded \in Machines /\ coded.frames = Front(m.frames)
          /\ coded.world.code[self] = TRUE
      BY <1>8, <3>1, Zenon DEF Machines, World
    <3>3. with = IF stored THEN coded ELSE C
      OBVIOUS
    <3>4. C.world.code[self] = FALSE
      <4>1. m.world.code[self] \in BOOLEAN
        BY <3>1 DEF World
      <4> QED
        BY <1>8, <4>1
    <3>5. stored \in BOOLEAN
      OBVIOUS
    <3> HIDE DEF coded, stored, with
    <3> QED
      BY <1>8, <3>2, <3>3, <3>4, <3>5, Zenon
  <2> HIDE DEF left
  <2>3. /\ kept \in LegalOutcome /\ kept.gas = left /\ kept.result = "Return" /\ kept.made
    BY <1>9, <2>1, Zenon DEF LegalOutcome, Outcome, Result, OkResult, Data
  <2> HIDE DEF kept, with, stored
  <2>4. Won(kept) /\ kept.result \in OkResult
    BY <2>3 DEF Won, OkResult
  <2>5. Gas(p) = GasIn(Front(m.frames)) + left
    BY <1>13, <2>2, <2>3, <2>4, DeliverWon
  <2>6. Gas(m) = GasIn(Front(m.frames)) + Top(m).gas /\ GasIn(Front(m.frames)) \in Int
    <3>1. Front(m.frames) \in Seq(LegalFrame)
      BY <1>1, FrontProperties, Zenon
    <3> QED
      BY <1>1, <3>1, SumsFront, SumsOf DEF Gas, Top
  <2>7. p.world = with.world /\ Len(p.frames) = Len(with.frames)
        /\ (p.frames # <<>> => (Top(p).ok <=> Won(kept)))
    BY <1>13, <2>2, <2>3, DeliverFields
  <2>8. p.frames = <<>> => p.outcome = kept
    <3>1. with.frames # <<>> => Len(with.frames) # 0
      BY <2>2 DEF Machines
    <3>2. p.frames = <<>> => with.frames = <<>>
      BY <2>7, <3>1
    <3> QED
      BY <1>13, <2>2, <3>2 DEF Deliver, Machines
  <2>9. IF p.frames # <<>> THEN Top(p).ok ELSE p.outcome.result \in OkResult /\ p.outcome.made
    BY <2>3, <2>4, <2>7, <2>8
  <2>10. Gas(p) = Gas(m) - IF p.world.code[self] THEN DepositCost ELSE 0
    <3>1. p.world.code[self] = stored
      BY <2>2, <2>7
    <3>2. DepositCost \in Nat
      BY FramesOK
    <3> QED
      BY <1>9, <2>1, <2>5, <2>6, <3>1, <3>2
  <2> QED
    BY <2>9, <2>10 DEF BoughtIn
<1> QED
  BY <1>11, <1>12, <1>13

\* When init code returns and the creation succeeds, the gas of the transaction has fallen by the
\* deposit if the account has code, and by nothing if not; in FRONTIER no output makes it fail
\* (returnCreate, handleCreateReturn, transact).
THEOREM DepositsBuyCode == Spec => DepositBuysCode
<1> DEFINE Bought ==
      Return /\ Last(frames).kind = "Create" /\ ~world.code[Last(frames).self] =>
       LET stored == world'.code[Last(frames).self]
       IN  /\ Succeeded' => TotalGas - TotalGas' = IF stored THEN DepositCost ELSE 0
           /\ Frontier => Succeeded'
<1>1. IInv /\ IInv' /\ [Next]_vars => [Bought]_vars
  <2> SUFFICES ASSUME IInv, IInv', Return, Last(frames).kind = "Create",
                      ~world.code[Last(frames).self]
               PROVE  /\ Succeeded' => TotalGas - TotalGas'
                                         = IF world'.code[Last(frames).self] THEN DepositCost ELSE 0
                      /\ Frontier => Succeeded'
    OBVIOUS
  <2> DEFINE M == Machine
  <2>1. Sound(M) /\ M.frames = frames /\ M.frames # <<>> /\ M.world = world
    BY DEF IInv, Machine, Return, Running
  <2>2. PICK result \in IF Frontier THEN {"Return"} ELSE {"Return", "Revert"},
             data \in {"None", "Own"} : \E p \in OpReturn(M, result, data) : Become(p)
    BY DEF Return
  <2> HIDE DEF M
  <2>3. PICK p \in OpReturn(M, result, data) : Become(p)
    BY <2>2
  <2>4. result \in {"Return", "Revert"} /\ (Frontier => result = "Return")
    BY <2>2
  <2>5. Sound(p)
    BY <2>1, <2>3, <2>4, OpReturnSound
  <2>6. Machine' = p
    BY <2>3, <2>5, BecomeMachine
  <2>7. BoughtIn(M, p)
    BY <2>1, <2>3, <2>4, OpReturnBuys DEF Top
  <2>8. TotalGas = Gas(M)
    BY TotalsAreSums DEF M
  <2>9. (IInv => TotalGas = Gas(Machine) /\ TotalRefund = Refund(Machine))'
    BY TotalsAreSums, PTL
  <2>10. TotalGas' = Gas(p)
    BY <2>6, <2>9 DEF Gas, Machine
  <2>11. frames' = p.frames /\ outcome' = p.outcome /\ world' = p.world
    BY <2>3 DEF Become
  <2>12. Succeeded' <=> IF p.frames # <<>> THEN Top(p).ok
                          ELSE p.outcome.result \in OkResult /\ p.outcome.made
    BY <2>11 DEF Succeeded, Running, Top
  <2>13. Gas(M) \in Int /\ Gas(p) \in Int
    <3>1. ASSUME NEW n \in Machines PROVE Gas(n) \in Int
      <4>1. n.frames \in Seq(LegalFrame) /\ n.outcome \in LegalOutcome
        BY DEF Machines
      <4>2. GasIn(n.frames) \in Int /\ n.outcome.gas \in Int
        BY <4>1, SumsOf DEF LegalOutcome, Outcome
      <4> QED
        BY <4>2 DEF Gas
    <3> QED
      BY <2>1, <2>5, <3>1 DEF Sound
  <2>14. DepositCost \in Nat
    BY FramesOK
  <2> QED
    BY <2>1, <2>7, <2>8, <2>10, <2>11, <2>12, <2>13, <2>14 DEF BoughtIn, Top
<1> QED
  BY <1>1, FramesAlwaysSound, PTL DEF Spec, DepositBuysCode
=============================================================================
