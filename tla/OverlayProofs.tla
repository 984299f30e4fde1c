--------------------------- MODULE OverlayProofs ----------------------------
(***************************************************************************)
(* do_aggregate(), for every number of frames, queue and pool sizes,       *)
(* metadata fields and failures.  First, it leaves no buffer mapped: a map *)
(* belongs to the output or to a buffer in input_buffers, which unmap goes *)
(* over, and the paths that leave a map behind are those after which the   *)
(* element does not run again.  Then, it draws the boxes of the m-th       *)
(* answer on the m-th picture: every place of the graph holds the next     *)
(* numbers of its side in order (Ordered), and what do_aggregate() has     *)
(* popped, found in the metadata and drawn is told by m (Told).            *)
(***************************************************************************)
EXTENDS Overlay, FiniteSetTheorems, SequenceTheorems, TLAPS

(* What moves through the graph: the number of a frame, or of the end.     *)
Moving ==
  /\ decoded \in Nat /\ sent \in Nat /\ result \in Nat
  /\ queue \in [Pads -> Seq(Nat)] /\ pad \in [Pads -> Seq(Nat)]
  /\ pre \in Seq(Nat) /\ mid \in Seq(Nat)

(* What is mapped can be found again.                                      *)
InHand(m) == m = <<0, 0>> \/ \E k \in DOMAIN inputs : m[2] = inputs[k]

Mapped ==
  /\ inputs \in Seq(Nat)
  /\ \A m \in maps : InHand(m)
  /\ NoMapLeft

Inv == Moving /\ Mapped
-----------------------------------------------------------------------------
(* An element of a sequence that is not empty, and what is left of it.     *)
LEMMA HeadTail ==
  ASSUME NEW s \in Seq(Nat), s # <<>>
  PROVE  s[1] \in Nat /\ Head(s) = s[1] /\ Head(s) \in Nat /\ Tail(s) \in Seq(Nat)
OBVIOUS

LEMMA Singleton ==
  ASSUME NEW n \in Nat
  PROVE  <<n>> \in Seq(Nat)
OBVIOUS

LEMMA EndIsNumber == Eos \in Nat
BY FrameGraphConstants DEF Eos

LEMMA InitInv == Init => Inv
BY DEF Init, GraphInit, Inv, Moving, Mapped, NoMapLeft

(* The elements before the overlay touch none of its variables.            *)
LEMMA MappedKept ==
  ASSUME Inv, UNCHANGED <<pc, inputs, maps>>
  PROVE  Mapped'
BY DEF Inv, Mapped, InHand, NoMapLeft

LEMMA DecodeFrameMoves ==
  ASSUME Inv, DecodeFrame
  PROVE  Moving'
<1> USE DEF Inv, Moving, DecodeFrame, tee, first, last
<1> QED BY HeadTail, Singleton, EndIsNumber DEF Pads, Model, Video

LEMMA TeePushMoves ==
  ASSUME NEW p \in Pads, Inv, TeePush(p)
  PROVE  Moving'
<1> USE DEF Inv, Moving, TeePush, tee, first, last
<1> QED BY HeadTail, Singleton, EndIsNumber DEF Pads, Model, Video

LEMMA DequeueMoves ==
  ASSUME NEW p \in Pads, Inv, Dequeue(p)
  PROVE  Moving'
<1> USE DEF Inv, Moving, Dequeue, tee, first, last
<1>1. Head(queue[p]) \in Nat /\ Tail(queue[p]) \in Seq(Nat)
  BY HeadTail
<1>2. queue' \in [Pads -> Seq(Nat)]
  BY <1>1
<1>3. CASE p = Model
  BY <1>1, <1>2, <1>3, Singleton
<1>4. CASE p # Model /\ Head(queue[p]) = Eos
  BY <1>2, <1>4
<1>5. CASE p # Model /\ Head(queue[p]) # Eos
  <2>1. pad' = [pad EXCEPT ![p] = <<Head(queue[p])>>]
    BY <1>5
  <2>2. pad' \in [Pads -> Seq(Nat)]
    BY <1>1, <2>1, Singleton
  <2> QED BY <1>2, <1>5, <2>2
<1> QED BY <1>3, <1>4, <1>5

LEMMA PreprocMoves ==
  ASSUME Inv, Preproc
  PROVE  Moving'
<1> USE DEF Inv, Moving, Preproc, tee, first, last
<1> QED BY HeadTail, Singleton, EndIsNumber DEF Pads, Model, Video

LEMMA TransformMoves ==
  ASSUME Inv, Transform
  PROVE  Moving'
<1> USE DEF Inv, Moving, Transform, tee, first, last, DropFrame
<1> QED BY HeadTail, Singleton, EndIsNumber DEF Pads, Model, Video

LEMMA PushResultMoves ==
  ASSUME Inv, PushResult
  PROVE  Moving'
<1> USE DEF Inv, Moving, PushResult, tee, first, last
<1> QED BY HeadTail, Singleton, EndIsNumber DEF Pads, Model, Video

LEMMA DetessPopMoves ==
  ASSUME Inv, DetessPop
  PROVE  Moving'
<1> USE DEF Inv, Moving, DetessPop, tee, first, last
<1> QED BY HeadTail, Singleton, EndIsNumber DEF Pads, Model, Video

LEMMA DetessRunMoves ==
  ASSUME Inv, DetessRun
  PROVE  Moving'
<1> USE DEF Inv, Moving, DetessRun, tee, first, last
<1> QED BY HeadTail, Singleton, EndIsNumber DEF Pads, Model, Video

LEMMA DetessFailsMoves ==
  ASSUME Inv, DetessFails
  PROVE  Moving'
<1> USE DEF Inv, Moving, DetessFails, tee, first, last
<1> QED BY HeadTail, Singleton, EndIsNumber DEF Pads, Model, Video

LEMMA PushTensorMoves ==
  ASSUME Inv, PushTensor
  PROVE  Moving'
<1> USE DEF Inv, Moving, PushTensor, tee, first, last
<1> QED BY HeadTail, Singleton, EndIsNumber DEF Pads, Model, Video

-----------------------------------------------------------------------------
LEMMA SetTransmitInv ==
  ASSUME Inv, SetTransmit
  PROVE  Inv'
<1>1. Moving'
  BY DEF Inv, Moving, SetTransmit, graphVars, tee, first, last
<1>2. Mapped'
  BY DEF Inv, Mapped, InHand, NoMapLeft, SetTransmit
<1> QED BY <1>1, <1>2 DEF Inv

LEMMA AggregateInv ==
  ASSUME Inv, Aggregate
  PROVE  Inv'
<1>1. Moving'
  BY DEF Inv, Moving, Aggregate, graphVars, tee, first, last
<1>2. Mapped'
  BY DEF Inv, Mapped, InHand, NoMapLeft, Aggregate
<1> QED BY <1>1, <1>2 DEF Inv

LEMMA AllocateInv ==
  ASSUME Inv, Allocate
  PROVE  Inv'
<1>1. Moving'
  BY DEF Inv, Moving, Allocate, graphVars, tee, first, last
<1>2. Mapped'
  BY DEF Inv, Mapped, InHand, NoMapLeft, Allocate
<1> QED BY <1>1, <1>2 DEF Inv

LEMMA AllocateFailsInv ==
  ASSUME Inv, AllocateFails
  PROVE  Inv'
<1>1. Moving'
  BY DEF Inv, Moving, AllocateFails, graphVars, tee, first, last
<1>2. Mapped'
  BY DEF Inv, Mapped, InHand, NoMapLeft, AllocateFails, GiveUp
<1> QED BY <1>1, <1>2 DEF Inv

LEMMA RunInv ==
  ASSUME Inv, Run
  PROVE  Inv'
<1>1. Moving'
  BY DEF Inv, Moving, Run, graphVars, tee, first, last
<1>2. Mapped'
  BY DEF Inv, Mapped, InHand, NoMapLeft, Run
<1> QED BY <1>1, <1>2 DEF Inv

LEMMA RunRaisesInv ==
  ASSUME Inv, RunRaises
  PROVE  Inv'
<1>1. Moving'
  BY DEF Inv, Moving, RunRaises, graphVars, tee, first, last
<1>2. Mapped'
  BY DEF Inv, Mapped, InHand, NoMapLeft, RunRaises, GiveUp
<1> QED BY <1>1, <1>2 DEF Inv

LEMMA UnmapInv ==
  ASSUME Inv, Unmap
  PROVE  Inv'
<1>1. Moving'
  BY DEF Inv, Moving, Unmap, graphVars, tee, first, last
<1>2. Mapped'
  BY DEF Inv, Mapped, InHand, NoMapLeft, Unmap
<1> QED BY <1>1, <1>2 DEF Inv

LEMMA FinishInv ==
  ASSUME Inv, Finish
  PROVE  Inv'
<1>1. Moving'
  BY DEF Inv, Moving, Finish, graphVars, tee, first, last
<1>2. Mapped'
  BY DEF Inv, Mapped, InHand, NoMapLeft, Finish
<1> QED BY <1>1, <1>2 DEF Inv

LEMMA PopInv ==
  ASSUME NEW p \in Pads, Inv, Pop(p)
  PROVE  Inv'
<1>1. pad[p] \in Seq(Nat) /\ pc = "pop" /\ pc' \in {"pop", "allocate"}
  BY DEF Inv, Moving, Pop
<1>2. CASE pad[p] = <<>>
  <2>1. Moving'
    BY <1>2 DEF Inv, Moving, Pop, othersThanPads, tee, first, last
  <2>2. Mapped'
    BY <1>1, <1>2 DEF Inv, Mapped, InHand, NoMapLeft, Pop
  <2> QED BY <2>1, <2>2 DEF Inv
<1>3. CASE pad[p] # <<>>
  <2> DEFINE f == pad[p][1]
  <2>1. f \in Nat
    BY <1>1, <1>3, HeadTail
  <2>2. /\ pad' = [pad EXCEPT ![p] = <<>>] /\ inputs' = Append(inputs, f)
        /\ maps' = maps \cup {<<p, f>>}
    BY <1>3 DEF Pop
  <2>3. Moving'
    BY <2>2 DEF Inv, Moving, Pop, othersThanPads, tee, first, last
  <2>4. inputs' \in Seq(Nat) /\ inputs'[Len(inputs) + 1] = f
        /\ Len(inputs) + 1 \in DOMAIN inputs'
        /\ \A k \in DOMAIN inputs : k \in DOMAIN inputs' /\ inputs'[k] = inputs[k]
    BY <2>1, <2>2 DEF Inv, Mapped
  <2>5. \A m \in maps' : InHand(m)'
    BY <2>2, <2>4 DEF Inv, Mapped, InHand
  <2>6. NoMapLeft'
    BY <1>1 DEF NoMapLeft
  <2> QED BY <2>3, <2>4, <2>5, <2>6 DEF Inv, Mapped
<1> QED BY <1>2, <1>3

LEMMA PopFailsInv ==
  ASSUME NEW p \in Pads, Inv, PopFails(p)
  PROVE  Inv'
<1>1. Moving'
  BY HeadTail DEF Inv, Moving, PopFails, othersThanPads, tee, first, last
<1>2. Mapped'
  BY HeadTail DEF Inv, Moving, Mapped, InHand, NoMapLeft, PopFails, GiveUp
<1> QED BY <1>1, <1>2 DEF Inv

LEMMA StutterInv ==
  ASSUME Inv, UNCHANGED vars
  PROVE  Inv'
BY DEF vars, graphVars, tee, first, last, Inv, Moving, Mapped, InHand, NoMapLeft

-----------------------------------------------------------------------------
(* The inductive invariant.                                                *)
THEOREM InvHolds == Spec => []Inv
<1>1. ASSUME Inv, GraphNext, Rests
      PROVE  Inv'
  <2>1. Moving'
    BY <1>1, DecodeFrameMoves, TeePushMoves, DequeueMoves, PreprocMoves, TransformMoves,
       PushResultMoves, DetessPopMoves, DetessRunMoves, DetessFailsMoves, PushTensorMoves
       DEF GraphNext, PreprocTask, DetessTask
  <2>2. Mapped'
    BY <1>1, MappedKept DEF Rests, overlayVars
  <2> QED BY <2>1, <2>2 DEF Inv
<1>2. ASSUME Inv, Plugin
      PROVE  Inv'
  BY <1>2, AggregateInv, AllocateInv, AllocateFailsInv, RunInv, RunRaisesInv, UnmapInv,
     FinishInv, PopInv, PopFailsInv DEF Plugin
<1>3. Inv /\ [Next]_vars => Inv'
  BY <1>1, <1>2, SetTransmitInv, StutterInv DEF Next
<1> QED BY InitInv, <1>3, PTL DEF Spec

(* No buffer is finished, and no call returns OK, with a map that nobody   *)
(* will undo.                                                              *)
THEOREM EveryMapUndone == Spec => []NoMapLeft
<1>1. Inv => NoMapLeft
  BY DEF Inv, Mapped
<1> QED BY <1>1, InvHolds, PTL
-----------------------------------------------------------------------------
(* --- which boxes go on which picture ----------------------------------- *)
(* What the tee has pushed to a branch, and what has left its queue.       *)
Pushed(p) == IF p \in owed THEN decoded - 1 ELSE decoded
Taken(p)  == Pushed(p) - Len(queue[p])

Queues ==
  /\ decoded <= Eos /\ owed \subseteq Pads /\ (owed # {} => decoded >= 1)
  /\ DOMAIN has = Frames
  /\ \A p \in Pads :
       Taken(p) \in Nat /\ \A k \in 1 .. Len(queue[p]) : queue[p][k] = Taken(p) + k

VideoPad ==
  /\ pad[Video] # <<>> => pad[Video] = <<Taken(Video)>> /\ Taken(Video) \in Frames
  /\ Video \in eos <=> Taken(Video) = Eos

(* The frames preproc has taken, the last of them in its hands, and where  *)
(* frames are behind it.                                                   *)
Passed   == Taken(Model) - Len(pre)
InTask   == task \in {"mla", "push"} /\ sent # Eos
Going    == task = "idle" \/ InTask
InMid    == mid # <<>> /\ mid # <<Eos>>
InDetess == detess \in {"run", "push"} /\ result # Eos

Places ==
  /\ pre = <<>> \/ (pre = <<Taken(Model)>> /\ Taken(Model) >= 1)
  /\ mid = <<>> \/ Len(mid) = 1
  /\ pad[Model] = <<>> \/ Len(pad[Model]) = 1
  /\ task \in {"idle", "mla", "push", "over"} /\ (task = "mla" => sent # Eos)
  /\ detess \in {"idle", "run", "push", "over"} /\ (detess = "run" => result # Eos)
  /\ Flushing => mid = <<>>
  /\ lost \subseteq 1 .. Passed

(* The place of a frame among those the MLA element did not lose.          *)
Rank(f) == Cardinality((1 .. f) \ lost)
Complete(f) == \A n \in 1 .. f : has[n] = Fields
Kept(f, k) ==
  /\ f \in Frames /\ f <= decoded /\ f \notin lost
  /\ Rank(f) = k /\ Complete(f)

(* When m frames have left the model branch, those in it are the next in   *)
(* line, one behind the other.  A detess_dequant that has failed refuses   *)
(* frames, which are not counted as lost.                                  *)
One(b) == IF b THEN 1 ELSE 0
OnPad(m)    == m + Len(pad[Model])
AtDetess(m) == OnPad(m) + One(InDetess)
AtMid(m)    == AtDetess(m) + One(InMid)
AtTask(m)   == AtMid(m) + One(InTask)

Line(m) ==
  /\ pad[Model] # <<>> => Kept(pad[Model][1], m + 1)
  /\ InDetess => Kept(result, OnPad(m) + 1)
  /\ InMid => Kept(mid[1], AtDetess(m) + 1)
  /\ InTask => sent = Passed /\ sent \notin lost
  /\ Going =>
       /\ Passed <= NFrames /\ Complete(Passed)
       /\ Rank(Passed) >= AtTask(m) /\ (~Flushing => Rank(Passed) = AtTask(m))

(* A round of do_aggregate() takes one of each branch, or nothing at all.  *)
Rounds == IF Len(out) < NFrames THEN Len(out) ELSE NFrames
Viewed == IF Video \in eos THEN NFrames ELSE Taken(Video) - Len(pad[Video])

Pair(m, a, b) ==
  /\ Len(out) < NFrames /\ m = Len(out) + 1 /\ Viewed = m
  /\ Kept(a, m) /\ b = m
  /\ \A x \in Fields : fields[x] = b
Nothing(m) == Len(out) >= NFrames /\ m = NFrames /\ Viewed = NFrames

Round(m) ==
  /\ pc = "wait" => m = Rounds /\ Viewed = Rounds
  /\ pc = "pop" =>
       /\ todo \in {Pads, {Video}} /\ Viewed = Rounds
       /\ \A p \in todo : pad[p] # <<>> \/ p \in eos
       /\ \/ inputs = <<>> /\ m = Rounds
          \/ todo = {Video} /\ Len(inputs) = 1 /\ m = Rounds + 1 /\ Kept(inputs[1], m)
  /\ pc \in {"allocate", "run"} =>
       \/ inputs = <<>> /\ Nothing(m) /\ pc = "allocate"
       \/ Len(inputs) = 1
       \/ Len(inputs) = 2 /\ Pair(m, inputs[1], inputs[2])
  /\ pc \in {"pop", "allocate", "run"} => drawn = <<0, 0>>
  /\ pc \in {"unmap", "finish"} =>
       \/ drawn = <<0, 0>> /\ Nothing(m)
       \/ drawn = <<drawn[1], drawn[2]>> /\ Pair(m, drawn[1], drawn[2])

(* And so the k-th output shows the k-th frame of each branch.             *)
Story(m) ==
  \A k \in DOMAIN out :
    IF k <= NFrames
      THEN /\ k <= m /\ out[k].picture = k /\ Kept(out[k].boxes, k)
           /\ \A f \in Fields, l \in {out[k].label} \cup out[k].kpi : l[f] = k
      ELSE out[k].picture = 0

Outputs == [boxes : Nat, picture : Nat, labelled : BOOLEAN,
            label : [Fields -> Nat], kpi : SUBSET [Fields -> Nat]]

Typed ==
  /\ fields \in [Fields -> Nat] /\ drawn \in Nat \X Nat /\ labelled \in BOOLEAN
  /\ out \in Seq(Outputs)

Ordered(m) == Queues /\ VideoPad /\ Places /\ Line(m)
Told(m)    == Typed /\ Round(m) /\ Story(m)

InOrder == \E m \in 0 .. NFrames : Ordered(m) /\ Told(m)

-----------------------------------------------------------------------------
(* Ranks.                                                                  *)
LEMMA PrefixFinite ==
  ASSUME NEW L, NEW f \in Nat
  PROVE  IsFiniteSet((1 .. f) \ L) /\ Cardinality((1 .. f) \ L) \in Nat
<1>1. IsFiniteSet(1 .. f) /\ (1 .. f) \ L \in SUBSET (1 .. f)
  BY FS_Interval
<1>2. IsFiniteSet((1 .. f) \ L)
  BY <1>1, FS_Subset
<1> QED BY <1>2, FS_CardinalityType

LEMMA PrefixStep ==
  ASSUME NEW L, NEW f \in Nat
  PROVE  Cardinality((1 .. f + 1) \ L)
           = IF f + 1 \in L THEN Cardinality((1 .. f) \ L) ELSE Cardinality((1 .. f) \ L) + 1
<1>1. CASE f + 1 \in L
  <2>1. (1 .. f + 1) \ L = (1 .. f) \ L
    BY <1>1
  <2> QED BY <1>1, <2>1
<1>2. CASE f + 1 \notin L
  <2>1. (1 .. f + 1) \ L = ((1 .. f) \ L) \cup {f + 1} /\ f + 1 \notin (1 .. f) \ L
    BY <1>2
  <2> QED BY <1>2, <2>1, PrefixFinite, FS_AddElement
<1> QED BY <1>1, <1>2

LEMMA PrefixMonotone ==
  ASSUME NEW L, NEW a \in Nat, NEW b \in Nat, a <= b
  PROVE  Cardinality((1 .. a) \ L) <= Cardinality((1 .. b) \ L)
<1>1. (1 .. a) \ L \subseteq (1 .. b) \ L
  OBVIOUS
<1> QED BY <1>1, PrefixFinite, FS_Subset

LEMMA PrefixBelow ==
  ASSUME NEW L, NEW f \in Nat
  PROVE  Cardinality((1 .. f) \ L) <= f
<1>1. (1 .. f) \ L \subseteq 1 .. f /\ IsFiniteSet(1 .. f) /\ Cardinality(1 .. f) = f
  BY FS_Interval
<1> QED BY <1>1, FS_Subset

(* A frame that is not lost is further on than all of a smaller rank.      *)
LEMMA RankOrders ==
  ASSUME NEW a \in Nat, NEW b \in Nat, Rank(a) < Rank(b)
  PROVE  a < b
<1>1. b <= a => Rank(b) <= Rank(a)
  BY PrefixMonotone DEF Rank
<1>2. Rank(a) \in Nat /\ Rank(b) \in Nat
  BY PrefixFinite DEF Rank
<1> QED BY <1>1, <1>2

(* Losing frame g takes its rank from it and leaves those before it alone. *)
LEMMA RankOfLoss ==
  ASSUME NEW g \in Nat \ {0}, g \notin lost, lost' = lost \cup {g}
  PROVE  /\ Rank(g)' = Rank(g) - 1
         /\ \A f \in Nat : f < g => Rank(f)' = Rank(f)
<1>1. ASSUME NEW f \in Nat, f < g PROVE (1 .. f) \ lost' = (1 .. f) \ lost
  BY <1>1
<1>2. PICK h \in Nat : g = h + 1
  OBVIOUS
<1>3. Rank(g) = Rank(h) + 1 /\ Rank(h) \in Nat
  BY <1>2, PrefixStep, PrefixFinite DEF Rank
<1>4. Cardinality((1 .. g) \ lost') = Cardinality((1 .. h) \ lost')
  BY <1>2, PrefixStep
<1>5. Cardinality((1 .. h) \ lost') = Rank(h)
  <2>1. h < g
    BY <1>2
  <2>2. (1 .. h) \ lost' = (1 .. h) \ lost
    BY <1>1, <2>1
  <2> QED BY <2>2 DEF Rank
<1>6. Rank(g)' = Rank(g) - 1
  BY <1>3, <1>4, <1>5 DEF Rank
<1> QED BY <1>1, <1>6 DEF Rank

LEMMA KeptFacts ==
  ASSUME NEW f, NEW k, Kept(f, k)
  PROVE  f \in Nat \ {0} /\ k \in Nat \ {0} /\ k <= f /\ f <= NFrames /\ Rank(f) = k
<1>1. f \in Nat \ {0} /\ f <= NFrames /\ Rank(f) = k /\ f \notin lost
  BY FrameGraphConstants DEF Kept, Frames
<1>2. k \in Nat /\ k <= f
  BY <1>1, PrefixFinite, PrefixBelow DEF Rank
<1>3. k # 0
  <2>1. f \in (1 .. f) \ lost
    BY <1>1
  <2> QED BY <1>1, <2>1, PrefixFinite, FS_EmptySet DEF Rank
<1> QED BY <1>1, <1>2, <1>3

(* Nothing is lost, and the decoder may put out the next frame.            *)
LEMMA KeptStays ==
  ASSUME NEW f, NEW k, Kept(f, k), decoded \in Nat, lost' = lost,
         decoded' \in {decoded, decoded + 1},
         \A n \in 1 .. decoded : has'[n] = has[n]
  PROVE  Kept(f, k)'
<1>1. f \in Nat /\ f <= decoded
  BY FrameGraphConstants DEF Kept, Frames
<1> QED BY <1>1 DEF Kept, Rank, Complete

(* A frame further on is lost.                                             *)
LEMMA KeptBeforeLoss ==
  ASSUME NEW f, NEW k, Kept(f, k), NEW g \in Nat \ {0}, g \notin lost,
         lost' = lost \cup {g}, k < Rank(g), UNCHANGED <<decoded, has>>
  PROVE  Kept(f, k)'
<1>1. f \in Nat /\ f < g
  BY KeptFacts, RankOrders
<1>2. Rank(f)' = Rank(f)
  BY <1>1, RankOfLoss
<1> QED BY <1>1, <1>2 DEF Kept, Complete

-----------------------------------------------------------------------------
(* The queues.                                                             *)
LEMMA QueuesKept ==
  ASSUME UNCHANGED <<decoded, has, owed, queue>>
  PROVE  (\A p \in Pads : Taken(p)' = Taken(p)) /\ (Queues => Queues')
<1>1. \A p \in Pads : Taken(p)' = Taken(p)
  BY DEF Taken, Pushed
<1> QED BY <1>1 DEF Queues

LEMMA DecodeFrameQueues ==
  ASSUME Inv, Queues, DecodeFrame
  PROVE  Queues' /\ \A p \in Pads : Taken(p)' = Taken(p)
<1>1. decoded \in Nat /\ decoded' = decoded + 1 /\ owed = {} /\ owed' = Pads /\ queue' = queue
      /\ decoded' <= Eos /\ DOMAIN has' = DOMAIN has
  BY FrameGraphConstants DEF Inv, Moving, DecodeFrame, Eos
<1>2. \A p \in Pads : Taken(p)' = Taken(p)
  BY <1>1 DEF Taken, Pushed
<1> QED BY <1>1, <1>2 DEF Queues

LEMMA TeePushQueues ==
  ASSUME Inv, Queues, NEW p \in Pads, TeePush(p)
  PROVE  Queues' /\ \A q \in Pads : Taken(q)' = Taken(q)
<1>1. /\ decoded' = decoded /\ decoded \in Nat /\ p \in owed /\ owed' = owed \ {p}
      /\ queue' = [queue EXCEPT ![p] = Append(queue[p], decoded)]
      /\ queue \in [Pads -> Seq(Nat)] /\ owed \subseteq Pads
      /\ has' = has
  BY DEF Inv, Moving, Queues, TeePush
<1>2. queue'[p] = Append(queue[p], decoded) /\ Len(queue'[p]) = Len(queue[p]) + 1
      /\ Len(queue[p]) \in Nat
  BY <1>1
<1>3. \A q \in Pads : q # p => queue'[q] = queue[q] /\ (q \in owed' <=> q \in owed)
  BY <1>1
<1>4. \A q \in Pads : Taken(q)' = Taken(q)
  <2>1. Taken(p)' = Taken(p)
    BY <1>1, <1>2 DEF Taken, Pushed
  <2>2. \A q \in Pads : q # p => Taken(q)' = Taken(q)
    BY <1>1, <1>3 DEF Taken, Pushed
  <2> QED BY <2>1, <2>2
<1>5. Taken(p) + (Len(queue[p]) + 1) = decoded
  BY <1>1, <1>2 DEF Taken, Pushed
<1>6. \A k \in 1 .. Len(queue'[p]) : queue'[p][k] = Taken(p) + k
  <2> SUFFICES ASSUME NEW k \in 1 .. Len(queue[p]) + 1 PROVE queue'[p][k] = Taken(p) + k
    BY <1>2
  <2>1. CASE k = Len(queue[p]) + 1
    BY <1>1, <1>2, <1>5, <2>1
  <2>2. CASE k # Len(queue[p]) + 1
    <3>1. k \in 1 .. Len(queue[p])
      BY <1>2, <2>2
    <3> QED BY <1>1, <1>2, <3>1 DEF Queues
  <2> QED BY <2>1, <2>2
<1> QED BY <1>1, <1>3, <1>4, <1>6 DEF Queues

LEMMA DequeueQueues ==
  ASSUME Inv, Queues, NEW p \in Pads, Dequeue(p)
  PROVE  /\ Queues' /\ Head(queue[p]) = Taken(p) + 1 /\ Taken(p)' = Taken(p) + 1
         /\ \A q \in Pads : q # p => Taken(q)' = Taken(q)
         /\ Taken(p) \in Nat /\ Taken(p) + 1 <= Eos
<1>1. /\ UNCHANGED <<decoded, has, owed>> /\ queue' = [queue EXCEPT ![p] = Tail(queue[p])]
      /\ queue[p] # <<>> /\ queue \in [Pads -> Seq(Nat)] /\ decoded \in Nat
  BY DEF Inv, Moving, Dequeue, tee
<1>2. /\ queue'[p] = Tail(queue[p]) /\ Len(queue[p]) \in Nat /\ Len(queue[p]) >= 1
      /\ Len(queue'[p]) = Len(queue[p]) - 1
      /\ Head(queue[p]) = queue[p][1]
      /\ \A k \in 1 .. Len(queue[p]) - 1 : queue'[p][k] = queue[p][k + 1]
  BY <1>1
<1>3. \A q \in Pads : q # p => queue'[q] = queue[q] /\ Taken(q)' = Taken(q)
  BY <1>1 DEF Taken, Pushed
<1>4. Taken(p)' = Taken(p) + 1 /\ Taken(p) \in Nat
  BY <1>1, <1>2 DEF Taken, Pushed, Queues
<1>5. Head(queue[p]) = Taken(p) + 1
  BY <1>2 DEF Queues
<1>6. \A k \in 1 .. Len(queue'[p]) : queue'[p][k] = Taken(p)' + k
  <2> SUFFICES ASSUME NEW k \in 1 .. Len(queue[p]) - 1 PROVE queue'[p][k] = Taken(p) + 1 + k
    BY <1>2, <1>4
  <2>1. k + 1 \in 1 .. Len(queue[p]) /\ queue[p][k + 1] = Taken(p) + (k + 1)
    BY <1>2 DEF Queues
  <2> QED BY <1>2, <1>4, <2>1
<1>7. Taken(p) + 1 <= Eos
  BY <1>1, <1>2, FrameGraphConstants DEF Taken, Pushed, Queues, Eos
<1> QED BY <1>1, <1>3, <1>4, <1>5, <1>6, <1>7 DEF Queues

-----------------------------------------------------------------------------
(* The elements before the overlay: the frames in the model branch stay in *)
(* line, and the overlay notices at most that a pad is filled.             *)
Quiet(m) ==
  /\ Viewed' = Viewed
  /\ \A f, k : Kept(f, k) /\ k <= m => Kept(f, k)'
  /\ \A p \in Pads : pad[p] # <<>> \/ p \in eos => pad'[p] # <<>> \/ p \in eos'

LEMMA Numbers ==
  ASSUME Inv, Queues, Places, NEW m \in Nat
  PROVE  /\ Taken(Model) \in Nat /\ Taken(Model) <= decoded /\ Passed \in Nat
         /\ Passed <= decoded /\ Rank(Passed) \in Nat /\ decoded \in Nat
         /\ OnPad(m) \in Nat /\ AtDetess(m) \in Nat /\ AtMid(m) \in Nat /\ AtTask(m) \in Nat
         /\ m <= OnPad(m) /\ OnPad(m) <= AtDetess(m) /\ AtDetess(m) <= AtMid(m)
         /\ AtMid(m) <= AtTask(m)
<1>1. decoded \in Nat /\ queue \in [Pads -> Seq(Nat)] /\ pad \in [Pads -> Seq(Nat)]
      /\ pre \in Seq(Nat)
  BY DEF Inv, Moving
<1>2. Model \in Pads /\ Taken(Model) \in Nat
  BY DEF Queues, Model, Pads
<1>3. Taken(Model) <= decoded
  BY <1>1, <1>2 DEF Taken, Pushed
<1>4. Passed \in Nat /\ Passed <= Taken(Model)
  <2>1. CASE pre = <<>>
    BY <1>2, <2>1 DEF Passed
  <2>2. CASE pre = <<Taken(Model)>> /\ Taken(Model) >= 1
    BY <1>2, <2>2 DEF Passed
  <2> QED BY <2>1, <2>2 DEF Places
<1>5. Rank(Passed) \in Nat
  BY <1>4, PrefixFinite DEF Rank
<1>6. Len(pad[Model]) \in Nat
  BY <1>1, <1>2
<1>7. OnPad(m) \in Nat /\ AtDetess(m) \in Nat /\ AtMid(m) \in Nat /\ AtTask(m) \in Nat
      /\ m <= OnPad(m) /\ OnPad(m) <= AtDetess(m) /\ AtDetess(m) <= AtMid(m)
      /\ AtMid(m) <= AtTask(m)
  <2>1. One(InDetess) \in {0, 1} /\ One(InMid) \in {0, 1} /\ One(InTask) \in {0, 1}
    BY DEF One
  <2> QED BY <1>6, <2>1 DEF OnPad, AtDetess, AtMid, AtTask
<1> QED BY <1>1, <1>2, <1>3, <1>4, <1>5, <1>7

LEMMA DecodeFrameOrder ==
  ASSUME Inv, NEW m \in 0 .. NFrames, Ordered(m), DecodeFrame
  PROVE  Ordered(m)' /\ Quiet(m)
<1>1. /\ UNCHANGED <<queue, pre, task, sent, free, lost, mid, detess, result, pad, eos>>
      /\ decoded' = decoded + 1 /\ decoded \in Nat /\ decoded <= NFrames
  BY FrameGraphConstants DEF DecodeFrame, first, last, Inv, Moving, Eos
<1>0. \A n \in 1 .. decoded : has'[n] = has[n]
  <2>1. \A n \in 1 .. decoded : n \in DOMAIN has /\ n # decoded'
    BY <1>1, FrameGraphConstants DEF Ordered, Queues, Frames
  <2> QED BY <2>1 DEF DecodeFrame
<1>2. Queues' /\ Taken(Model)' = Taken(Model) /\ Taken(Video)' = Taken(Video)
  BY DecodeFrameQueues DEF Ordered, Pads, Model, Video
<1>3. m \in Nat /\ Passed \in Nat /\ Passed <= decoded /\ decoded \in Nat
  BY Numbers, FrameGraphConstants DEF Ordered
<1>4. \A f, k : Kept(f, k) => Kept(f, k)'
  BY <1>0, <1>1, <1>3, KeptStays
<1>5. Passed' = Passed /\ (Complete(Passed) => Complete(Passed)') /\ Rank(Passed)' = Rank(Passed)
  BY <1>0, <1>1, <1>2, <1>3 DEF Passed, Complete, Rank
<1>6. VideoPad' /\ Viewed' = Viewed
  BY <1>1, <1>2 DEF Ordered, VideoPad, Viewed
<1>7. Places'
  BY <1>1, <1>2, <1>5 DEF Ordered, Places, Flushing
<1>8. Line(m)'
  BY <1>1, <1>4, <1>5 DEF Ordered, Line, InDetess, InMid, InTask, Going, Flushing, OnPad, AtDetess, AtMid, AtTask
<1> QED BY <1>1, <1>2, <1>4, <1>6, <1>7, <1>8 DEF Ordered, Quiet

LEMMA TeePushOrder ==
  ASSUME Inv, NEW m \in 0 .. NFrames, Ordered(m), NEW p \in Pads, TeePush(p)
  PROVE  Ordered(m)' /\ Quiet(m)
<1>1. UNCHANGED <<decoded, has, pre, task, sent, free, lost, mid, detess, result, pad, eos>>
  BY DEF TeePush, first, last
<1>2. Queues' /\ Taken(Model)' = Taken(Model) /\ Taken(Video)' = Taken(Video)
  BY TeePushQueues DEF Ordered, Pads, Model, Video
<1>3. \A f, k : Kept(f, k) => Kept(f, k)'
  BY <1>1 DEF Kept, Rank, Complete
<1>5. Passed' = Passed /\ (Complete(Passed) => Complete(Passed)') /\ Rank(Passed)' = Rank(Passed)
  BY <1>1, <1>2 DEF Passed, Complete, Rank
<1>6. VideoPad' /\ Viewed' = Viewed
  BY <1>1, <1>2 DEF Ordered, VideoPad, Viewed
<1>7. Places'
  BY <1>1, <1>2, <1>5 DEF Ordered, Places, Flushing
<1>8. Line(m)'
  BY <1>1, <1>3, <1>5 DEF Ordered, Line, InDetess, InMid, InTask, Going, Flushing, OnPad, AtDetess, AtMid, AtTask
<1> QED BY <1>1, <1>2, <1>3, <1>6, <1>7, <1>8 DEF Ordered, Quiet

LEMMA DequeueOrder ==
  ASSUME Inv, NEW m \in 0 .. NFrames, Ordered(m), NEW p \in Pads, Dequeue(p)
  PROVE  Ordered(m)' /\ Quiet(m)
<1>1. UNCHANGED <<decoded, has, task, sent, free, lost, mid, detess, result>>
  BY DEF Dequeue, tee, last
<1>2. /\ Queues' /\ Head(queue[p]) = Taken(p) + 1 /\ Taken(p)' = Taken(p) + 1
      /\ \A q \in Pads : q # p => Taken(q)' = Taken(q)
      /\ Taken(p) \in Nat /\ Taken(p) + 1 <= Eos
  BY DequeueQueues DEF Ordered
<1>3. \A f, k : Kept(f, k) => Kept(f, k)'
  BY <1>1 DEF Kept, Rank, Complete
<1>4. CASE p = Model
  <2>1. /\ pre = <<>> /\ pre' = <<Taken(Model) + 1>> /\ UNCHANGED <<pad, eos>>
        /\ Taken(Model)' = Taken(Model) + 1 /\ Taken(Video)' = Taken(Video)
        /\ Taken(Model) \in Nat
    BY <1>2, <1>4 DEF Dequeue, Pads, Model, Video
  <2>2. Passed' = Passed
    BY <2>1 DEF Passed
  <2>3. VideoPad' /\ Viewed' = Viewed
    BY <2>1 DEF Ordered, VideoPad, Viewed
  <2>4. Places'
    BY <1>1, <2>1, <2>2 DEF Ordered, Places, Flushing
  <2>5. (Complete(Passed) => Complete(Passed)') /\ Rank(Passed)' = Rank(Passed)
    BY <1>1, <2>2 DEF Complete, Rank
  <2>6. Line(m)'
    BY <1>1, <1>3, <2>1, <2>2, <2>5 DEF Ordered, Line, InDetess, InMid, InTask, Going, Flushing, OnPad,
       AtDetess, AtMid, AtTask
  <2> QED BY <1>2, <1>3, <2>1, <2>3, <2>4, <2>6 DEF Ordered, Quiet
<1>5. CASE p = Video
  <2>1. /\ UNCHANGED pre /\ pad[Video] = <<>> /\ pad'[Model] = pad[Model]
        /\ Taken(Video)' = Taken(Video) + 1 /\ Taken(Model)' = Taken(Model)
        /\ Taken(Video) \in Nat /\ Taken(Video) + 1 <= Eos
        /\ IF Taken(Video) + 1 = Eos
             THEN eos' = eos \cup {Video} /\ pad' = pad
             ELSE pad'[Video] = <<Taken(Video) + 1>> /\ eos' = eos
    BY <1>2, <1>5 DEF Inv, Moving, Dequeue, Pads, Model, Video
  <2>2. Passed' = Passed /\ (Complete(Passed) => Complete(Passed)') /\ Rank(Passed)' = Rank(Passed)
    BY <1>1, <2>1 DEF Passed, Complete, Rank
  <2>3. Eos = NFrames + 1 /\ NFrames \in Nat /\ Video \notin eos
    BY <2>1, FrameGraphConstants DEF Eos, Ordered, VideoPad
  <2>4. VideoPad'
    <3>1. Taken(Video) + 1 # Eos => Taken(Video) + 1 \in Frames
      BY <2>1, <2>3 DEF Frames
    <3> QED BY <2>1, <2>3, <3>1 DEF VideoPad
  <2>5. Viewed' = Viewed
    <3>1. Viewed = Taken(Video)
      BY <2>1, <2>3 DEF Viewed
    <3>2. CASE Taken(Video) + 1 = Eos
      BY <2>1, <2>3, <3>1, <3>2 DEF Viewed
    <3>3. CASE Taken(Video) + 1 # Eos
      <4>1. pad'[Video] = <<Taken(Video) + 1>> /\ Video \notin eos'
        BY <2>1, <2>3, <3>3
      <4>2. Len(<<Taken(Video) + 1>>) = 1
        OBVIOUS
      <4> QED BY <2>1, <3>1, <4>1, <4>2 DEF Viewed
    <3> QED BY <3>2, <3>3
  <2>6. Places'
    BY <1>1, <2>1, <2>2 DEF Ordered, Places, Flushing
  <2>7. Line(m)'
    BY <1>1, <1>3, <2>1, <2>2 DEF Ordered, Line, InDetess, InMid, InTask, Going, Flushing, OnPad,
       AtDetess, AtMid, AtTask
  <2>8. \A q \in Pads : pad[q] # <<>> \/ q \in eos => pad'[q] # <<>> \/ q \in eos'
    BY <2>1 DEF Pads, Model, Video
  <2> QED BY <1>2, <1>3, <2>4, <2>5, <2>6, <2>7, <2>8 DEF Ordered, Quiet
<1> QED BY <1>4, <1>5 DEF Pads, Model, Video

(* The elements that lose no frame leave the ranks and the tee alone.      *)
LEMMA NothingLost ==
  ASSUME NEW m, UNCHANGED <<tee, queue, lost>>
  PROVE  /\ (Queues => Queues') /\ Taken(Model)' = Taken(Model) /\ Taken(Video)' = Taken(Video)
         /\ \A f, k : Kept(f, k)' = Kept(f, k)
         /\ \A f : Rank(f)' = Rank(f) /\ Complete(f)' = Complete(f)
<1>1. UNCHANGED <<decoded, has, owed, queue, lost>>
  BY DEF tee
<1>2. (Queues => Queues') /\ \A p \in Pads : Taken(p)' = Taken(p)
  BY <1>1, QueuesKept
<1> QED BY <1>1, <1>2 DEF Kept, Rank, Complete, Pads, Model, Video

(* ... and those before detess_dequant leave the pads alone as well.       *)
LEMMA PadsAlone ==
  ASSUME NEW m, Ordered(m), UNCHANGED <<tee, queue, lost, pad, eos>>
  PROVE  Quiet(m) /\ VideoPad'
<1>1. Taken(Video)' = Taken(Video) /\ \A f, k : Kept(f, k)' = Kept(f, k)
  BY NothingLost
<1> QED BY <1>1 DEF Quiet, Ordered, VideoPad, Viewed

LEMMA PreprocOrder ==
  ASSUME Inv, NEW m \in 0 .. NFrames, Ordered(m), Preproc
  PROVE  Ordered(m)' /\ Quiet(m)
<1>0. m \in Nat
  OBVIOUS
<1>1. /\ UNCHANGED <<tee, queue, free, lost, mid, detess, result, pad, eos>>
      /\ task = "idle" /\ pre # <<>> /\ pre' = <<>>
  BY DEF Preproc, last
<1>2. /\ Queues' /\ Taken(Model)' = Taken(Model)
      /\ \A f, k : Kept(f, k)' = Kept(f, k)
      /\ \A f : Rank(f)' = Rank(f) /\ Complete(f)' = Complete(f)
      /\ has' = has
  BY <1>1, NothingLost DEF Ordered, tee
<1>3. Quiet(m) /\ VideoPad'
  BY <1>1, PadsAlone
<1>4. /\ pre = <<Taken(Model)>> /\ Taken(Model) \in Nat /\ Taken(Model) >= 1
      /\ Len(pre) = 1 /\ pre[1] = Taken(Model) /\ Taken(Model) <= Eos
  <2>1. pre = <<Taken(Model)>> /\ Taken(Model) >= 1
    BY <1>1 DEF Ordered, Places
  <2>2. Taken(Model) \in Nat /\ Taken(Model) <= decoded /\ decoded \in Nat
    BY <1>0, Numbers DEF Ordered
  <2>3. decoded <= Eos /\ Eos \in Nat
    BY FrameGraphConstants DEF Ordered, Queues, Eos
  <2>4. Taken(Model) <= Eos
    BY <2>2, <2>3
  <2> QED BY <2>1, <2>2, <2>4
<1>5. Passed = Taken(Model) - 1 /\ Passed' = Taken(Model) /\ Passed \in Nat /\ Passed' = Passed + 1
  BY <1>1, <1>2, <1>4 DEF Passed
<1>6. lost \subseteq 1 .. Passed /\ lost \subseteq 1 .. Passed' /\ Passed' \notin lost
  BY <1>4, <1>5 DEF Ordered, Places
<1>7. task' \in {"mla", "push"} /\ (task' = "mla" => sent' # Eos)
  BY DEF Preproc
<1>8. Places'
  BY <1>1, <1>2, <1>6, <1>7 DEF Ordered, Places, Flushing
<1>9. Going /\ ~InTask
  BY <1>1 DEF Going, InTask
<1>10. CASE task' = "mla" /\ sent' = pre[1] /\ pre[1] # Eos /\ has[pre[1]] = Fields
  <2>1. /\ InTask' /\ Going' /\ sent' = Passed' /\ Passed' <= NFrames
    <3>1. sent' = Taken(Model) /\ Taken(Model) # Eos
      BY <1>4, <1>10
    <3>2. InTask' /\ Going'
      BY <1>10, <3>1 DEF InTask, Going
    <3>3. Passed' <= NFrames
      BY <1>4, <1>5, <3>1, FrameGraphConstants DEF Eos
    <3> QED BY <1>5, <3>1, <3>2, <3>3
  <2>2. Rank(Passed') = Rank(Passed) + 1
    BY <1>5, <1>6, PrefixStep DEF Rank
  <2>3. Complete(Passed')
    BY <1>4, <1>5, <1>9, <1>10 DEF Ordered, Line, Complete
  <2>4. AtTask(m) = AtMid(m) /\ AtTask(m)' = AtMid(m) + 1 /\ AtMid(m) \in Nat
        /\ Rank(Passed) \in Nat
    <3>1. AtMid(m) \in Nat /\ Rank(Passed) \in Nat
      BY <1>0, Numbers DEF Ordered
    <3>2. One(InTask) = 0 /\ One(InTask)' = 1
      BY <1>9, <2>1 DEF One
    <3>3. AtMid(m)' = AtMid(m)
      BY <1>1 DEF AtMid, AtDetess, OnPad, InMid, InDetess
    <3> QED BY <3>1, <3>2, <3>3 DEF AtTask
  <2>5. (Flushing' <=> Flushing) /\ (InDetess' <=> InDetess) /\ (InMid' <=> InMid)
        /\ OnPad(m)' = OnPad(m) /\ AtDetess(m)' = AtDetess(m)
    BY <1>1 DEF Flushing, InDetess, InMid, OnPad, AtDetess
  <2>6. Rank(Passed)' = Rank(Passed') /\ Complete(Passed)' = Complete(Passed')
    BY <1>1 DEF Rank, Complete, tee
  <2>7. Line(m)'
    BY <1>1, <1>2, <1>6, <1>9, <2>1, <2>2, <2>3, <2>4, <2>5, <2>6 DEF Ordered, Line
  <2> QED BY <1>2, <1>3, <1>8, <2>7 DEF Ordered
<1>11. CASE task' = "push" /\ sent' = Eos
  <2>1. ~Going' /\ ~InTask'
    BY <1>11 DEF Going, InTask
  <2>2. (InDetess' <=> InDetess) /\ (InMid' <=> InMid)
        /\ OnPad(m)' = OnPad(m) /\ AtDetess(m)' = AtDetess(m)
    BY <1>1 DEF InDetess, InMid, OnPad, AtDetess
  <2>3. Line(m)'
    BY <1>1, <1>2, <2>1, <2>2 DEF Ordered, Line
  <2> QED BY <1>2, <1>3, <1>8, <2>3 DEF Ordered
<1> QED BY <1>10, <1>11 DEF Preproc

(* The MLA element: its frame stays in preproc's hands, or is lost, and    *)
(* those behind it on the way keep their ranks.                            *)
LEMMA TransformOrder ==
  ASSUME Inv, NEW m \in 0 .. NFrames, Ordered(m), Transform
  PROVE  Ordered(m)' /\ Quiet(m)
<1>0. m \in Nat
  OBVIOUS
<1>1. /\ UNCHANGED <<tee, queue, pre, sent, mid, detess, result, pad, eos>>
      /\ task = "mla" /\ sent # Eos
  BY DEF Transform, last, Ordered, Places
<1>2. InTask /\ Going
  BY <1>1 DEF InTask, Going
<1>3. /\ (Flushing' <=> Flushing) /\ (InDetess' <=> InDetess) /\ (InMid' <=> InMid)
      /\ OnPad(m)' = OnPad(m) /\ AtDetess(m)' = AtDetess(m) /\ AtMid(m)' = AtMid(m)
  BY <1>1 DEF Flushing, InDetess, InMid, OnPad, AtDetess, AtMid
<1>4. /\ Taken(Model)' = Taken(Model) /\ Taken(Video)' = Taken(Video) /\ (Queues => Queues')
  BY <1>1, QueuesKept DEF tee, Pads, Model, Video
<1>5. Passed' = Passed /\ (Complete(Passed)' <=> Complete(Passed))
  BY <1>1, <1>4 DEF Passed, Complete, tee
<1>6. Viewed' = Viewed /\ VideoPad'
  BY <1>1, <1>4 DEF Ordered, VideoPad, Viewed
<1>7. CASE task' = "push" /\ UNCHANGED lost
  <2>1. /\ \A f, k : Kept(f, k)' = Kept(f, k)
        /\ \A f : Rank(f)' = Rank(f) /\ Complete(f)' = Complete(f)
    BY <1>1, <1>7, NothingLost
  <2>2. InTask' /\ Going' /\ AtTask(m)' = AtTask(m)
    BY <1>1, <1>2, <1>3, <1>7 DEF InTask, Going, AtTask, One
  <2>3. Places'
    BY <1>1, <1>3, <1>4, <1>5, <1>7 DEF Ordered, Places
  <2>4. Line(m)'
    BY <1>1, <1>2, <1>3, <1>5, <1>7, <2>1, <2>2 DEF Ordered, Line
  <2> QED BY <1>1, <1>4, <1>6, <2>1, <2>3, <2>4 DEF Ordered, Quiet
<1>8. CASE DropFrame
  <2>1. task' = "idle" /\ lost' = lost \cup {sent} /\ UNCHANGED <<decoded, has>>
    BY <1>1, <1>8 DEF DropFrame, tee
  <2>2. /\ Passed \in Nat /\ Rank(Passed) \in Nat /\ AtTask(m) = AtMid(m) + 1
        /\ AtMid(m) \in Nat /\ OnPad(m) \in Nat /\ AtDetess(m) \in Nat
        /\ m <= OnPad(m) /\ OnPad(m) <= AtDetess(m) /\ AtDetess(m) <= AtMid(m)
    BY <1>0, <1>2, Numbers DEF Ordered, AtTask, One
  <2>3. /\ sent = Passed /\ sent \notin lost /\ Complete(Passed) /\ Passed <= NFrames
        /\ Rank(Passed) >= AtTask(m) /\ (~Flushing => Rank(Passed) = AtTask(m))
    BY <1>2 DEF Ordered, Line
  <2>4. Passed \in Nat \ {0}
    BY <2>2, <2>3, PrefixBelow DEF Rank
  <2>5. Rank(Passed)' = Rank(Passed) - 1
    BY <1>5, <2>1, <2>3, <2>4, RankOfLoss
  <2>6. \A f, k : Kept(f, k) /\ k <= AtMid(m) => Kept(f, k)'
    <3> SUFFICES ASSUME NEW f, NEW k, Kept(f, k), k <= AtMid(m) PROVE Kept(f, k)'
      OBVIOUS
    <3>1. k \in Nat /\ k < Rank(sent)
      BY <2>2, <2>3, KeptFacts
    <3> QED BY <2>1, <2>3, <2>4, <3>1, KeptBeforeLoss
  <2>7. \A f, k : Kept(f, k) /\ k <= m => Kept(f, k)'
    <3> SUFFICES ASSUME NEW f, NEW k, Kept(f, k), k <= m PROVE Kept(f, k)'
      OBVIOUS
    <3>1. k <= AtMid(m)
      BY <1>0, <2>2, KeptFacts
    <3> QED BY <2>6, <3>1
  <2>8. ~InTask' /\ Going' /\ AtTask(m)' = AtMid(m)
    BY <1>3, <2>1, <2>2 DEF InTask, Going, AtTask, One
  <2>9. Places'
    <3>1. lost \subseteq 1 .. Passed /\ Passed \in 1 .. Passed
      BY <2>4 DEF Ordered, Places
    <3>2. lost' \subseteq 1 .. Passed'
      BY <1>5, <2>1, <2>3, <3>1
    <3> QED BY <1>1, <1>3, <1>4, <2>1, <3>2 DEF Ordered, Places
  <2>10. Line(m)'
    <3>1. pad[Model] # <<>> => m + 1 <= AtMid(m)
      <4>1. pad[Model] # <<>> => OnPad(m) = m + 1
        BY DEF Ordered, Places, OnPad
      <4> QED BY <2>2, <4>1
    <3>2. (InDetess => OnPad(m) + 1 <= AtMid(m)) /\ (InMid => AtDetess(m) + 1 <= AtMid(m))
      BY <2>2 DEF AtMid, AtDetess, One
    <3>3. /\ pad[Model] # <<>> => Kept(pad[Model][1], m + 1)'
          /\ InDetess => Kept(result, OnPad(m) + 1)'
          /\ InMid => Kept(mid[1], AtDetess(m) + 1)'
      BY <1>1, <1>3, <2>6, <3>1, <3>2 DEF Ordered, Line
    <3>4. Rank(Passed)' >= AtTask(m)' /\ (~Flushing => Rank(Passed)' = AtTask(m)')
      BY <2>2, <2>3, <2>5, <2>8
    <3> QED BY <1>1, <1>3, <1>5, <2>3, <2>8, <3>3, <3>4 DEF Line
  <2> QED BY <1>1, <1>4, <1>6, <2>7, <2>9, <2>10 DEF Ordered, Quiet
<1> QED BY <1>7, <1>8 DEF Transform

LEMMA PushResultOrder ==
  ASSUME Inv, NEW m \in 0 .. NFrames, Ordered(m), PushResult
  PROVE  Ordered(m)' /\ Quiet(m)
<1>0. m \in Nat
  OBVIOUS
<1>1. /\ UNCHANGED <<tee, queue, pre, sent, lost, detess, result, pad, eos>>
      /\ task = "push" /\ task' = IF sent = Eos THEN "over" ELSE "idle"
      /\ IF Flushing THEN mid' = mid ELSE mid = <<>> /\ mid' = <<sent>>
  BY DEF PushResult, last
<1>2. /\ Queues' /\ Taken(Model)' = Taken(Model)
      /\ \A f, k : Kept(f, k)' = Kept(f, k)
      /\ \A f : Rank(f)' = Rank(f) /\ Complete(f)' = Complete(f)
  BY <1>1, NothingLost DEF Ordered
<1>3. Quiet(m) /\ VideoPad'
  BY <1>1, PadsAlone
<1>4. /\ (Flushing' <=> Flushing) /\ (InDetess' <=> InDetess)
      /\ OnPad(m)' = OnPad(m) /\ AtDetess(m)' = AtDetess(m) /\ Passed' = Passed
  BY <1>1, <1>2 DEF Flushing, InDetess, OnPad, AtDetess, Passed
<1>5. mid = <<>> /\ ~InMid
  BY <1>1 DEF Ordered, Places, InMid
<1>6. Places'
  BY <1>1, <1>2, <1>4, <1>5 DEF Ordered, Places
<1>7. AtMid(m) = AtDetess(m) /\ AtDetess(m) \in Nat /\ Passed \in Nat /\ Rank(Passed) \in Nat
      /\ Passed <= decoded
  BY <1>0, <1>5, Numbers DEF Ordered, AtMid, One
<1>8. CASE sent = Eos
  <2>1. ~InMid' /\ ~InTask' /\ ~Going'
    BY <1>1, <1>5, <1>8 DEF InMid, InTask, Going
  <2> QED BY <1>1, <1>2, <1>3, <1>4, <1>6, <2>1 DEF Ordered, Line
<1>9. CASE sent # Eos
  <2>1. InTask /\ Going /\ ~InTask' /\ Going' /\ AtTask(m) = AtDetess(m) + 1
    BY <1>1, <1>7, <1>9 DEF InTask, Going, AtTask, One
  <2>2. /\ sent = Passed /\ sent \notin lost /\ Complete(Passed) /\ Passed <= NFrames
        /\ Rank(Passed) >= AtTask(m) /\ (~Flushing => Rank(Passed) = AtTask(m))
    BY <2>1 DEF Ordered, Line
  <2>3. CASE Flushing
    <3>1. ~InMid' /\ AtTask(m)' = AtDetess(m)
      BY <1>1, <1>4, <1>5, <1>7, <2>1, <2>3 DEF InMid, AtTask, AtMid, One
    <3>2. Rank(Passed)' >= AtTask(m)'
      BY <1>2, <1>4, <1>7, <2>1, <2>2, <3>1
    <3> QED BY <1>1, <1>2, <1>3, <1>4, <1>6, <2>1, <2>2, <2>3, <3>1, <3>2 DEF Ordered, Line
  <2>4. CASE ~Flushing
    <3>1. mid' = <<sent>> /\ InMid' /\ mid'[1] = sent
      BY <1>1, <1>9, <2>4 DEF InMid
    <3>2. AtTask(m)' = AtDetess(m) + 1
      BY <1>4, <1>7, <2>1, <3>1 DEF AtTask, AtMid, One
    <3>3. Passed \in Nat \ {0}
      BY <1>7, <2>1, <2>2, PrefixBelow DEF Rank
    <3>4. Kept(sent, AtDetess(m) + 1)
      BY <1>7, <2>1, <2>2, <2>4, <3>3 DEF Kept, Frames
    <3> QED BY <1>1, <1>2, <1>3, <1>4, <1>6, <2>1, <2>2, <2>4, <3>1, <3>2, <3>4 DEF Ordered, Line
  <2> QED BY <2>3, <2>4
<1> QED BY <1>8, <1>9

LEMMA DetessPopOrder ==
  ASSUME Inv, NEW m \in 0 .. NFrames, Ordered(m), DetessPop
  PROVE  Ordered(m)' /\ Quiet(m)
<1>0. m \in Nat
  OBVIOUS
<1>1. /\ UNCHANGED <<tee, queue, pre, task, sent, lost, pad, eos>>
      /\ detess = "idle" /\ mid # <<>> /\ mid' = <<>> /\ result' = mid[1]
      /\ detess' = IF mid[1] = Eos THEN "push" ELSE "run"
  BY DEF DetessPop, first
<1>2. /\ Queues' /\ Taken(Model)' = Taken(Model)
      /\ \A f, k : Kept(f, k)' = Kept(f, k)
      /\ \A f : Rank(f)' = Rank(f) /\ Complete(f)' = Complete(f)
  BY <1>1, NothingLost DEF Ordered
<1>3. Quiet(m) /\ VideoPad'
  BY <1>1, PadsAlone
<1>4. /\ (InTask' <=> InTask) /\ (Going' <=> Going) /\ ~InDetess /\ ~Flushing /\ ~InMid'
      /\ OnPad(m)' = OnPad(m) /\ Passed' = Passed
  BY <1>1, <1>2 DEF InTask, Going, InDetess, InMid, Flushing, OnPad, Passed
<1>5. mid = <<mid[1]>> /\ (InMid <=> mid[1] # Eos) /\ (InDetess' <=> mid[1] # Eos)
  <2>1. mid = <<mid[1]>>
    BY <1>1 DEF Inv, Moving, Ordered, Places
  <2> QED BY <1>1, <2>1 DEF InMid, InDetess
<1>6. Places'
  BY <1>1, <1>2, <1>4, <1>5 DEF Ordered, Places, Flushing
<1>7. OnPad(m) \in Nat /\ AtDetess(m) = OnPad(m) /\ AtMid(m)' = AtMid(m) /\ AtTask(m)' = AtTask(m)
  <2>1. OnPad(m) \in Nat
    BY <1>0, Numbers DEF Ordered
  <2>2. One(InDetess) = 0 /\ One(InMid)' = 0 /\ One(InDetess)' = One(InMid)
        /\ One(InMid) \in {0, 1} /\ One(InTask)' = One(InTask)
    BY <1>4, <1>5 DEF One
  <2> QED BY <1>4, <2>1, <2>2 DEF AtDetess, AtMid, AtTask
<1>8. Line(m)'
  BY <1>1, <1>2, <1>4, <1>5, <1>7 DEF Ordered, Line
<1> QED BY <1>2, <1>3, <1>6, <1>8 DEF Ordered

LEMMA DetessRunOrder ==
  ASSUME Inv, NEW m \in 0 .. NFrames, Ordered(m), DetessRun
  PROVE  Ordered(m)' /\ Quiet(m)
<1>1. /\ UNCHANGED <<tee, queue, pre, task, sent, lost, mid, result, pad, eos>>
      /\ detess = "run" /\ detess' = "push" /\ result # Eos
  BY DEF DetessRun, first, Ordered, Places
<1>2. /\ Queues' /\ Taken(Model)' = Taken(Model)
      /\ \A f, k : Kept(f, k)' = Kept(f, k)
      /\ \A f : Rank(f)' = Rank(f) /\ Complete(f)' = Complete(f)
  BY <1>1, NothingLost DEF Ordered
<1>3. Quiet(m) /\ VideoPad'
  BY <1>1, PadsAlone
<1>4. /\ (InTask' <=> InTask) /\ (Going' <=> Going) /\ (InDetess' <=> InDetess)
      /\ (InMid' <=> InMid) /\ ~Flushing /\ ~Flushing'
      /\ OnPad(m)' = OnPad(m) /\ Passed' = Passed
  BY <1>1, <1>2 DEF InTask, Going, InDetess, InMid, Flushing, OnPad, Passed
<1>5. AtDetess(m)' = AtDetess(m) /\ AtTask(m)' = AtTask(m)
  BY <1>4 DEF AtDetess, AtMid, AtTask, One
<1>6. Places'
  BY <1>1, <1>2, <1>4 DEF Ordered, Places
<1>7. Line(m)'
  BY <1>1, <1>2, <1>4, <1>5 DEF Ordered, Line
<1> QED BY <1>2, <1>3, <1>6, <1>7 DEF Ordered

(* What was between detess_dequant and the MLA element does not arrive.    *)
LEMMA DetessFailsOrder ==
  ASSUME Inv, NEW m \in 0 .. NFrames, Ordered(m), DetessFails
  PROVE  Ordered(m)' /\ Quiet(m)
<1>0. m \in Nat
  OBVIOUS
<1>1. /\ UNCHANGED <<tee, queue, pre, task, sent, lost, pad, eos>>
      /\ detess = "run" /\ detess' = "push" /\ result' = Eos /\ mid' = <<>>
  BY DEF DetessFails, first
<1>2. /\ Queues' /\ Taken(Model)' = Taken(Model)
      /\ \A f, k : Kept(f, k)' = Kept(f, k)
      /\ \A f : Rank(f)' = Rank(f) /\ Complete(f)' = Complete(f)
  BY <1>1, NothingLost DEF Ordered
<1>3. Quiet(m) /\ VideoPad'
  BY <1>1, PadsAlone
<1>4. /\ (InTask' <=> InTask) /\ (Going' <=> Going) /\ ~InDetess' /\ ~InMid' /\ Flushing'
      /\ OnPad(m)' = OnPad(m) /\ Passed' = Passed
  BY <1>1, <1>2 DEF InTask, Going, InDetess, InMid, Flushing, OnPad, Passed
<1>5. AtTask(m)' <= AtTask(m) /\ AtTask(m)' \in Nat /\ AtTask(m) \in Nat /\ Rank(Passed) \in Nat
  <2>1. OnPad(m) \in Nat /\ Rank(Passed) \in Nat
    BY <1>0, Numbers DEF Ordered
  <2>2. One(InDetess)' = 0 /\ One(InMid)' = 0 /\ One(InDetess) \in {0, 1}
        /\ One(InMid) \in {0, 1} /\ One(InTask)' = One(InTask) /\ One(InTask) \in {0, 1}
    BY <1>4 DEF One
  <2> QED BY <1>4, <2>1, <2>2 DEF AtDetess, AtMid, AtTask
<1>6. Places'
  BY <1>1, <1>2, <1>4 DEF Ordered, Places
<1>7. Going => Rank(Passed)' >= AtTask(m)'
  BY <1>2, <1>4, <1>5 DEF Ordered, Line
<1>8. Line(m)'
  BY <1>1, <1>2, <1>4, <1>7 DEF Ordered, Line
<1> QED BY <1>2, <1>3, <1>6, <1>8 DEF Ordered

LEMMA PushTensorOrder ==
  ASSUME Inv, NEW m \in 0 .. NFrames, Ordered(m), PushTensor
  PROVE  Ordered(m)' /\ Quiet(m)
<1>0. m \in Nat
  OBVIOUS
<1>1. /\ UNCHANGED <<tee, queue, pre, task, sent, lost, mid, result>>
      /\ detess = "push" /\ pad[Model] = <<>>
  BY DEF PushTensor, first
<1>2. /\ Queues' /\ Taken(Model)' = Taken(Model) /\ Taken(Video)' = Taken(Video)
      /\ \A f, k : Kept(f, k)' = Kept(f, k)
      /\ \A f : Rank(f)' = Rank(f) /\ Complete(f)' = Complete(f)
  BY <1>1, NothingLost DEF Ordered
<1>3. /\ pad'[Video] = pad[Video] /\ (Video \in eos' <=> Video \in eos)
      /\ IF result = Eos THEN detess' = "over" /\ pad' = pad /\ eos' = eos \cup {Model}
         ELSE detess' = "idle" /\ pad'[Model] = <<result>> /\ eos' = eos
  <2>1. /\ IF result = Eos THEN detess' = "over" /\ pad' = pad /\ eos' = eos \cup {Model}
           ELSE detess' = "idle" /\ pad' = [pad EXCEPT ![Model] = <<result>>] /\ eos' = eos
        /\ pad \in [Pads -> Seq(Nat)] /\ Model \in Pads /\ Video \in Pads /\ Model # Video
    BY DEF PushTensor, Inv, Moving, Pads, Model, Video
  <2>2. CASE result = Eos
    BY <2>1, <2>2
  <2>3. CASE result # Eos
    BY <2>1, <2>3
  <2> QED BY <2>2, <2>3
<1>4. VideoPad' /\ Viewed' = Viewed
  BY <1>2, <1>3 DEF Ordered, VideoPad, Viewed
<1>5. Quiet(m)
  BY <1>1, <1>2, <1>3, <1>4 DEF Quiet, Pads, Model, Video
<1>6. /\ (InTask' <=> InTask) /\ (Going' <=> Going) /\ (InMid' <=> InMid) /\ ~InDetess'
      /\ (Flushing' <=> Flushing) /\ Passed' = Passed /\ (InDetess <=> result # Eos)
  BY <1>1, <1>2, <1>3 DEF InTask, Going, InMid, InDetess, Flushing, Passed
<1>7. Places'
  <2>1. Len(<<result>>) = 1
    OBVIOUS
  <2>2. pad'[Model] = <<>> \/ Len(pad'[Model]) = 1
    BY <1>1, <1>3, <2>1
  <2> QED BY <1>1, <1>2, <1>3, <1>6, <2>2 DEF Ordered, Places
<1>8. OnPad(m) = m
  BY <1>0, <1>1 DEF OnPad
<1>9. AtDetess(m)' = AtDetess(m) /\ AtMid(m)' = AtMid(m) /\ AtTask(m)' = AtTask(m)
  <2>1. CASE result = Eos
    <3>1. OnPad(m)' = OnPad(m)
      BY <1>3, <2>1 DEF OnPad
    <3> QED BY <1>6, <2>1, <3>1 DEF AtDetess, AtMid, AtTask, One
  <2>2. CASE result # Eos
    <3>1. OnPad(m)' = m + 1
      BY <1>0, <1>3, <2>2 DEF OnPad
    <3>2. One(InDetess) = 1 /\ One(InDetess)' = 0
      BY <1>6, <2>2 DEF One
    <3>3. AtDetess(m)' = AtDetess(m)
      BY <1>0, <1>8, <3>1, <3>2 DEF AtDetess
    <3> QED BY <1>6, <3>3 DEF AtMid, AtTask, One
  <2> QED BY <2>1, <2>2
<1>10. pad'[Model] # <<>> => Kept(pad'[Model][1], m + 1)
  BY <1>1, <1>3, <1>6, <1>8 DEF Ordered, Line
<1>11. Line(m)'
  BY <1>1, <1>2, <1>6, <1>9, <1>10 DEF Ordered, Line
<1> QED BY <1>2, <1>4, <1>5, <1>7, <1>11 DEF Ordered

-----------------------------------------------------------------------------
(* The overlay.  While the graph moves, it keeps what it has.              *)
LEMMA RestsOrder ==
  ASSUME NEW m \in 0 .. NFrames, Typed, Round(m), Story(m), Rests, Quiet(m)
  PROVE  Typed' /\ Round(m)' /\ Story(m)'
<1>1. UNCHANGED <<pc, todo, inputs, fields, labelled, drawn, out>>
  BY DEF Rests, overlayVars
<1>2. m <= m /\ Viewed' = Viewed /\ Rounds' = Rounds
      /\ \A f, k : Kept(f, k) /\ k <= m => Kept(f, k)'
  BY <1>1 DEF Quiet, Rounds
<1>3. \A a, b : Pair(m, a, b) => Pair(m, a, b)'
  BY <1>1, <1>2 DEF Pair
<1>4. Nothing(m) => Nothing(m)'
  BY <1>1, <1>2 DEF Nothing
<1>5. todo \in {Pads, {Video}} => \A p \in todo : p \in Pads
  BY DEF Pads, Video
<1>6. Round(m)'
  BY <1>1, <1>2, <1>3, <1>4, <1>5 DEF Round, Quiet
<1>7. Story(m)'
  BY <1>1, <1>2 DEF Story
<1> QED BY <1>1, <1>6, <1>7 DEF Typed

(* While it works on what it has, the graph keeps what is in line.         *)
LEMMA GraphAlone ==
  ASSUME NEW m, UNCHANGED graphVars
  PROVE  /\ Ordered(m) => Ordered(m)'
         /\ Viewed' = Viewed /\ \A f, k : Kept(f, k)' = Kept(f, k)
<1>1. /\ UNCHANGED <<decoded, has, owed, queue, pre, task, sent, free, lost, mid, detess, result,
                     pad, eos>>
  BY DEF graphVars, tee, first, last
<1>2. /\ (Queues => Queues') /\ Taken(Model)' = Taken(Model) /\ Taken(Video)' = Taken(Video)
      /\ \A f, k : Kept(f, k)' = Kept(f, k)
      /\ \A f : Rank(f)' = Rank(f) /\ Complete(f)' = Complete(f)
  BY <1>1, NothingLost DEF tee
<1>3. Passed' = Passed /\ (InTask' <=> InTask) /\ (Going' <=> Going) /\ (InMid' <=> InMid)
      /\ (InDetess' <=> InDetess) /\ (Flushing' <=> Flushing) /\ Viewed' = Viewed
  BY <1>1, <1>2 DEF Passed, InTask, Going, InMid, InDetess, Flushing, Viewed
<1>4. OnPad(m)' = OnPad(m) /\ AtDetess(m)' = AtDetess(m) /\ AtMid(m)' = AtMid(m)
      /\ AtTask(m)' = AtTask(m)
  BY <1>1, <1>3 DEF OnPad, AtDetess, AtMid, AtTask, One
<1>5. Ordered(m) => VideoPad' /\ Places' /\ Line(m)'
  BY <1>1, <1>2, <1>3, <1>4 DEF Ordered, VideoPad, Places, Line
<1> QED BY <1>2, <1>3, <1>5 DEF Ordered

(* It takes the frame of the model branch: the next one has its place.     *)
LEMMA TakesModel ==
  ASSUME Inv, NEW m \in 0 .. NFrames, Ordered(m), pad[Model] # <<>>,
         pad' = [pad EXCEPT ![Model] = <<>>], UNCHANGED othersThanPads
  PROVE  /\ m + 1 \in 0 .. NFrames /\ Kept(pad[Model][1], m + 1) /\ Ordered(m + 1)'
         /\ Viewed' = Viewed /\ \A f, k : Kept(f, k)' = Kept(f, k)
         /\ pad'[Video] = pad[Video] /\ eos' = eos
<1>1. /\ UNCHANGED <<tee, queue, pre, task, sent, free, lost, mid, detess, result, eos>>
  BY DEF othersThanPads, first, last
<1>2. /\ Queues' /\ Taken(Model)' = Taken(Model) /\ Taken(Video)' = Taken(Video)
      /\ \A f, k : Kept(f, k)' = Kept(f, k)
      /\ \A f : Rank(f)' = Rank(f) /\ Complete(f)' = Complete(f)
  BY <1>1, NothingLost DEF Ordered
<1>3. pad'[Model] = <<>> /\ pad'[Video] = pad[Video] /\ Len(pad[Model]) = 1
  BY DEF Inv, Moving, Ordered, Places, Pads, Model, Video
<1>4. Passed' = Passed /\ (InTask' <=> InTask) /\ (Going' <=> Going) /\ (InMid' <=> InMid)
      /\ (InDetess' <=> InDetess) /\ (Flushing' <=> Flushing) /\ Viewed' = Viewed
  BY <1>1, <1>2, <1>3 DEF Passed, InTask, Going, InMid, InDetess, Flushing, Viewed
<1>5. VideoPad' /\ Places'
  BY <1>1, <1>2, <1>3, <1>4 DEF Ordered, VideoPad, Places
<1>6. Kept(pad[Model][1], m + 1)
  BY DEF Ordered, Line
<1>7. m + 1 \in 0 .. NFrames
  <2>1. \A f : Kept(f, m + 1) => m + 1 <= f /\ f <= NFrames /\ f \in Nat
    BY KeptFacts
  <2> QED BY <1>6, <2>1, FrameGraphConstants
<1>8. OnPad(m + 1)' = OnPad(m)
  <2>1. Len(pad'[Model]) = 0 /\ m \in Nat
    BY <1>3
  <2>2. OnPad(m + 1)' = (m + 1) + Len(pad'[Model])
    BY DEF OnPad
  <2>3. OnPad(m + 1)' = m + 1
    BY ONLY <2>1, <2>2
  <2>4. OnPad(m) = m + 1
    BY ONLY <1>3 DEF OnPad
  <2> QED BY ONLY <2>3, <2>4
<1>9. AtDetess(m + 1)' = AtDetess(m) /\ AtMid(m + 1)' = AtMid(m) /\ AtTask(m + 1)' = AtTask(m)
  BY <1>4, <1>8 DEF AtDetess, AtMid, AtTask, One
<1>10. Line(m + 1)'
  BY <1>1, <1>2, <1>3, <1>4, <1>8, <1>9 DEF Ordered, Line
<1> QED BY <1>1, <1>2, <1>3, <1>4, <1>5, <1>6, <1>7, <1>10 DEF Ordered

LEMMA TakesVideo ==
  ASSUME Inv, NEW m \in 0 .. NFrames, Ordered(m), pad[Video] # <<>>,
         pad' = [pad EXCEPT ![Video] = <<>>], UNCHANGED othersThanPads
  PROVE  /\ pad[Video][1] \in 1 .. NFrames /\ Viewed = pad[Video][1] - 1
         /\ Viewed' = pad[Video][1] /\ Ordered(m)'
         /\ \A f, k : Kept(f, k)' = Kept(f, k)
<1>1. /\ UNCHANGED <<tee, queue, pre, task, sent, free, lost, mid, detess, result, eos>>
  BY DEF othersThanPads, first, last
<1>2. /\ Queues' /\ Taken(Model)' = Taken(Model) /\ Taken(Video)' = Taken(Video)
      /\ \A f, k : Kept(f, k)' = Kept(f, k)
      /\ \A f : Rank(f)' = Rank(f) /\ Complete(f)' = Complete(f)
  BY <1>1, NothingLost DEF Ordered
<1>3. pad'[Video] = <<>> /\ pad'[Model] = pad[Model]
  BY DEF Inv, Moving, Pads, Model, Video
<1>4. Passed' = Passed /\ (InTask' <=> InTask) /\ (Going' <=> Going) /\ (InMid' <=> InMid)
      /\ (InDetess' <=> InDetess) /\ (Flushing' <=> Flushing)
  BY <1>1, <1>2 DEF Passed, InTask, Going, InMid, InDetess, Flushing
<1>5. OnPad(m)' = OnPad(m) /\ AtDetess(m)' = AtDetess(m) /\ AtMid(m)' = AtMid(m)
      /\ AtTask(m)' = AtTask(m)
  BY <1>3, <1>4 DEF OnPad, AtDetess, AtMid, AtTask, One
<1>6. VideoPad' /\ Places' /\ Line(m)'
  BY <1>1, <1>2, <1>3, <1>4, <1>5 DEF Ordered, VideoPad, Places, Line
<1>7. /\ pad[Video] = <<Taken(Video)>> /\ Taken(Video) \in 1 .. NFrames
      /\ NFrames \in Nat /\ Video \notin eos
  BY FrameGraphConstants DEF Ordered, VideoPad, Frames, Eos
<1>8. Viewed = Taken(Video) - 1 /\ Viewed' = Taken(Video) /\ pad[Video][1] = Taken(Video)
  BY <1>1, <1>2, <1>3, <1>7 DEF Viewed
<1> QED BY <1>2, <1>6, <1>7, <1>8 DEF Ordered

-----------------------------------------------------------------------------
(* do_aggregate().                                                         *)
LEMMA StoryStays ==
  ASSUME NEW m, Story(m), out' = out, \A f, k : Kept(f, k)' = Kept(f, k)
  PROVE  Story(m)'
BY DEF Story

LEMMA StoryLater ==
  ASSUME NEW m \in Nat, Typed, Story(m), out' = out, \A f, k : Kept(f, k)' = Kept(f, k)
  PROVE  Story(m + 1)'
<1>1. \A k \in DOMAIN out : k \in Nat /\ (k <= m => k <= m + 1)
  BY DEF Typed
<1> QED BY <1>1 DEF Story

LEMMA AppendSecond ==
  ASSUME NEW s \in Seq(Nat), Len(s) = 1, NEW v \in Nat
  PROVE  /\ Len(Append(s, v)) = 2 /\ Append(s, v)[1] = s[1] /\ Append(s, v)[2] = v
<1>1. Len(Append(s, v)) = Len(s) + 1
  BY AppendProperties
<1>2. Append(s, v)[Len(s) + 1] = v
  BY AppendProperties
<1>3. \A k \in 1 .. Len(s) : Append(s, v)[k] = s[k]
  BY AppendProperties
<1>4. 1 \in 1 .. Len(s) /\ Len(s) + 1 = 2
  OBVIOUS
<1> QED BY <1>1, <1>2, <1>3, <1>4

LEMMA PairStays ==
  ASSUME Viewed' = Viewed, UNCHANGED <<fields, out>>, \A f, k : Kept(f, k)' = Kept(f, k)
  PROVE  /\ Rounds' = Rounds
         /\ \A m, a, b : Pair(m, a, b)' = Pair(m, a, b)
         /\ \A m : Nothing(m)' = Nothing(m)
BY DEF Pair, Nothing, Rounds

LEMMA SetTransmitOrder ==
  ASSUME NEW m \in 0 .. NFrames, Ordered(m), Told(m), SetTransmit
  PROVE  Ordered(m)' /\ Told(m)'
<1>1. UNCHANGED <<graphVars, pc, todo, inputs, fields, labelled, drawn, out, pad, eos>>
  BY DEF SetTransmit, graphVars
<1>2. Ordered(m)' /\ Viewed' = Viewed /\ \A f, k : Kept(f, k)' = Kept(f, k)
  BY <1>1, GraphAlone
<1>3. Round(m)'
  BY <1>1, <1>2, PairStays DEF Told, Round
<1> QED BY <1>1, <1>2, <1>3, StoryStays DEF Told, Typed

LEMMA AggregateOrder ==
  ASSUME NEW m \in 0 .. NFrames, Ordered(m), Told(m), Aggregate
  PROVE  Ordered(m)' /\ Told(m)'
<1>1. /\ UNCHANGED <<graphVars, fields, out, pad, eos>> /\ pc = "wait" /\ pc' = "pop"
      /\ todo' = Pads /\ inputs' = <<>> /\ labelled' = FALSE /\ drawn' = <<0, 0>>
      /\ \A p \in Pads : pad[p] # <<>> \/ p \in eos
  BY DEF Aggregate, graphVars
<1>2. Ordered(m)' /\ Viewed' = Viewed /\ \A f, k : Kept(f, k)' = Kept(f, k)
  BY <1>1, GraphAlone
<1>3. Round(m)'
  BY <1>1, <1>2, PairStays DEF Told, Round
<1>4. Typed'
  BY <1>1 DEF Told, Typed
<1> QED BY <1>1, <1>2, <1>3, <1>4, StoryStays DEF Told

LEMMA AllocateOrder ==
  ASSUME NEW m \in 0 .. NFrames, Ordered(m), Told(m), Allocate
  PROVE  Ordered(m)' /\ Told(m)'
<1>1. /\ UNCHANGED <<graphVars, inputs, fields, drawn, out>> /\ pc = "allocate"
      /\ pc' = IF inputs = <<>> THEN "unmap" ELSE "run"
      /\ labelled' \in BOOLEAN
  BY DEF Allocate, InsertMetadata
<1>2. Ordered(m)' /\ Viewed' = Viewed /\ \A f, k : Kept(f, k)' = Kept(f, k)
  BY <1>1, GraphAlone
<1>3. CASE inputs = <<>>
  <2>1. Nothing(m) /\ drawn = <<0, 0>>
    BY <1>1, <1>3 DEF Told, Round
  <2> QED BY <1>1, <1>2, <1>3, <2>1, PairStays, StoryStays DEF Told, Typed, Round
<1>4. CASE inputs # <<>>
  <2>1. /\ drawn = <<0, 0>>
        /\ Len(inputs) = 1 \/ (Len(inputs) = 2 /\ Pair(m, inputs[1], inputs[2]))
    BY <1>1, <1>4 DEF Told, Round
  <2> QED BY <1>1, <1>2, <1>4, <2>1, PairStays, StoryStays DEF Told, Typed, Round
<1> QED BY <1>3, <1>4

LEMMA StoppedOrder ==
  ASSUME NEW m \in 0 .. NFrames, Ordered(m), Told(m), AllocateFails \/ RunRaises
  PROVE  Ordered(m)' /\ Told(m)'
<1>1. UNCHANGED <<graphVars, fields, drawn, labelled, out>> /\ pc' = "stopped"
  BY DEF AllocateFails, RunRaises, GiveUp
<1>2. Ordered(m)' /\ \A f, k : Kept(f, k)' = Kept(f, k)
  BY <1>1, GraphAlone
<1> QED BY <1>1, <1>2, StoryStays DEF Told, Typed, Round

LEMMA RunOrder ==
  ASSUME Inv, NEW m \in 0 .. NFrames, Ordered(m), Told(m), Run
  PROVE  Ordered(m)' /\ Told(m)'
<1>1. /\ UNCHANGED <<graphVars, inputs, fields, labelled, out>> /\ pc = "run" /\ pc' = "unmap"
      /\ Len(inputs) = 2 /\ drawn' = <<inputs[1], inputs[2]>>
  BY DEF Run, Model, Video
<1>2. Ordered(m)' /\ Viewed' = Viewed /\ \A f, k : Kept(f, k)' = Kept(f, k)
  BY <1>1, GraphAlone
<1>3. inputs[1] \in Nat /\ inputs[2] \in Nat /\ Pair(m, inputs[1], inputs[2])
  BY <1>1 DEF Inv, Mapped, Told, Round
<1>4. drawn' \in Nat \X Nat /\ drawn'[1] = inputs[1] /\ drawn'[2] = inputs[2]
  BY <1>1, <1>3
<1>5. Round(m)'
  BY <1>1, <1>2, <1>3, <1>4, PairStays DEF Round
<1>6. Typed'
  BY <1>1, <1>4 DEF Told, Typed
<1> QED BY <1>1, <1>2, <1>5, <1>6, StoryStays DEF Told

LEMMA UnmapOrder ==
  ASSUME NEW m \in 0 .. NFrames, Ordered(m), Told(m), Unmap
  PROVE  Ordered(m)' /\ Told(m)'
<1>1. /\ UNCHANGED <<graphVars, inputs, fields, labelled, drawn, out>>
      /\ pc = "unmap" /\ pc' = "finish"
  BY DEF Unmap
<1>2. Ordered(m)' /\ Viewed' = Viewed /\ \A f, k : Kept(f, k)' = Kept(f, k)
  BY <1>1, GraphAlone
<1> QED BY <1>1, <1>2, PairStays, StoryStays DEF Told, Typed, Round

(* The round is over: what it drew is the next of both branches.           *)
LEMMA FinishOrder ==
  ASSUME NEW m \in 0 .. NFrames, Ordered(m), Told(m), Finish
  PROVE  Ordered(m)' /\ Told(m)'
<1> DEFINE new == [boxes |-> drawn[1], picture |-> drawn[2], labelled |-> labelled,
                   label |-> fields, kpi |-> IF transmit THEN {fields} ELSE {}]
<1>1. /\ UNCHANGED <<graphVars, inputs, fields, labelled, drawn>>
      /\ pc = "finish" /\ pc' = "wait" /\ out' = Append(out, new)
  BY DEF Finish
<1>2. Ordered(m)' /\ Viewed' = Viewed /\ \A f, k : Kept(f, k)' = Kept(f, k)
  BY <1>1, GraphAlone
<1>3. /\ new \in Outputs /\ new.boxes = drawn[1] /\ new.picture = drawn[2] /\ new.label = fields
      /\ new.kpi \subseteq {fields}
  BY DEF Told, Typed, Outputs
<1> HIDE DEF new
<1>4. /\ out \in Seq(Outputs) /\ out' \in Seq(Outputs) /\ Len(out') = Len(out) + 1
      /\ Len(out) \in Nat /\ DOMAIN out' = 1 .. Len(out) + 1 /\ DOMAIN out = 1 .. Len(out)
      /\ out'[Len(out) + 1] = new /\ \A k \in 1 .. Len(out) : out'[k] = out[k]
  BY <1>1, <1>3 DEF Told, Typed
<1>5. Typed'
  BY <1>1, <1>4 DEF Told, Typed
<1>6. NFrames \in Nat
  BY FrameGraphConstants
<1>7. CASE drawn = <<0, 0>> /\ Nothing(m)
  <2>1. Rounds' = NFrames /\ Len(out) >= NFrames /\ m = NFrames /\ Viewed = NFrames
    BY <1>4, <1>6, <1>7 DEF Rounds, Nothing
  <2>2. Round(m)'
    BY <1>1, <1>2, <2>1 DEF Round
  <2>3. Story(m)'
    BY <1>2, <1>3, <1>4, <1>6, <1>7, <2>1 DEF Told, Story
  <2> QED BY <1>2, <1>5, <2>2, <2>3 DEF Told
<1>8. CASE drawn = <<drawn[1], drawn[2]>> /\ Pair(m, drawn[1], drawn[2])
  <2>1. /\ Len(out) < NFrames /\ m = Len(out) + 1 /\ Viewed = m /\ Kept(drawn[1], m) /\ drawn[2] = m
        /\ \A x \in Fields : fields[x] = m
    BY <1>8 DEF Pair
  <2>2. Rounds' = m
    BY <1>4, <1>6, <2>1 DEF Rounds
  <2>3. Round(m)'
    BY <1>1, <1>2, <2>1, <2>2 DEF Round
  <2>4. \A k \in 1 .. Len(out) : k <= NFrames /\ k <= m
    BY <1>4, <1>6, <2>1
  <2>5. Story(m)'
    <3> SUFFICES ASSUME NEW k \in 1 .. Len(out) + 1
                 PROVE  /\ k <= NFrames /\ k <= m /\ out'[k].picture = k /\ Kept(out'[k].boxes, k)
                        /\ \A f \in Fields, l \in {out'[k].label} \cup out'[k].kpi : l[f] = k
      BY <1>2, <1>4 DEF Story
    <3>1. CASE k = Len(out) + 1
      BY <1>3, <1>4, <1>6, <2>1, <3>1
    <3>2. CASE k \in 1 .. Len(out)
      BY <1>4, <2>4, <3>2 DEF Told, Story
    <3> QED BY <1>4, <3>1, <3>2
  <2> QED BY <1>2, <1>5, <2>3, <2>5 DEF Told
<1> QED BY <1>1, <1>7, <1>8 DEF Told, Round

LEMMA ExtractTyped ==
  ASSUME Inv, NEW m, Told(m), NEW p \in Pads, Extract(p), pad[p] # <<>>
  PROVE  fields' \in [Fields -> Nat]
<1>1. pad[p][1] \in Nat
  BY HeadTail DEF Inv, Moving
<1> QED BY <1>1 DEF Told, Typed, Extract

(* Which pad is next.                                                      *)
LEMMA NextPad ==
  ASSUME NEW p \in Pads, p \in todo, \A o \in todo : p <= o, todo \in {Pads, {Video}}
  PROVE  \/ p = Model /\ todo = Pads /\ todo \ {p} = {Video}
         \/ p = Video /\ todo = {Video} /\ todo \ {p} = {}
BY DEF Pads, Model, Video

(* A frame of the model branch: the next in line.                          *)
LEMMA PopModelOrder ==
  ASSUME Inv, NEW m \in 0 .. NFrames, Ordered(m), Told(m), Pop(Model), todo = Pads
  PROVE  InOrder'
<1>1. /\ pc = "pop" /\ pc' = "pop" /\ todo' = {Video} /\ inputs = <<>> /\ m = Rounds
      /\ Viewed = Rounds /\ drawn = <<0, 0>>
      /\ UNCHANGED <<othersThanPads, labelled, drawn, out>>
      /\ pad[Video] # <<>> \/ Video \in eos
  <2>1. Pads \ {Model} = {Video} /\ Pads # {Video} /\ {Video} # {} /\ Video \in Pads
    BY DEF Pads, Model, Video
  <2>2. pc = "pop" /\ todo' = {Video} /\ pc' = "pop" /\ UNCHANGED <<othersThanPads, labelled, drawn, out>>
    BY <2>1 DEF Pop
  <2> QED BY <2>1, <2>2 DEF Told, Round
<1>2. CASE pad[Model] = <<>>
  <2>1. UNCHANGED <<graphVars, pad, eos, inputs, fields>>
    BY <1>1, <1>2 DEF Pop, graphVars, othersThanPads
  <2>2. Ordered(m)' /\ Viewed' = Viewed /\ \A f, k : Kept(f, k)' = Kept(f, k)
    BY <2>1, GraphAlone
  <2>3. Rounds' = Rounds
    BY <1>1 DEF Rounds
  <2>4. Round(m)'
    BY <1>1, <2>1, <2>2, <2>3 DEF Round
  <2>5. Typed' /\ Story(m)'
    BY <1>1, <2>1, <2>2, StoryStays DEF Told, Typed
  <2> QED BY <2>2, <2>4, <2>5 DEF InOrder, Told
<1>3. CASE pad[Model] # <<>>
  <2> DEFINE a == pad[Model][1]
  <2>1. /\ pad' = [pad EXCEPT ![Model] = <<>>] /\ Extract(Model) /\ inputs' = Append(inputs, a)
    BY <1>3 DEF Pop
  <2>2. /\ m + 1 \in 0 .. NFrames /\ Kept(a, m + 1) /\ Ordered(m + 1)'
        /\ Viewed' = Viewed /\ \A f, k : Kept(f, k)' = Kept(f, k)
        /\ pad'[Video] = pad[Video] /\ eos' = eos
    BY <1>1, <1>3, <2>1, TakesModel
  <2>3. inputs' = <<a>> /\ Len(inputs') = 1 /\ inputs'[1] = a
    <3>1. a \in Nat
      BY <2>2, KeptFacts
    <3> QED BY <1>1, <2>1, <3>1
  <2>4. Rounds' = Rounds
    BY <1>1 DEF Rounds
  <2> HIDE DEF a
  <2>5. Round(m + 1)'
    BY <1>1, <2>2, <2>3, <2>4 DEF Round
  <2>6. Story(m + 1)'
    BY <1>1, <2>2, StoryLater DEF Told
  <2>7. Typed'
    BY <1>1, <1>3, <2>1, ExtractTyped DEF Told, Typed, Model, Pads
  <2> QED BY <2>2, <2>5, <2>6, <2>7 DEF InOrder, Told
<1> QED BY <1>2, <1>3

(* A frame of the video branch: it has the number of the round, and its    *)
(* metadata is complete, since preproc gives up on a frame without.        *)
LEMMA PopVideoOrder ==
  ASSUME Inv, NEW m \in 0 .. NFrames, Ordered(m), Told(m), Pop(Video), todo = {Video}
  PROVE  InOrder'
<1>1. /\ pc = "pop" /\ pc' = "allocate"
      /\ Viewed = Rounds /\ drawn = <<0, 0>>
      /\ UNCHANGED <<othersThanPads, labelled, drawn, out>>
      /\ pad[Video] # <<>> \/ Video \in eos
      /\ \/ inputs = <<>> /\ m = Rounds
         \/ Len(inputs) = 1 /\ m = Rounds + 1 /\ Kept(inputs[1], m)
  BY DEF Pop, Told, Round, Pads, Model, Video
<1>2. inputs \in Seq(Nat) /\ Len(out) \in Nat /\ NFrames \in Nat /\ Rounds' = Rounds
  BY <1>1, FrameGraphConstants DEF Inv, Mapped, Told, Typed, Rounds
<1>3. CASE pad[Video] = <<>>
  <2>1. UNCHANGED <<graphVars, pad, eos, inputs, fields>>
    BY <1>1, <1>3 DEF Pop, graphVars, othersThanPads
  <2>2. Ordered(m)' /\ Viewed' = Viewed /\ \A f, k : Kept(f, k)' = Kept(f, k)
    BY <2>1, GraphAlone
  <2>3. inputs = <<>> => Nothing(m)
    <3>1. Viewed = NFrames
      BY <1>1, <1>3 DEF Viewed
    <3>2. Len(inputs) = 1 => inputs # <<>>
      OBVIOUS
    <3> QED BY <1>1, <1>2, <3>1, <3>2 DEF Nothing, Rounds
  <2>4. Round(m)'
    BY <1>1, <2>1, <2>2, <2>3, PairStays DEF Round
  <2>5. Typed' /\ Story(m)'
    BY <1>1, <2>1, <2>2, StoryStays DEF Told, Typed
  <2> QED BY <2>2, <2>4, <2>5 DEF InOrder, Told
<1>4. CASE pad[Video] # <<>>
  <2> DEFINE v == pad[Video][1]
  <2>1. /\ pad' = [pad EXCEPT ![Video] = <<>>] /\ Extract(Video) /\ inputs' = Append(inputs, v)
    BY <1>4 DEF Pop
  <2>2. /\ v \in 1 .. NFrames /\ Viewed = v - 1 /\ Viewed' = v /\ Ordered(m)'
        /\ \A f, k : Kept(f, k)' = Kept(f, k)
    BY <1>1, <1>4, <2>1, TakesVideo
  <2>3. Len(out) < NFrames /\ Len(out) = Rounds /\ v = Len(out) + 1
    BY <1>1, <1>2, <2>2 DEF Rounds
  <2>4. fields' = [x \in Fields |-> IF x \in has[v] THEN v ELSE fields[x]]
    BY <2>1 DEF Extract, FieldsOn, Model, Video
  <2>5. Typed'
    BY <1>1, <1>4, <2>1, ExtractTyped DEF Told, Typed, Video, Pads
  <2>6. Story(m)'
    BY <1>1, <2>2, StoryStays DEF Told
  <2> HIDE DEF v
  <2>7. CASE inputs = <<>>
    <3>1. Len(inputs') = 1
      BY <2>1, <2>7
    <3>2. Round(m)'
      BY <1>1, <3>1 DEF Round
    <3> QED BY <2>2, <2>5, <2>6, <3>2 DEF InOrder, Told
  <2>8. CASE Len(inputs) = 1 /\ m = Rounds + 1 /\ Kept(inputs[1], m)
    <3>1. PICK a : a = inputs[1] /\ Kept(a, m)
      BY <2>8
    <3>2. Len(inputs') = 2 /\ inputs'[1] = a /\ inputs'[2] = v
      <4>1. v \in Nat
        BY <2>2
      <4> QED BY <1>2, <2>1, <2>8, <3>1, <4>1, AppendSecond
    <3>3. m = v /\ Len(out') < NFrames /\ m = Len(out') + 1 /\ Viewed' = m
      BY <1>1, <2>2, <2>3, <2>8
    <3>4. v \in 1 .. a
      BY <2>2, <3>1, <3>3, KeptFacts
    <3>5. has[v] = Fields
      BY <3>1, <3>4 DEF Kept, Complete
    <3>6. \A x \in Fields : fields'[x] = v
      BY <2>4, <3>5
    <3>7. Kept(a, m)'
      BY <2>2, <3>1
    <3>8. Pair(m, inputs[1], inputs[2])'
      BY <3>2, <3>3, <3>6, <3>7 DEF Pair
    <3>9. Round(m)'
      BY <1>1, <3>2, <3>8 DEF Round
    <3> QED BY <2>2, <2>5, <2>6, <3>9 DEF InOrder, Told
  <2> QED BY <1>1, <2>7, <2>8
<1> QED BY <1>3, <1>4

LEMMA PopFailsOrder ==
  ASSUME Inv, NEW m \in 0 .. NFrames, Ordered(m), Told(m), NEW p \in Pads, PopFails(p)
  PROVE  InOrder'
<1>1. /\ pc' = "stopped" /\ pad[p] # <<>> /\ pad' = [pad EXCEPT ![p] = <<>>] /\ Extract(p)
      /\ UNCHANGED <<othersThanPads, labelled, drawn, out>>
  BY DEF PopFails, GiveUp
<1>2. Typed'
  BY <1>1, ExtractTyped DEF Told, Typed
<1>3. CASE p = Model
  <2>1. /\ m + 1 \in 0 .. NFrames /\ Ordered(m + 1)' /\ \A f, k : Kept(f, k)' = Kept(f, k)
    BY <1>1, <1>3, TakesModel
  <2>2. Round(m + 1)'
    BY <1>1 DEF Round
  <2>3. Story(m + 1)'
    BY <1>1, <2>1, StoryLater DEF Told
  <2> QED BY <1>2, <2>1, <2>2, <2>3 DEF InOrder, Told
<1>4. CASE p = Video
  <2>1. Ordered(m)' /\ \A f, k : Kept(f, k)' = Kept(f, k)
    BY <1>1, <1>4, TakesVideo
  <2>2. Round(m)'
    BY <1>1 DEF Round
  <2> QED BY <1>1, <1>2, <2>1, <2>2, StoryStays DEF InOrder, Told
<1> QED BY <1>3, <1>4 DEF Pads, Model, Video

-----------------------------------------------------------------------------
LEMMA InitInOrder == Init => InOrder
<1> SUFFICES ASSUME Init PROVE InOrder
  OBVIOUS
<1>1. /\ decoded = 0 /\ owed = {} /\ queue = [p \in Pads |-> <<>>] /\ pre = <<>>
      /\ task = "idle" /\ lost = {} /\ mid = <<>> /\ detess = "idle"
      /\ pad = [p \in Pads |-> <<>>] /\ eos = {} /\ has = [f \in Frames |-> Fields]
      /\ pc = "wait" /\ fields = [f \in Fields |-> 0] /\ labelled = FALSE /\ drawn = <<0, 0>>
      /\ out = <<>>
  BY DEF Init, GraphInit
<1>2. NFrames \in Nat /\ Eos = NFrames + 1 /\ Model \in Pads /\ Video \in Pads
  BY FrameGraphConstants DEF Eos, Model, Video, Pads
<1>3. /\ \A p \in Pads : Taken(p) = 0 /\ Len(queue[p]) = 0
      /\ pad[Model] = <<>> /\ pad[Video] = <<>>
  BY <1>1, <1>2 DEF Taken, Pushed
<1>4. Passed = 0 /\ ~InTask /\ ~InMid /\ ~InDetess /\ ~Flushing
  BY <1>1, <1>2, <1>3 DEF Passed, InTask, InMid, InDetess, Flushing
<1>5. Queues /\ VideoPad /\ Places
  BY <1>1, <1>2, <1>3, <1>4 DEF Queues, VideoPad, Places
<1>6. Rank(0) = 0
  <2>1. (1 .. 0) \ lost = {}
    OBVIOUS
  <2> QED BY <2>1, FS_EmptySet DEF Rank
<1>7. AtTask(0) = 0
  BY <1>3, <1>4 DEF AtTask, AtMid, AtDetess, OnPad, One
<1>8. Line(0)
  BY <1>2, <1>3, <1>4, <1>6, <1>7 DEF Line, Complete
<1>9. Len(out) = 0 /\ Rounds = 0 /\ Viewed = 0
  BY <1>1, <1>2, <1>3 DEF Rounds, Viewed
<1>10. Typed /\ Round(0) /\ Story(0)
  <2>1. Typed
    <3>1. <<0, 0>> \in Nat \X Nat /\ <<>> \in Seq(Outputs)
      OBVIOUS
    <3>2. fields \in [Fields -> Nat]
      BY <1>1
    <3> QED BY <1>1, <3>1, <3>2 DEF Typed
  <2>2. Round(0)
    BY <1>1, <1>9 DEF Round
  <2>3. DOMAIN out = {}
    BY <1>1
  <2> QED BY <2>1, <2>2, <2>3 DEF Story
<1> QED BY <1>2, <1>5, <1>8, <1>10 DEF InOrder, Ordered, Told

LEMMA GraphInOrder ==
  ASSUME Inv, InOrder, GraphNext, Rests
  PROVE  InOrder'
<1>1. PICK m \in 0 .. NFrames : Ordered(m) /\ Told(m)
  BY DEF InOrder
<1>2. Ordered(m)' /\ Quiet(m)
  BY <1>1, DecodeFrameOrder, TeePushOrder, DequeueOrder, PreprocOrder, TransformOrder,
     PushResultOrder, DetessPopOrder, DetessRunOrder, DetessFailsOrder, PushTensorOrder
     DEF GraphNext, PreprocTask, DetessTask
<1>3. Told(m)'
  BY <1>1, <1>2, RestsOrder DEF Told
<1> QED BY <1>2, <1>3 DEF InOrder

LEMMA PluginInOrder ==
  ASSUME Inv, InOrder, Plugin \/ SetTransmit
  PROVE  InOrder'
<1>1. PICK m \in 0 .. NFrames : Ordered(m) /\ Told(m)
  BY DEF InOrder
<1>2. CASE SetTransmit \/ Aggregate \/ Allocate \/ AllocateFails \/ Run \/ RunRaises \/ Unmap
           \/ Finish
  <2>1. Ordered(m)' /\ Told(m)'
    BY <1>1, <1>2, SetTransmitOrder, AggregateOrder, AllocateOrder, StoppedOrder, RunOrder,
       UnmapOrder, FinishOrder
  <2> QED BY <2>1 DEF InOrder
<1>3. ASSUME NEW p \in Pads, Pop(p) PROVE InOrder'
  <2>1. p \in todo /\ (\A o \in todo : p <= o) /\ todo \in {Pads, {Video}}
    BY <1>1, <1>3 DEF Pop, Told, Round
  <2>2. \/ p = Model /\ todo = Pads
        \/ p = Video /\ todo = {Video}
    BY <2>1, NextPad
  <2> QED BY <1>1, <1>3, <2>2, PopModelOrder, PopVideoOrder
<1>4. ASSUME NEW p \in Pads, PopFails(p) PROVE InOrder'
  BY <1>1, <1>4, PopFailsOrder
<1> QED BY <1>2, <1>3, <1>4 DEF Plugin

LEMMA StutterInOrder ==
  ASSUME InOrder, UNCHANGED vars
  PROVE  InOrder'
<1>1. PICK m \in 0 .. NFrames : Ordered(m) /\ Told(m)
  BY DEF InOrder
<1>2. UNCHANGED <<graphVars, pc, todo, inputs, fields, labelled, drawn, out, pad, eos>>
  BY DEF vars, graphVars
<1>3. Ordered(m)' /\ Viewed' = Viewed /\ \A f, k : Kept(f, k)' = Kept(f, k)
  BY <1>1, <1>2, GraphAlone
<1>4. Round(m)'
  BY <1>1, <1>2, <1>3, PairStays DEF Told, Round
<1>5. Typed' /\ Story(m)'
  BY <1>1, <1>2, <1>3, StoryStays DEF Told, Typed
<1> QED BY <1>3, <1>4, <1>5 DEF InOrder, Told

(* The frames of both branches stay in line, up to the last output.        *)
THEOREM InOrderHolds == Spec => []InOrder
<1>1. Inv /\ InOrder /\ [Next]_vars => InOrder'
  BY GraphInOrder, PluginInOrder, StutterInOrder DEF Next
<1> QED BY InitInOrder, InvHolds, <1>1, PTL DEF Spec

LEMMA StoryTells ==
  ASSUME InOrder
  PROVE  \A k \in DOMAIN out :
           IF k <= NFrames
             THEN /\ out[k].picture = k /\ Kept(out[k].boxes, k)
                  /\ \A f \in Fields, l \in {out[k].label} \cup out[k].kpi : l[f] = k
             ELSE out[k].picture = 0
BY DEF InOrder, Told, Story

(* No frame is lost, repeated or overtaken while the element runs, and the *)
(* blank buffers come after the last.                                      *)
THEOREM FramesInOrder == Spec => []EveryFrameOnceInOrder
<1>1. InOrder => EveryFrameOnceInOrder
  BY StoryTells DEF EveryFrameOnceInOrder
<1> QED BY <1>1, InOrderHolds, PTL

(* The boxes on the k-th picture are those of the k-th frame the MLA       *)
(* element did not lose.                                                   *)
THEOREM BoxesInLine == Spec => []BoxesAreNextInLine
<1>1. InOrder => BoxesAreNextInLine
  BY StoryTells DEF BoxesAreNextInLine, Kept, Rank
<1> QED BY <1>1, InOrderHolds, PTL

(* An output's metadata and its KPI message describe its own picture.      *)
THEOREM LabelsAreOwn == Spec => []LabelIsOwn
<1>1. InOrder => LabelIsOwn
  BY StoryTells DEF LabelIsOwn
<1> QED BY <1>1, InOrderHolds, PTL
=============================================================================
