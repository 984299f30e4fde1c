-------------------------- MODULE DispatcherProofs --------------------------
(***************************************************************************)
(* What buffer_data_dispatcher_send() promises for every batch size, model *)
(* batch, tensor size, pool size and number of inputs and failures.        *)
(***************************************************************************)
EXTENDS Dispatcher, FiniteSetTheorems, TLAPS

(* Arithmetic that more than one step needs.                               *)
LEMMA ProductIsNat == ASSUME NEW a \in Nat, NEW b \in Nat PROVE a * b \in Nat
OBVIOUS

LEMMA ProductMonotone ==
  ASSUME NEW a \in Nat, NEW b \in Nat, NEW c \in Nat, a <= b
  PROVE  a * c <= b * c
OBVIOUS

LEMMA NextProduct ==
  ASSUME NEW a \in Int, NEW m \in Int
  PROVE  (a + 1) * m = a * m + m
OBVIOUS

LEMMA SumOfProducts ==
  ASSUME NEW a \in Nat, NEW b \in Nat, NEW m \in Nat
  PROVE  m * a + b * m = (a + b) * m
OBVIOUS

LEMMA Quotient ==
  ASSUME NEW b \in Int, NEW m \in Int, m >= 1
  PROVE  b \div m \in Int /\ (b \div m) * m <= b /\ b < (b \div m) * m + m
OBVIOUS

LEMMA QuotientOfProduct ==
  ASSUME NEW a \in Nat \ {0}, NEW b \in Nat
  PROVE  (a * b) \div a = b
OBVIOUS

(* Buffers have a size.                                                    *)
LEMMA Sizes ==
  ASSUME TypeOK
  PROVE  /\ cfg.cpu \in {"DEV", "MLA", "EVXX"} /\ cfg.batch \in Int /\ cfg.model \in Int
         /\ Tensors \in Nat \ {0} /\ InTensor \in Nat \ {0} /\ OutTensor \in Nat \ {0}
         /\ InData \in Nat \ {0} /\ OutData \in Nat \ {0}
<1>1. cfg.cpu \in {"DEV", "MLA", "EVXX"} /\ cfg.batch \in Int /\ cfg.model \in Int
  BY DispatcherConstants DEF TypeOK
<1>2. Tensors \in Nat \ {0}
  BY <1>1 DEF Tensors
<1>3. InTensor \in Nat \ {0} /\ OutTensor \in Nat \ {0}
  BY DispatcherConstants
<1>4. InData \in Nat \ {0} /\ OutData \in Nat \ {0}
  BY <1>2, <1>3 DEF InData, OutData
<1> QED BY <1>1, <1>2, <1>3, <1>4

-----------------------------------------------------------------------------
(* What is computed from any address is a cell.                             *)
LEMMA ReadAtType ==
  ASSUME TypeOK, NEW a
  PROVE  ReadAt(a) \in (0 .. NFrames) \X Int
<1>1. frame \in 0 .. NFrames /\ 0 \in 0 .. NFrames
  BY DispatcherConstants DEF TypeOK
<1>2. InBase(frame) \in Int
  BY <1>1, Sizes, DispatcherConstants DEF InBase
<1>3. CASE \E i \in 0 .. Tensors - 1 : a = InBase(frame) + i * InTensor
  <2>1. a \in Int
    BY <1>2, <1>3, Sizes
  <2>2. (a - InBase(frame)) \div InTensor \in Int
    BY <2>1, <1>2, Sizes
  <2> QED BY <1>1, <1>3, <2>2 DEF ReadAt
<1>4. CASE ~ \E i \in 0 .. Tensors - 1 : a = InBase(frame) + i * InTensor
  BY <1>1, <1>4 DEF ReadAt, Garbage
<1> QED BY <1>3, <1>4

LEMMA RunBatchType ==
  ASSUME TypeOK, NEW from, NEW to, NEW n, NEW inChunk, NEW outChunk
  PROVE  RunBatch(from, to, n, inChunk, outChunk) \in [OutCells -> (0 .. NFrames) \X Int]
<1>1. mem \in [OutCells -> (0 .. NFrames) \X Int]
  BY DEF TypeOK
<1> QED BY <1>1, ReadAtType DEF RunBatch

LEMMA InitType == Init => TypeOK
<1> SUFFICES ASSUME Init PROVE TypeOK
  OBVIOUS
<1>1. Garbage \in (0 .. NFrames) \X Int
  BY DispatcherConstants DEF Garbage
<1>2. mem \in [OutCells -> (0 .. NFrames) \X Int]
  BY <1>1 DEF Init
<1>3. meta \in [Bufs -> [frame : 0 .. NFrames, stream : 0 .. NFrames, complete : BOOLEAN]]
  BY DispatcherConstants DEF Init, NoMeta
<1> QED BY <1>2, <1>3, DispatcherConstants DEF Init, TypeOK, NoBuf

(* The output memory keeps its size.                                       *)
LEMMA OutCellsSame == ASSUME cfg' = cfg PROVE OutCells' = OutCells
BY DEF OutCells, OutData, Tensors

(* drop_and_continue, after a failure or without one.                      *)
LEMMA DropType ==
  ASSUME TypeOK, Drop, UNCHANGED metaFaults,
         \/ UNCHANGED faults
         \/ faults < MaxFaults /\ faults' = faults + 1
  PROVE  TypeOK'
<1>1. owner' \in [Bufs -> {"pool", "dispatcher", "downstream", "lost"}]
  BY DEF Drop, OwnerAfterDrop, TypeOK
<1>2. faults' \in 0 .. MaxFaults
  BY DispatcherConstants DEF TypeOK
<1>3. mapped' \subseteq Frames
  BY DEF Drop, MappedAfter, TypeOK
<1> QED BY <1>1, <1>2, <1>3, OutCellsSame DEF Drop, TypeOK

LEMMA NextType ==
  ASSUME TypeOK, [Next]_vars
  PROVE  TypeOK'
<1> USE DEF NoFault
<1>1. ASSUME NEW m \in Metas, NEW offset \in Offsets, Receive(m, offset)
      PROVE  TypeOK'
  <2>1. frame + 1 \in Frames /\ frame + 1 \in 0 .. NFrames
    BY <1>1, DispatcherConstants DEF Receive, TypeOK, Frames
  <2>2. InBase(frame + 1) \in Nat
    BY <2>1, Sizes, ProductIsNat DEF InBase
  <2>3. inp' \in [id : Nat, offset : Nat, stream : 0 .. NFrames, complete : BOOLEAN]
    BY <1>1, <2>1, <2>2, DispatcherConstants DEF Receive, TypeOK
  <2>4. frame_id' \in 0 .. NFrames
    BY <1>1, <2>1 DEF Receive, FrameId, TypeOK
  <2> QED BY <1>1, <2>1, <2>3, <2>4, OutCellsSame DEF Receive, TypeOK
<1>2. CASE ReceiveNoStructure
  <2>1. frame + 1 \in Frames /\ frame + 1 \in 0 .. NFrames
    BY <1>2, DispatcherConstants DEF ReceiveNoStructure, TypeOK, Frames
  <2> QED BY <1>2, <2>1, OutCellsSame, DispatcherConstants
          DEF ReceiveNoStructure, MetaFault, TypeOK
<1>3. ASSUME NEW b \in Bufs, Acquire(b)
      PROVE  TypeOK'
  <2>1. NoMeta \in [frame : 0 .. NFrames, stream : 0 .. NFrames, complete : BOOLEAN]
    BY DispatcherConstants DEF NoMeta
  <2> QED BY <1>3, <2>1, OutCellsSame DEF Acquire, TypeOK
<1>4. CASE AcquireFails
  BY <1>4, OutCellsSame, DispatcherConstants DEF AcquireFails, Fault, TypeOK
<1>5. CASE Run
  <2>1. mem' \in [OutCells -> (0 .. NFrames) \X Int]
    BY <1>5, RunBatchType DEF Run
  <2>2. mem' \in [OutCells' -> (0 .. NFrames) \X Int]
    BY <1>5, <2>1, OutCellsSame DEF Run
  <2> QED BY <1>5, <2>2 DEF Run, TypeOK
<1>6. CASE RunFails
  BY <1>6, DropType DEF RunFails, Fault
<1>7. CASE RunFailsUnnoticed
  BY <1>7, OutCellsSame, DispatcherConstants DEF RunFailsUnnoticed, Fault, TypeOK
<1>8. CASE DumpFails
  BY <1>8, DropType DEF DumpFails, Fault
<1>9. CASE AttachFails
  <2>1. owner' \in [Bufs -> {"pool", "dispatcher", "downstream", "lost"}]
    BY <1>9 DEF AttachFails, TypeOK
  <2>2. faults' \in 0 .. MaxFaults /\ metaFaults' \in 0 .. MaxMetaFaults
    BY <1>9, DispatcherConstants DEF AttachFails, MetaFault, TypeOK
  <2> QED BY <1>9, <2>1, <2>2, OutCellsSame DEF AttachFails, TypeOK
<1>10. CASE Forward
  BY <1>10, OutCellsSame DEF Forward, TypeOK
<1>11. ASSUME NEW b \in Bufs, Release(b)
       PROVE  TypeOK'
  BY <1>11, OutCellsSame DEF Release, TypeOK
<1>12. CASE UNCHANGED vars
  BY <1>12, OutCellsSame DEF vars, TypeOK
<1> QED BY <1>1, <1>2, <1>3, <1>4, <1>5, <1>6, <1>7, <1>8, <1>9, <1>10, <1>11, <1>12
       DEF Next, SendStep

(* Every variable of send() keeps its type.                                *)
THEOREM TypeCorrect == Spec => []TypeOK
BY InitType, NextType, PTL DEF Spec

-----------------------------------------------------------------------------
(* While batches are left: no more full runs than fit, and some are left.  *)
Split == ~Invalid /\ ~Single /\ ~Native

Progress == pc = "run" /\ Split => runs <= RunCount /\ Completed < cfg.batch

(* The strategy depends on the configuration only.                         *)
LEMMA StrategySame ==
  ASSUME cfg' = cfg
  PROVE  /\ (Invalid' <=> Invalid) /\ (Single' <=> Single) /\ (Native' <=> Native)
         /\ (Split' <=> Split)
         /\ RunCount' = RunCount /\ Tensors' = Tensors /\ OutData' = OutData
BY DEF Invalid, Single, Native, Split, RunCount, Tensors, OutData

(* Full runs fit the batch, and one more would not.                        *)
LEMMA FullRuns ==
  ASSUME TypeOK, Split
  PROVE  /\ cfg.cpu = "DEV" /\ cfg.batch \in Nat \ {0} /\ cfg.model \in Nat \ {0}
         /\ RunCount \in Nat /\ RunCount * cfg.model <= cfg.batch
         /\ cfg.batch < RunCount * cfg.model + cfg.model
<1>1. cfg.cpu = "DEV" /\ cfg.batch \in Nat \ {0} /\ cfg.model \in Nat \ {0}
  BY Sizes DEF Split, Single, Invalid
<1>2. cfg.batch \in Int /\ cfg.model \in Int /\ cfg.model >= 1
  BY <1>1
<1>3. /\ RunCount \in Int /\ RunCount * cfg.model <= cfg.batch
      /\ cfg.batch < RunCount * cfg.model + cfg.model
  BY ONLY <1>2, Quotient, Zenon DEF RunCount
<1>4. RunCount >= 0
  <2> SUFFICES ASSUME RunCount <= 0 - 1 PROVE FALSE
    BY <1>3
  <2>1. (RunCount + 1) * cfg.model <= 0
    BY <1>1, <1>3
  <2>2. (RunCount + 1) * cfg.model = RunCount * cfg.model + cfg.model
    BY <1>1, <1>3, NextProduct
  <2> QED BY <1>1, <1>3, <2>1, <2>2
<1> QED BY <1>1, <1>3, <1>4

(* How many tensors a run of a split batch takes.                          *)
LEMMA SplitBatch ==
  ASSUME TypeOK, Progress, pc = "run", Split
  PROVE  /\ cfg.cpu = "DEV" /\ cfg.batch \in Nat /\ cfg.model \in Nat \ {0}
         /\ RunCount \in Nat /\ Completed = runs * cfg.model /\ Completed \in Nat
         /\ BatchNow \in 1 .. cfg.model /\ Completed + BatchNow <= cfg.batch
         /\ runs = RunCount => Completed + BatchNow = cfg.batch
<1>1. cfg.cpu = "DEV" /\ cfg.batch \in Nat \ {0} /\ cfg.model \in Nat \ {0}
  BY Sizes DEF Split, Single, Invalid
<1>2. runs \in Nat /\ runs <= RunCount /\ Completed < cfg.batch
  BY DEF TypeOK, Progress
<1>3. /\ RunCount \in Nat /\ RunCount * cfg.model <= cfg.batch
      /\ cfg.batch < RunCount * cfg.model + cfg.model
  BY FullRuns
<1>4. RunCount \in Nat
  BY <1>3
<1>5. Completed = runs * cfg.model /\ Completed \in Nat
  BY <1>1, <1>2, ProductIsNat DEF Completed, Split
<1>6. CASE runs < RunCount
  <2>1. BatchNow = cfg.model
    BY <1>6 DEF BatchNow, Split
  <2>2. (runs + 1) * cfg.model <= RunCount * cfg.model
    BY <1>1, <1>2, <1>4, <1>6, ProductMonotone
  <2>3. (runs + 1) * cfg.model = runs * cfg.model + cfg.model
    BY <1>1, <1>2, NextProduct
  <2>4. Completed + BatchNow <= cfg.batch
    BY <1>1, <1>3, <1>4, <1>5, <2>1, <2>2, <2>3, ProductIsNat
  <2> QED BY <1>1, <1>4, <1>5, <1>6, <2>1, <2>4
<1>7. CASE runs = RunCount
  <2>1. BatchNow = cfg.batch - Completed
    BY <1>7, <1>4 DEF BatchNow, Split
  <2>2. Completed = RunCount * cfg.model
    BY <1>5, <1>7
  <2> QED BY <1>1, <1>2, <1>3, <1>4, <1>5, <2>1, <2>2
<1> QED BY <1>2, <1>4, <1>6, <1>7

LEMMA InitProgress == Init => Progress
BY DEF Init, Progress

LEMMA NextProgress ==
  ASSUME TypeOK, TypeOK', Progress, [Next]_vars
  PROVE  Progress'
<1>1. ASSUME NEW b \in Bufs, Acquire(b)
      PROVE  Progress'
  <2>1. cfg' = cfg /\ runs' = 0
    BY <1>1 DEF Acquire
  <2>2. SUFFICES ASSUME Split'
                 PROVE  runs' <= RunCount' /\ Completed' < cfg'.batch
    BY DEF Progress
  <2>3. RunCount \in Nat /\ cfg.batch \in Nat \ {0} /\ cfg.model \in Nat \ {0}
    BY <2>1, <2>2, StrategySame, FullRuns
  <2>4. Completed' = 0
    BY <2>1, <2>3 DEF Completed
  <2> QED BY <2>1, <2>3, <2>4, StrategySame
<1>2. CASE Run
  <2>1. cfg' = cfg /\ runs' = runs + 1 /\ pc = "run"
    BY <1>2 DEF Run
  <2>2. SUFFICES ASSUME pc' = "run", Split'
                 PROVE  runs' <= RunCount' /\ Completed' < cfg'.batch
    BY DEF Progress
  <2>3. Split /\ ~LastRun
    BY <1>2, <2>1, <2>2, StrategySame DEF Run
  <2>4. Completed + BatchNow < cfg.batch
    BY <2>1, <2>3, SplitBatch DEF LastRun
  <2>5. runs < RunCount /\ runs \in Nat /\ cfg.model \in Nat
    <3>1. runs # RunCount /\ RunCount \in Nat /\ cfg.model \in Nat /\ cfg.batch \in Nat
      BY <2>1, <2>3, <2>4, SplitBatch
    <3>2. runs <= RunCount /\ runs \in Nat
      BY <2>1, <2>3 DEF Progress, TypeOK
    <3> QED BY <3>1, <3>2
  <2>6. BatchNow = cfg.model
    BY <2>3, <2>5 DEF BatchNow, Split
  <2>7. Completed' = (runs + 1) * cfg.model
    BY <2>1, <2>2 DEF Completed, Split
  <2>8. (runs + 1) * cfg.model = Completed + BatchNow
    <3>1. Completed = runs * cfg.model
      BY <2>1, <2>3, SplitBatch
    <3>2. (runs + 1) * cfg.model = runs * cfg.model + cfg.model
      <4>1. runs \in Int /\ cfg.model \in Int
        BY <2>5
      <4> QED BY <4>1, NextProduct
    <3> QED BY <3>1, <3>2, <2>6
  <2> QED BY <2>1, <2>3, <2>4, <2>5, <2>7, <2>8, StrategySame, SplitBatch DEF TypeOK
<1>3. CASE \/ \E m \in Metas, offset \in Offsets : Receive(m, offset)
           \/ ReceiveNoStructure \/ AcquireFails \/ RunFailsUnnoticed
           \/ RunFails \/ DumpFails \/ AttachFails \/ Forward
  BY <1>3 DEF Progress, Receive, ReceiveNoStructure, AcquireFails, RunFailsUnnoticed,
              RunFails, DumpFails, Drop, AttachFails, Forward
<1>4. CASE UNCHANGED <<cfg, pc, runs>>
  <2>1. Completed' = Completed
    BY <1>4, StrategySame DEF Completed
  <2> QED BY <1>4, <2>1, StrategySame DEF Progress
<1>5. (\E b \in Bufs : Release(b)) \/ UNCHANGED vars => UNCHANGED <<cfg, pc, runs>>
  BY DEF Release, vars
<1> QED BY <1>1, <1>2, <1>3, <1>4, <1>5 DEF Next, SendStep

LEMMA ProgressHolds == Spec => []Progress
<1>1. Init => Progress
  BY InitProgress
<1>2. TypeOK /\ TypeOK' /\ Progress /\ [Next]_vars => Progress'
  BY NextProgress
<1> QED BY <1>1, <1>2, TypeCorrect, PTL DEF Spec

(* For every batch size and model: no run asks for no tensor, for more     *)
(* than the model takes, or for tensors beyond the batch.                  *)
THEOREM BatchesFit == Spec => []BatchFits
<1>1. TypeOK /\ Progress => BatchFits
  <2> SUFFICES ASSUME TypeOK, Progress, pc = "run", ~Invalid, ~Single
               PROVE  BatchNow \in 1 .. cfg.model /\ Completed + BatchNow <= cfg.batch
    BY DEF BatchFits
  <2>1. CASE Native
    BY <2>1, Sizes DEF Native, BatchNow, Completed, Invalid, Single
  <2>2. CASE ~Native
    BY <2>2, SplitBatch DEF Split
  <2> QED BY <2>1, <2>2
<1> QED BY <1>1, TypeCorrect, ProgressHolds, PTL

-----------------------------------------------------------------------------
(* The output in hand is the only one send() has, and each input and each  *)
(* output that is left behind has its failed call on metadata.             *)
InHand == pc \in {"run", "attach"}

OneInHand ==
  /\ \A b \in Bufs : owner[b] = "dispatcher" <=> InHand /\ b = out
  /\ InHand => out \in Bufs

Lost == {b \in Bufs : owner[b] = "lost"}

Behind == IF pc = "idle" THEN mapped ELSE mapped \ {frame}

Accounted ==
  /\ mapped \subseteq 1 .. frame
  /\ Cardinality(Behind) <= metaFaults
  /\ Cardinality(Lost) <= metaFaults

HeldInv == OneInHand /\ Accounted

(* The sets that are counted are finite.                                   *)
LEMMA HeldIsFinite ==
  /\ IsFiniteSet(Bufs) /\ IsFiniteSet(Lost)
  /\ TypeOK => IsFiniteSet(mapped) /\ IsFiniteSet(Behind)
<1>1. IsFiniteSet(Bufs)
  <2>1. NBufs - 1 \in Int /\ 0 \in Int
    BY DispatcherConstants
  <2> QED BY <2>1, FS_Interval DEF Bufs
<1>2. IsFiniteSet(Lost)
  BY <1>1, FS_Subset DEF Lost
<1>3. ASSUME TypeOK PROVE IsFiniteSet(mapped) /\ IsFiniteSet(Behind)
  <2>1. IsFiniteSet(Frames)
    <3>1. NFrames \in Int /\ 1 \in Int
      BY DispatcherConstants
    <3> QED BY <3>1, FS_Interval DEF Frames
  <2>2. mapped \in SUBSET Frames /\ Behind \in SUBSET Frames
    BY <1>3 DEF TypeOK, Behind
  <2> QED BY <2>1, <2>2, FS_Subset
<1> QED BY <1>1, <1>2, <1>3

(* One more element at most counts one more.                               *)
LEMMA OneMore ==
  ASSUME NEW S, IsFiniteSet(S), NEW x, NEW T, T \subseteq S \cup {x}
  PROVE  /\ Cardinality(S) \in Nat /\ Cardinality(T) \in Nat
         /\ Cardinality(T) <= Cardinality(S) + 1
<1>1. Cardinality(S) \in Nat
  BY FS_CardinalityType
<1>2. /\ IsFiniteSet(S \cup {x})
      /\ Cardinality(S \cup {x}) = IF x \in S THEN Cardinality(S) ELSE Cardinality(S) + 1
  BY FS_AddElement
<1>3. IsFiniteSet(T) /\ Cardinality(T) <= Cardinality(S \cup {x})
  <2>1. T \in SUBSET (S \cup {x})
    OBVIOUS
  <2> QED BY <1>2, <2>1, FS_Subset
<1>4. Cardinality(T) \in Nat
  BY <1>3, FS_CardinalityType
<1> QED BY <1>1, <1>2, <1>3, <1>4

LEMMA InitHeld == Init => HeldInv
<1> SUFFICES ASSUME Init PROVE HeldInv
  OBVIOUS
<1>1. Behind = {} /\ Lost = {} /\ mapped = {}
  BY DEF Init, Behind, Lost
<1>2. Cardinality({}) = 0
  BY FS_EmptySet
<1> QED BY <1>1, <1>2 DEF Init, HeldInv, OneInHand, InHand, Accounted

LEMMA NextHeld ==
  ASSUME TypeOK, TypeOK', HeldInv, [Next]_vars
  PROVE  HeldInv'
<1>0. /\ frame \in Nat /\ metaFaults \in Nat
      /\ owner \in [Bufs -> {"pool", "dispatcher", "downstream", "lost"}]
      /\ mapped \subseteq 1 .. frame
      /\ Cardinality(Behind) <= metaFaults /\ Cardinality(Lost) <= metaFaults
  BY DEF TypeOK, HeldInv, Accounted
<1>1. ASSUME NEW m \in Metas, NEW offset \in Offsets, Receive(m, offset)
      PROVE  HeldInv'
  <2>1. OneInHand' /\ Lost' = Lost
    BY <1>1 DEF Receive, HeldInv, OneInHand, InHand, Lost
  <2>2. Behind' = Behind /\ mapped' \subseteq 1 .. frame'
    BY <1>0, <1>1 DEF Receive, Behind
  <2> QED BY <1>0, <1>1, <2>1, <2>2 DEF HeldInv, Accounted, Receive, NoFault
<1>2. CASE ReceiveNoStructure
  <2>1. OneInHand' /\ Lost' = Lost
    BY <1>2 DEF ReceiveNoStructure, HeldInv, OneInHand, InHand, Lost
  <2>2. Behind' = Behind \cup {frame + 1} /\ mapped' \subseteq 1 .. frame'
    BY <1>0, <1>2 DEF ReceiveNoStructure, Behind
  <2>3. /\ Cardinality(Behind) \in Nat /\ Cardinality(Behind') \in Nat
        /\ Cardinality(Behind') <= Cardinality(Behind) + 1
    BY <2>2, HeldIsFinite, OneMore
  <2>4. metaFaults' = metaFaults + 1 /\ Cardinality(Lost) \in Nat
    BY <1>2, HeldIsFinite, FS_CardinalityType DEF ReceiveNoStructure, MetaFault
  <2>5. Cardinality(Behind') <= metaFaults' /\ Cardinality(Lost') <= metaFaults'
    BY <1>0, <2>1, <2>3, <2>4
  <2> QED BY <2>1, <2>2, <2>5 DEF HeldInv, Accounted
<1>3. ASSUME NEW b \in Bufs, Acquire(b)
      PROVE  HeldInv'
  <2>1. OneInHand'
    BY <1>0, <1>3 DEF Acquire, HeldInv, OneInHand, InHand
  <2>2. Lost' = Lost /\ Behind' = Behind
    BY <1>0, <1>3 DEF Acquire, Lost, Behind
  <2> QED BY <1>0, <1>3, <2>1, <2>2 DEF HeldInv, Accounted, Acquire, NoFault
<1>4. CASE AcquireFails
  <2>1. OneInHand' /\ Lost' = Lost
    BY <1>4 DEF AcquireFails, HeldInv, OneInHand, InHand, Lost
  <2>2. Behind' = Behind /\ mapped' \subseteq 1 .. frame'
    BY <1>0, <1>4 DEF AcquireFails, Behind
  <2> QED BY <1>0, <1>4, <2>1, <2>2 DEF HeldInv, Accounted, AcquireFails, Fault
<1>5. CASE Run \/ RunFailsUnnoticed
  <2>1. OneInHand' /\ Lost' = Lost /\ Behind' = Behind
    BY <1>5 DEF Run, RunFailsUnnoticed, HeldInv, OneInHand, InHand, Lost, Behind
  <2> QED BY <1>0, <1>5, <2>1
          DEF HeldInv, Accounted, Run, RunFailsUnnoticed, NoFault, Fault
<1>6. CASE RunFails \/ DumpFails
  <2>1. Drop /\ metaFaults' = metaFaults /\ InHand /\ pc # "idle"
    BY <1>6 DEF RunFails, DumpFails, NoFault, Fault, InHand
  <2>2. out \in Bufs /\ owner[out] = "dispatcher"
    BY <2>1 DEF HeldInv, OneInHand
  <2>3. OneInHand'
    BY <1>0, <2>1, <2>2 DEF Drop, OwnerAfterDrop, HeldInv, OneInHand, InHand
  <2>4. Lost' = Lost
    BY <1>0, <2>1, <2>2 DEF Drop, OwnerAfterDrop, Lost
  <2>5. Behind' = Behind /\ mapped' \subseteq 1 .. frame'
    BY <1>0, <2>1 DEF Drop, MappedAfter, Behind
  <2> QED BY <1>0, <2>1, <2>3, <2>4, <2>5 DEF HeldInv, Accounted
<1>7. CASE AttachFails
  <2>1. out \in Bufs /\ owner[out] = "dispatcher" /\ metaFaults' = metaFaults + 1
    BY <1>7 DEF AttachFails, MetaFault, HeldInv, OneInHand, InHand
  <2>2. OneInHand'
    BY <1>0, <1>7, <2>1 DEF AttachFails, HeldInv, OneInHand, InHand
  <2>3. Lost' = Lost \cup {out}
    BY <1>0, <1>7, <2>1 DEF AttachFails, Lost
  <2>4. Behind' \subseteq Behind \cup {frame}
    BY <1>7 DEF AttachFails, Behind
  <2>5. /\ Cardinality(Lost) \in Nat /\ Cardinality(Lost') \in Nat
        /\ Cardinality(Lost') <= Cardinality(Lost) + 1
    BY <2>3, HeldIsFinite, OneMore
  <2>6. /\ Cardinality(Behind) \in Nat /\ Cardinality(Behind') \in Nat
        /\ Cardinality(Behind') <= Cardinality(Behind) + 1
    BY <2>4, HeldIsFinite, OneMore
  <2>7. Cardinality(Lost') <= metaFaults' /\ Cardinality(Behind') <= metaFaults'
    BY <1>0, <2>1, <2>5, <2>6
  <2> QED BY <1>0, <1>7, <2>2, <2>7 DEF HeldInv, Accounted, AttachFails
<1>8. CASE Forward
  <2>1. out \in Bufs /\ owner[out] = "dispatcher" /\ metaFaults' = metaFaults
    BY <1>8 DEF Forward, NoFault, HeldInv, OneInHand, InHand
  <2>2. OneInHand'
    BY <1>0, <1>8, <2>1 DEF Forward, HeldInv, OneInHand, InHand
  <2>3. Lost' = Lost
    BY <1>0, <1>8, <2>1 DEF Forward, Lost
  <2>4. Behind' = Behind /\ mapped' \subseteq 1 .. frame'
    BY <1>0, <1>8 DEF Forward, Behind
  <2> QED BY <1>0, <2>1, <2>2, <2>3, <2>4 DEF HeldInv, Accounted
<1>9. ASSUME NEW b \in Bufs, Release(b)
      PROVE  HeldInv'
  <2>1. OneInHand' /\ Lost' = Lost /\ Behind' = Behind
    BY <1>0, <1>9 DEF Release, HeldInv, OneInHand, InHand, Lost, Behind
  <2> QED BY <1>0, <1>9, <2>1 DEF HeldInv, Accounted, Release, NoFault
<1>10. CASE UNCHANGED vars
  BY <1>10 DEF vars, HeldInv, OneInHand, InHand, Accounted, Lost, Behind
<1> QED BY <1>1, <1>2, <1>3, <1>4, <1>5, <1>6, <1>7, <1>8, <1>9, <1>10 DEF Next, SendStep

LEMMA HeldHolds == Spec => []HeldInv
<1>1. TypeOK /\ TypeOK' /\ HeldInv /\ [Next]_vars => HeldInv'
  BY NextHeld
<1> QED BY InitHeld, <1>1, TypeCorrect, PTL DEF Spec

(* Whatever fails and however often: between two calls every input is      *)
(* unmapped and every output is with the pool or downstream, but for one   *)
(* of each for each failed call on custom metadata.                        *)
THEOREM NothingLeaks == Spec => []NothingHeldWhenIdle
<1>1. TypeOK /\ HeldInv => NothingHeldWhenIdle
  <2> SUFFICES ASSUME TypeOK, HeldInv, pc = "idle"
               PROVE  /\ Cardinality(mapped) <= metaFaults
                      /\ Cardinality({b \in Bufs : owner[b] \notin {"pool", "downstream"}}) <= metaFaults
    BY DEF NothingHeldWhenIdle
  <2>1. {b \in Bufs : owner[b] \notin {"pool", "downstream"}} = Lost
    BY DEF TypeOK, HeldInv, OneInHand, InHand, Lost
  <2> QED BY <2>1 DEF HeldInv, Accounted, Behind
<1> QED BY <1>1, TypeCorrect, HeldHolds, PTL

-----------------------------------------------------------------------------
(* Buffers do not overlap and lie in the output memory.                    *)
LEMMA CellsDisjoint ==
  ASSUME TypeOK, NEW b \in Bufs, NEW d \in Bufs, b # d
  PROVE  CellsOf(b) \cap CellsOf(d) = {}
<1>1. b \in Nat /\ d \in Nat /\ OutData \in Nat /\ b * OutData \in Nat /\ d * OutData \in Nat
  BY Sizes, ProductIsNat, DispatcherConstants DEF Bufs
<1>2. ASSUME NEW x \in Nat, NEW y \in Nat, x < y
      PROVE  x * OutData + OutData <= y * OutData
  <2>1. (x + 1) * OutData <= y * OutData
    BY <1>1, <1>2, ProductMonotone
  <2>2. (x + 1) * OutData = x * OutData + OutData
    BY <1>1, <1>2, NextProduct
  <2> QED BY <2>1, <2>2
<1>3. b * OutData + OutData <= d * OutData \/ d * OutData + OutData <= b * OutData
  BY <1>1, <1>2
<1> QED BY <1>1, <1>3 DEF CellsOf, OutBase

LEMMA CellsInMemory ==
  ASSUME TypeOK, NEW b \in Bufs
  PROVE  CellsOf(b) \subseteq OutCells
<1>1. b \in Nat /\ b + 1 <= NBufs /\ NBufs \in Nat /\ OutData \in Nat
  BY Sizes, DispatcherConstants DEF Bufs
<1>2. (b + 1) * OutData <= NBufs * OutData
  BY <1>1, ProductMonotone
<1>3. (b + 1) * OutData = b * OutData + OutData /\ b * OutData \in Nat /\ NBufs * OutData \in Nat
  BY <1>1, ProductIsNat, NextProduct
<1> QED BY <1>1, <1>2, <1>3 DEF CellsOf, OutBase, OutCells

(* The address that the model is given is that of the output.              *)
LEMMA OutAddrIsBase ==
  ASSUME TypeOK, out \in Bufs
  PROVE  OutAddr = OutBase(out) /\ OutBase(out) \in Nat
<1>1. out \in Nat /\ out + 1 <= NBufs /\ NBufs \in Nat /\ OutData \in Nat \ {0}
  BY Sizes, DispatcherConstants DEF Bufs
<1>2. OutBase(out) \in Nat
  BY <1>1, ProductIsNat DEF OutBase
<1>3. CASE cfg.cpu = "MLA"
  <2>1. OutData = OutTensor
    BY <1>3, Sizes DEF OutData, Tensors
  <2>2. (out + 1) * OutTensor <= NBufs * OutTensor
    BY <1>1, <2>1, ProductMonotone
  <2>3. (out + 1) * OutTensor = OutBase(out) + OutTensor
    BY <1>1, <2>1, NextProduct DEF OutBase
  <2>4. OutBase(out) < AddrSpace /\ AddrSpace \in Nat
    <3>1. NBufs * OutTensor \in Nat
      BY <1>1, <2>1, ProductIsNat
    <3> QED BY <1>1, <1>2, <2>1, <2>2, <2>3, <3>1, PoolIsAddressable, DispatcherConstants
  <2>5. OutBase(out) % AddrSpace = OutBase(out)
    BY <1>2, <2>4
  <2> QED BY <1>2, <1>3, <2>5 DEF OutAddr
<1> QED BY <1>2, <1>3 DEF OutAddr

(* n tensors, one behind the other, from the completed ones on.            *)
LEMMA TensorsInBuffer ==
  ASSUME TypeOK, out \in Bufs, NEW k \in Nat, NEW n \in Nat, k + n <= Tensors,
         NEW i \in 0 .. n - 1, NEW a \in Int,
         OutBase(out) + OutTensor * k + i * OutTensor <= a,
         a <= OutBase(out) + OutTensor * k + i * OutTensor + OutTensor - 1
  PROVE  a \in CellsOf(out)
<1>1. /\ Tensors \in Nat /\ OutTensor \in Nat /\ i \in Nat /\ k + i + 1 <= Tensors
      /\ OutBase(out) \in Nat
  BY Sizes, OutAddrIsBase
<1>2. (k + i + 1) * OutTensor <= Tensors * OutTensor
  BY <1>1, ProductMonotone
<1>3. (k + i + 1) * OutTensor = OutTensor * k + i * OutTensor + OutTensor
  BY <1>1
<1>4. OutTensor * k \in Nat /\ i * OutTensor \in Nat
  BY <1>1, ProductIsNat
<1>5. OutData = Tensors * OutTensor /\ OutData \in Nat
  BY Sizes DEF OutData
<1> QED BY <1>1, <1>2, <1>3, <1>4, <1>5 DEF CellsOf

(* A run of the model writes to the output in hand only.                   *)
LEMMA RunKeepsOthers ==
  ASSUME TypeOK, Progress, Run, out \in Bufs, NEW a \in OutCells, a \notin CellsOf(out)
  PROVE  mem'[a] = mem[a]
<1>0. pc = "run" /\ ~Invalid /\ a \in Int
  BY DEF Run, OutCells
<1>1. CASE Single
  <2>1. BatchNow = 1 /\ Tensors = 1 /\ OutData \div 1 = OutTensor
    BY <1>1, Sizes DEF BatchNow, Single, Tensors, OutData
  <2>2. mem' = RunBatch(InAddr, OutAddr, 1, InData \div 1, OutTensor)
    BY <1>1, <2>1 DEF Run
  <2>3. ASSUME NEW i \in 0 .. 1 - 1,
               a \in OutAddr + i * OutTensor .. OutAddr + i * OutTensor + OutTensor - 1
        PROVE  FALSE
    <3>1. /\ OutBase(out) + OutTensor * 0 + i * OutTensor <= a
          /\ a <= OutBase(out) + OutTensor * 0 + i * OutTensor + OutTensor - 1
      BY <2>3, OutAddrIsBase, Sizes
    <3> QED BY <1>0, <2>1, <3>1, TensorsInBuffer
  <2> QED BY <2>2, <2>3 DEF RunBatch
<1>2. CASE ~Single /\ Native
  <2>1. /\ BatchNow = cfg.batch /\ cfg.batch \in Nat \ {0} /\ Tensors = cfg.batch
        /\ OutTensor \in Nat
    BY <1>0, <1>2, Sizes DEF BatchNow, Single, Invalid, Tensors
  <2>2. OutData \div BatchNow = OutTensor
    BY <2>1, QuotientOfProduct DEF OutData
  <2>3. mem' = RunBatch(InAddr, OutAddr, BatchNow, InData \div BatchNow, OutTensor)
    BY <1>2, <2>2 DEF Run
  <2>4. ASSUME NEW i \in 0 .. BatchNow - 1,
               a \in OutAddr + i * OutTensor .. OutAddr + i * OutTensor + OutTensor - 1
        PROVE  FALSE
    <3>1. /\ OutBase(out) + OutTensor * 0 + i * OutTensor <= a
          /\ a <= OutBase(out) + OutTensor * 0 + i * OutTensor + OutTensor - 1
      BY <2>4, OutAddrIsBase, Sizes
    <3>2. 0 \in Nat /\ BatchNow \in Nat /\ 0 + BatchNow <= Tensors
      BY <2>1
    <3> QED BY <1>0, <3>1, <3>2, TensorsInBuffer
  <2> QED BY <2>3, <2>4 DEF RunBatch
<1>3. CASE Split
  <2>1. /\ Completed \in Nat /\ BatchNow \in Nat /\ Completed + BatchNow <= cfg.batch
        /\ Tensors = cfg.batch
    BY <1>0, <1>3, SplitBatch, FullRuns DEF Tensors
  <2>2. mem' = RunBatch(InAddr + InTensor * Completed, OutAddr + OutTensor * Completed,
                        BatchNow, InTensor, OutTensor)
    BY <1>3 DEF Run, Split
  <2>3. ASSUME NEW i \in 0 .. BatchNow - 1,
               a \in OutAddr + OutTensor * Completed + i * OutTensor ..
                     OutAddr + OutTensor * Completed + i * OutTensor + OutTensor - 1
        PROVE  FALSE
    <3>1. /\ OutBase(out) + OutTensor * Completed + i * OutTensor <= a
          /\ a <= OutBase(out) + OutTensor * Completed + i * OutTensor + OutTensor - 1
      BY <2>3, OutAddrIsBase, Sizes
    <3> QED BY <1>0, <2>1, <3>1, TensorsInBuffer
  <2> QED BY <2>2, <2>3 DEF RunBatch
<1> QED BY <1>0, <1>1, <1>2, <1>3 DEF Split

(* Whatever the batch: no run writes to a buffer that downstream holds.    *)
THEOREM OutputsAreStable == Spec => DownstreamStable
<1>1. ASSUME TypeOK, Progress, HeldInv, [Next]_vars
      PROVE  [\A b \in Bufs : owner[b] = "downstream" =>
                \A a \in CellsOf(b) : mem'[a] = mem[a]]_vars
  <2>1. CASE Run
    <3> SUFFICES ASSUME NEW b \in Bufs, owner[b] = "downstream", NEW a \in CellsOf(b)
                 PROVE  mem'[a] = mem[a]
      OBVIOUS
    <3>1. out \in Bufs /\ out # b
      BY <1>1, <2>1 DEF HeldInv, OneInHand, InHand, Run
    <3>2. a \in OutCells /\ a \notin CellsOf(out)
      BY <1>1, <3>1, CellsInMemory, CellsDisjoint
    <3> QED BY <1>1, <2>1, <3>1, <3>2, RunKeepsOthers
  <2>2. CASE ~Run /\ Next
    <3>1. mem' = mem
      BY <2>2 DEF Next, SendStep, Receive, ReceiveNoStructure, Acquire, AcquireFails,
                  RunFails, RunFailsUnnoticed, DumpFails, Drop, AttachFails, Forward, Release
    <3> QED BY <3>1
  <2>3. CASE UNCHANGED vars
    BY <2>3
  <2> QED BY <1>1, <2>1, <2>2, <2>3
<1>2. TypeOK /\ Progress /\ HeldInv /\ [Next]_vars
        => [\A b \in Bufs : owner[b] = "downstream" =>
              \A a \in CellsOf(b) : mem'[a] = mem[a]]_vars
  BY <1>1
<1> QED BY <1>2, TypeCorrect, ProgressHolds, HeldHolds, PTL DEF Spec, DownstreamStable

-----------------------------------------------------------------------------
(* Why an output that was computed by the checked branches is its input's. *)

(* The MLA transport adds buffer-offset to the address and passes 32 bits: *)
(* its inputs lie in the memory it can address, at offset 0.               *)
InputsAreAddressable ==
  (\E c \in Configs : c.cpu = "MLA") =>
    Offsets \subseteq {0} /\ 1 + NFrames * InTensor < AddrSpace

Checked == cfg.cpu = "MLA" \/ (cfg.cpu = "DEV" /\ ~Single)

Cell(b, i, c) == OutBase(b) + i * OutTensor + c

(* The first n tensors of a buffer were computed from those of frame f.    *)
Holds(b, f, n) ==
  \A i \in 0 .. n - 1, c \in 0 .. OutTensor - 1 : mem[Cell(b, i, c)] = <<f, i>>

(* A call whose input had all metadata has it in its locals.               *)
InputKnown ==
  pc # "idle" /\ inp.complete =>
    /\ inp.id = InBase(frame) /\ inp.offset \in Offsets
    /\ inp.stream = frame /\ frame_id = frame

(* What the runs completed so far left in the output in hand.              *)
RunsHold ==
  Checked /\ inp.complete =>
    /\ pc = "run" => Holds(out, frame, Completed)
    /\ pc = "attach" => Holds(out, frame, Tensors)

ResultInv == InputKnown /\ RunsHold /\ CheckedResultIsOwn

(* A cell belongs to one tensor.                                           *)
LEMMA OneTensor ==
  ASSUME NEW T \in Nat \ {0}, NEW i \in Nat, NEW j \in Nat, NEW c \in 0 .. T - 1,
         j * T <= i * T + c, i * T + c <= j * T + T - 1
  PROVE  i = j
<1>1. i * T \in Nat /\ j * T \in Nat
  BY ProductIsNat
<1>2. ASSUME NEW x \in Nat, NEW y \in Nat, x < y PROVE x * T + T <= y * T
  <2>1. (x + 1) * T <= y * T
    BY <1>2, ProductMonotone
  <2>2. (x + 1) * T = x * T + T
    BY NextProduct
  <2> QED BY <2>1, <2>2
<1>3. ~(i < j)
  <2> SUFFICES ASSUME i < j PROVE FALSE
    OBVIOUS
  <2>1. i * T + T <= j * T
    BY <1>2
  <2> QED BY <1>1, <2>1
<1>4. ~(j < i)
  <2> SUFFICES ASSUME j < i PROVE FALSE
    OBVIOUS
  <2>1. j * T + T <= i * T
    BY <1>2
  <2> QED BY <1>1, <2>1
<1> QED BY <1>3, <1>4

LEMMA CellInBuffer ==
  ASSUME TypeOK, NEW b \in Bufs, NEW i \in 0 .. Tensors - 1, NEW c \in 0 .. OutTensor - 1
  PROVE  Cell(b, i, c) \in CellsOf(b) /\ Cell(b, i, c) \in OutCells
<1>1. /\ Tensors \in Nat /\ OutTensor \in Nat /\ i \in Nat /\ c \in Nat /\ i + 1 <= Tensors
      /\ b \in Nat
  BY Sizes DEF Bufs
<1>2. (i + 1) * OutTensor <= Tensors * OutTensor
  BY <1>1, ProductMonotone
<1>3. (i + 1) * OutTensor = i * OutTensor + OutTensor
  BY <1>1, NextProduct
<1>4. i * OutTensor \in Nat /\ OutData = Tensors * OutTensor /\ OutData \in Nat
  BY <1>1, Sizes, ProductIsNat DEF OutData
<1>5. OutBase(b) \in Nat
  BY <1>1, <1>4, ProductIsNat DEF OutBase
<1>6. Cell(b, i, c) \in CellsOf(b)
  BY <1>1, <1>2, <1>3, <1>4, <1>5 DEF Cell, CellsOf
<1> QED BY <1>6, CellsInMemory

(* What the model reads for the i-th tensor.                               *)
LEMMA ReadsTensor ==
  ASSUME TypeOK, NEW i \in 0 .. Tensors - 1
  PROVE  ReadAt(InBase(frame) + i * InTensor) = <<frame, i>>
<1>1. /\ i \in Nat /\ InTensor \in Nat \ {0} /\ frame \in Nat /\ InData \in Nat
  BY Sizes DEF TypeOK
<1>2. InBase(frame) \in Nat /\ i * InTensor \in Nat
  BY <1>1, ProductIsNat DEF InBase
<1>3. (InBase(frame) + i * InTensor) - InBase(frame) = InTensor * i
  BY <1>1, <1>2
<1>4. (InTensor * i) \div InTensor = i
  BY <1>1, QuotientOfProduct
<1> QED BY <1>3, <1>4 DEF ReadAt

(* n tensors from the k-th on: those before stay, these are computed.      *)
LEMMA BatchWrites ==
  ASSUME TypeOK, out \in Bufs, NEW k \in Nat, NEW n \in Nat, k + n <= Tensors,
         NEW i \in 0 .. k + n - 1, NEW c \in 0 .. OutTensor - 1
  PROVE  RunBatch(InBase(frame) + InTensor * k, OutBase(out) + OutTensor * k, n,
                  InTensor, OutTensor)[Cell(out, i, c)]
           = IF i < k THEN mem[Cell(out, i, c)] ELSE <<frame, i>>
<1> DEFINE a   == Cell(out, i, c)
           to  == OutBase(out) + OutTensor * k
           hit == {j \in 0 .. n - 1 : a \in to + j * OutTensor .. to + j * OutTensor + OutTensor - 1}
<1>1. /\ InTensor \in Nat \ {0} /\ OutTensor \in Nat \ {0} /\ Tensors \in Nat
      /\ i \in Nat /\ c \in Nat /\ OutBase(out) \in Nat /\ frame \in Nat /\ InData \in Nat
  BY Sizes, OutAddrIsBase DEF TypeOK
<1>2. a \in OutCells
  <2>1. i \in 0 .. Tensors - 1
    BY <1>1
  <2> QED BY <2>1, CellInBuffer
<1>3. ASSUME NEW j \in 0 .. n - 1 PROVE j \in hit <=> i = k + j
  <2>1. j \in Nat /\ k + j \in Nat /\ j * OutTensor \in Nat /\ OutTensor * k \in Nat
        /\ i * OutTensor \in Nat
    BY <1>1, ProductIsNat
  <2>2. OutTensor * k + j * OutTensor = (k + j) * OutTensor
    BY <1>1, <2>1, SumOfProducts
  <2>3. j \in hit <=> /\ (k + j) * OutTensor <= i * OutTensor + c
                      /\ i * OutTensor + c <= (k + j) * OutTensor + OutTensor - 1
    BY <1>1, <2>1, <2>2 DEF Cell
  <2>4. i = k + j => /\ (k + j) * OutTensor <= i * OutTensor + c
                     /\ i * OutTensor + c <= (k + j) * OutTensor + OutTensor - 1
    BY <1>1, <2>1
  <2>5. /\ (k + j) * OutTensor <= i * OutTensor + c
        /\ i * OutTensor + c <= (k + j) * OutTensor + OutTensor - 1
        => i = k + j
    BY <1>1, <2>1, OneTensor
  <2> QED BY <2>3, <2>4, <2>5
<1>4. RunBatch(InBase(frame) + InTensor * k, to, n, InTensor, OutTensor)[a] =
        IF hit = {} THEN mem[a]
        ELSE ReadAt(InBase(frame) + InTensor * k
                      + InTensor * (CHOOSE j \in hit : \A h \in hit : h <= j))
  BY <1>2 DEF RunBatch
<1>5. hit \subseteq 0 .. n - 1
  OBVIOUS
<1> HIDE DEF hit
<1>6. CASE i < k
  <2>1. hit = {}
    <3>1. \A j \in 0 .. n - 1 : i # k + j
      BY <1>1, <1>6
    <3> QED BY <1>3, <1>5, <3>1
  <2> QED BY <1>4, <1>6, <2>1
<1>7. CASE ~(i < k)
  <2>1. i - k \in 0 .. n - 1 /\ i = k + (i - k)
    BY <1>1, <1>7
  <2>2. hit = {i - k}
    <3>1. \A j \in 0 .. n - 1 : i = k + j <=> j = i - k
      BY <1>1
    <3> QED BY <1>3, <1>5, <2>1, <3>1
  <2>3. (CHOOSE j \in hit : \A h \in hit : h <= j) = i - k
    BY <2>1, <2>2
  <2>4. InBase(frame) \in Nat
    BY <1>1, ProductIsNat DEF InBase
  <2>5. InTensor * k + InTensor * (i - k) = i * InTensor
    BY <1>1
  <2>6. InTensor * k \in Int /\ InTensor * (i - k) \in Int /\ i * InTensor \in Int
    BY <1>1
  <2>7. InBase(frame) + InTensor * k + InTensor * (i - k) = InBase(frame) + i * InTensor
    BY <2>4, <2>5, <2>6
  <2>8. i \in 0 .. Tensors - 1
    BY <1>1
  <2>9. ReadAt(InBase(frame) + i * InTensor) = <<frame, i>>
    BY <2>8, ReadsTensor
  <2> QED BY <1>4, <1>7, <2>2, <2>3, <2>7, <2>9
<1> QED BY <1>6, <1>7

(* The address the model is given is that of the input.                    *)
LEMMA InAddrIsBase ==
  ASSUME InputsAreAddressable, TypeOK, Checked, InputKnown, pc # "idle", inp.complete
  PROVE  InAddr = InBase(frame)
<1>1. inp.id = InBase(frame) /\ inp.offset \in Offsets
  BY DEF InputKnown
<1>2. CASE cfg.cpu = "DEV"
  BY <1>1, <1>2 DEF InAddr
<1>3. CASE cfg.cpu = "MLA"
  <2>1. Offsets \subseteq {0} /\ 1 + NFrames * InTensor < AddrSpace
    BY <1>3 DEF InputsAreAddressable, TypeOK
  <2>2. inp.offset = 0
    BY <1>1, <2>1
  <2>3. InData = InTensor /\ InTensor \in Nat /\ frame \in Nat /\ frame <= NFrames /\ NFrames \in Nat
    BY <1>3, Sizes, DispatcherConstants DEF InData, Tensors, TypeOK
  <2>4. frame * InTensor <= NFrames * InTensor /\ frame * InTensor \in Nat
        /\ NFrames * InTensor \in Nat
    BY <2>3, ProductMonotone, ProductIsNat
  <2>5. InBase(frame) \in Nat /\ InBase(frame) < AddrSpace
    BY <2>1, <2>3, <2>4, DispatcherConstants DEF InBase
  <2>6. InBase(frame) % AddrSpace = InBase(frame)
    BY <2>5, DispatcherConstants
  <2>7. ((inp.id % AddrSpace) + inp.offset) % AddrSpace = InBase(frame)
    BY <1>1, <2>2, <2>5, <2>6
  <2> QED BY <1>3, <2>7 DEF InAddr
<1> QED BY <1>2, <1>3 DEF Checked

(* A run continues the tensors, and the last one completes them.           *)
LEMMA RunComputes ==
  ASSUME InputsAreAddressable, TypeOK, Progress, HeldInv, ResultInv, Checked, inp.complete, Run
  PROVE  /\ pc' = "run" => Holds(out, frame, Completed)'
         /\ pc' = "attach" => Holds(out, frame, Tensors)'
<1>0. /\ pc = "run" /\ ~Invalid /\ out \in Bufs /\ UNCHANGED <<cfg, out, frame>>
      /\ InAddr = InBase(frame) /\ OutAddr = OutBase(out) /\ OutBase(out) \in Nat
      /\ InBase(frame) \in Nat /\ InTensor \in Nat \ {0} /\ OutTensor \in Nat \ {0}
  <2>1. pc = "run" /\ ~Invalid /\ out \in Bufs /\ UNCHANGED <<cfg, out, frame>>
    BY DEF Run, HeldInv, OneInHand, InHand
  <2>2. InBase(frame) \in Nat
    BY Sizes, ProductIsNat DEF InBase, TypeOK
  <2> QED BY <2>1, <2>2, InAddrIsBase, OutAddrIsBase, Sizes DEF ResultInv
<1>1. /\ OutBase(out)' = OutBase(out) /\ Tensors' = Tensors
      /\ \A i, c : Cell(out, i, c)' = Cell(out, i, c)
  BY <1>0, StrategySame DEF OutBase, Cell
<1>2. CASE Single \/ Native
  <2>1. BatchNow = Tensors /\ Tensors \in Nat \ {0}
    BY <1>0, <1>2, Sizes DEF BatchNow, Tensors, Invalid, Single, Native
  <2>2. InData \div BatchNow = InTensor /\ OutData \div BatchNow = OutTensor
    BY <1>0, <2>1, QuotientOfProduct DEF InData, OutData
  <2>3. InBase(frame) = InBase(frame) + InTensor * 0 /\ OutBase(out) = OutBase(out) + OutTensor * 0
    BY <1>0
  <2>4. mem' = RunBatch(InBase(frame) + InTensor * 0, OutBase(out) + OutTensor * 0, Tensors,
                        InTensor, OutTensor)
    BY <1>0, <1>2, <2>1, <2>2, <2>3 DEF Run
  <2>5. \A i \in 0 .. Tensors - 1, c \in 0 .. OutTensor - 1 : mem'[Cell(out, i, c)] = <<frame, i>>
    <3> SUFFICES ASSUME NEW i \in 0 .. Tensors - 1, NEW c \in 0 .. OutTensor - 1
                 PROVE  mem'[Cell(out, i, c)] = <<frame, i>>
      OBVIOUS
    <3>1. 0 \in Nat /\ Tensors \in Nat /\ 0 + Tensors <= Tensors /\ i \in 0 .. 0 + Tensors - 1
          /\ ~(i < 0)
      BY <2>1
    <3> QED BY <1>0, <2>4, <3>1, BatchWrites
  <2>6. pc' = "attach"
    BY <1>2 DEF Run, LastRun
  <2> QED BY <1>0, <1>1, <2>5, <2>6 DEF Holds
<1>3. CASE Split
  <2>1. /\ Completed \in Nat /\ BatchNow \in Nat /\ Completed + BatchNow <= cfg.batch
        /\ Tensors = cfg.batch /\ cfg.batch \in Nat
    BY <1>0, <1>3, SplitBatch, FullRuns DEF Tensors
  <2>2. mem' = RunBatch(InBase(frame) + InTensor * Completed, OutBase(out) + OutTensor * Completed,
                        BatchNow, InTensor, OutTensor)
    BY <1>0, <1>3 DEF Run, Split
  <2>3. Holds(out, frame, Completed)
    BY <1>0 DEF ResultInv, RunsHold
  <2>4. \A i \in 0 .. Completed + BatchNow - 1, c \in 0 .. OutTensor - 1 :
          mem'[Cell(out, i, c)] = <<frame, i>>
    <3> SUFFICES ASSUME NEW i \in 0 .. Completed + BatchNow - 1, NEW c \in 0 .. OutTensor - 1
                 PROVE  mem'[Cell(out, i, c)] = <<frame, i>>
      OBVIOUS
    <3>1. mem'[Cell(out, i, c)] = IF i < Completed THEN mem[Cell(out, i, c)] ELSE <<frame, i>>
      BY <1>0, <2>1, <2>2, BatchWrites
    <3>2. i < Completed => i \in 0 .. Completed - 1
      BY <2>1
    <3> QED BY <2>3, <3>1, <3>2 DEF Holds
  <2>5. pc' = "attach" => Completed + BatchNow = Tensors
    BY <1>3, <2>1 DEF Run, LastRun, Split
  <2>6. pc' = "run" => Completed' = Completed + BatchNow
    <3> SUFFICES ASSUME pc' = "run" PROVE Completed' = Completed + BatchNow
      OBVIOUS
    <3>1. ~LastRun /\ runs' = runs + 1
      BY DEF Run
    <3>2. Completed + BatchNow < cfg.batch
      BY <2>1, <3>1 DEF LastRun
    <3>3. /\ runs # RunCount /\ runs <= RunCount /\ runs \in Nat /\ RunCount \in Nat
          /\ cfg.model \in Nat /\ Completed = runs * cfg.model
      <4>1. runs \in Nat /\ runs <= RunCount
        BY <1>0, <1>3 DEF Progress, TypeOK
      <4>2. /\ runs = RunCount => Completed + BatchNow = cfg.batch
            /\ RunCount \in Nat /\ cfg.model \in Nat /\ Completed = runs * cfg.model
        BY <1>0, <1>3, SplitBatch
      <4> QED BY <2>1, <3>2, <4>1, <4>2
    <3>4. BatchNow = cfg.model
      BY <1>3, <3>3 DEF BatchNow, Split
    <3>5. Completed' = (runs + 1) * cfg.model
      BY <1>0, <1>3, <3>1, StrategySame DEF Completed, Split
    <3>6. (runs + 1) * cfg.model = runs * cfg.model + cfg.model
      <4>1. runs \in Int /\ cfg.model \in Int
        BY <3>3
      <4> QED BY <4>1, NextProduct
    <3> QED BY <3>3, <3>4, <3>5, <3>6
  <2>7. ASSUME pc' = "run" PROVE Holds(out, frame, Completed)'
    <3>1. Completed' = Completed + BatchNow
      BY <2>6, <2>7
    <3>2. ASSUME NEW i \in 0 .. Completed + BatchNow - 1, NEW c \in 0 .. OutTensor - 1
          PROVE  mem'[Cell(out, i, c)'] = <<frame', i>>
      <4>1. mem'[Cell(out, i, c)] = <<frame, i>>
        BY <2>4
      <4>2. Cell(out, i, c)' = Cell(out, i, c) /\ frame' = frame
        BY <1>0, <1>1
      <4> HIDE DEF Cell
      <4> QED BY <4>1, <4>2
    <3> QED BY <2>1, <3>1, <3>2 DEF Holds
  <2>8. ASSUME pc' = "attach" PROVE Holds(out, frame, Tensors)'
    <3>1. Tensors' = Completed + BatchNow
      BY <1>1, <2>5, <2>8
    <3>2. ASSUME NEW i \in 0 .. Completed + BatchNow - 1, NEW c \in 0 .. OutTensor - 1
          PROVE  mem'[Cell(out, i, c)'] = <<frame', i>>
      <4>1. mem'[Cell(out, i, c)] = <<frame, i>>
        BY <2>4
      <4>2. Cell(out, i, c)' = Cell(out, i, c) /\ frame' = frame
        BY <1>0, <1>1
      <4> HIDE DEF Cell
      <4> QED BY <4>1, <4>2
    <3> QED BY <2>1, <3>1, <3>2 DEF Holds
  <2> QED BY <2>7, <2>8
<1> QED BY <1>0, <1>2, <1>3 DEF Split

(* CheckedResultIsOwn, with the cells named.                               *)
LEMMA OwnByTensor ==
  CheckedResultIsOwn <=>
    (Checked => \A b \in Bufs : owner[b] = "downstream" /\ meta[b].complete =>
       meta[b].stream = meta[b].frame /\ Holds(b, meta[b].frame, Tensors))
BY DEF CheckedResultIsOwn, ResultIsOwn, Checked, Holds, Cell

(* Nothing but a run changes what is in a buffer.                          *)
LEMMA HoldsKept ==
  ASSUME cfg' = cfg, mem' = mem, runs' = runs \/ Completed' = Completed
  PROVE  /\ (Checked' <=> Checked) /\ Tensors' = Tensors /\ Completed' = Completed
         /\ \A b, f, n : Holds(b, f, n)' <=> Holds(b, f, n)
<1>1. (Checked' <=> Checked) /\ Tensors' = Tensors /\ OutData' = OutData
  BY StrategySame DEF Checked
<1>2. Completed' = Completed
  BY StrategySame DEF Completed
<1>3. \A b, i, c : Cell(b, i, c)' = Cell(b, i, c)
  BY <1>1 DEF Cell, OutBase
<1> QED BY <1>1, <1>2, <1>3 DEF Holds

LEMMA InputKnownStep == TypeOK /\ InputKnown /\ [Next]_vars => InputKnown'
<1> SUFFICES ASSUME TypeOK, InputKnown, [Next]_vars, pc' # "idle", inp'.complete
             PROVE  /\ inp'.id = InBase(frame)' /\ inp'.offset \in Offsets
                    /\ inp'.stream = frame' /\ frame_id' = frame'
  BY DEF InputKnown
<1>1. ASSUME NEW m \in Metas, NEW offset \in Offsets, Receive(m, offset)
      PROVE  /\ inp'.id = InBase(frame)' /\ inp'.offset \in Offsets
             /\ inp'.stream = frame' /\ frame_id' = frame'
  <2>1. PICK stale \in IF m = 4 THEN {frame + 1} ELSE 0 .. frame :
          inp' = [id     |-> IF m >= 1 THEN InBase(frame + 1) ELSE 0,
                  offset |-> IF m >= 3 THEN offset ELSE 0,
                  stream |-> stale, complete |-> m = 4]
    BY <1>1 DEF Receive
  <2>2. m = 4
    <3>1. inp'.complete = (m = 4)
      BY <2>1
    <3> QED BY <3>1
  <2>3. cfg' = cfg /\ frame' = frame + 1 /\ frame_id' = frame + 1
    BY <1>1, <2>2 DEF Receive, FrameId
  <2>4. InBase(frame)' = InBase(frame + 1)
    BY <2>3, StrategySame DEF InBase, InData
  <2> QED BY <2>1, <2>2, <2>3, <2>4
<1>2. CASE ~\E m \in Metas, offset \in Offsets : Receive(m, offset)
  <2>1. UNCHANGED <<cfg, frame, frame_id, inp>> /\ pc # "idle"
    BY <1>2 DEF Next, SendStep, ReceiveNoStructure, Acquire, AcquireFails, Run, RunFails,
       RunFailsUnnoticed, DumpFails, Drop, AttachFails, Forward, Release, vars
  <2>2. InBase(frame)' = InBase(frame)
    BY <2>1, StrategySame DEF InBase, InData
  <2> QED BY <2>1, <2>2 DEF InputKnown
<1> QED BY <1>1, <1>2

LEMMA RunsHoldStep ==
  ASSUME InputsAreAddressable, TypeOK, Progress, HeldInv, ResultInv, [Next]_vars
  PROVE  RunsHold'
<1> SUFFICES ASSUME Checked', inp'.complete
             PROVE  /\ pc' = "run" => Holds(out, frame, Completed)'
                    /\ pc' = "attach" => Holds(out, frame, Tensors)'
  BY DEF RunsHold
<1>0. cfg' = cfg /\ Checked
  <2>1. cfg' = cfg
    BY DEF Next, SendStep, Receive, ReceiveNoStructure, Acquire, AcquireFails, Run, RunFails,
       RunFailsUnnoticed, DumpFails, Drop, AttachFails, Forward, Release, vars
  <2> QED BY <2>1, StrategySame DEF Checked
<1>1. CASE Run
  <2>1. inp.complete
    BY <1>1 DEF Run
  <2> QED BY <1>0, <1>1, <2>1, RunComputes
<1>2. ASSUME NEW b \in Bufs, Acquire(b)
      PROVE  pc' = "run" /\ Holds(out, frame, Completed)'
  <2>1. pc' = "run" /\ runs' = 0
    BY <1>2 DEF Acquire
  <2>2. Completed' = 0
    <3>1. cfg'.model \in Int
      BY <1>0, Sizes
    <3> QED BY <2>1, <3>1 DEF Completed
  <2>3. 0 .. Completed' - 1 = {}
    BY <2>2
  <2> QED BY <2>1, <2>3 DEF Holds
<1>3. CASE UNCHANGED <<pc, inp, out, frame, mem, runs>>
  <2>1. /\ pc = "run" => Holds(out, frame, Completed)
        /\ pc = "attach" => Holds(out, frame, Tensors)
    BY <1>0, <1>3 DEF ResultInv, RunsHold
  <2> QED BY <1>0, <1>3, <2>1, HoldsKept DEF Holds, Cell, OutBase, OutData
<1>4. CASE \/ \E m \in Metas, offset \in Offsets : Receive(m, offset)
           \/ ReceiveNoStructure \/ AcquireFails \/ RunFails \/ DumpFails
           \/ AttachFails \/ Forward
  BY <1>4 DEF Receive, ReceiveNoStructure, AcquireFails, RunFails, DumpFails, Drop,
     AttachFails, Forward
<1>5. ~RunFailsUnnoticed
  BY <1>0 DEF RunFailsUnnoticed, Checked
<1>6. (\E b \in Bufs : Release(b)) \/ UNCHANGED vars
        => UNCHANGED <<pc, inp, out, frame, mem, runs>>
  BY DEF Release, vars
<1> QED BY <1>1, <1>2, <1>3, <1>4, <1>5, <1>6 DEF Next, SendStep

LEMMA OwnStep ==
  ASSUME TypeOK, Progress, HeldInv, ResultInv, [Next]_vars
  PROVE  CheckedResultIsOwn'
<1> SUFFICES ASSUME Checked', NEW b \in Bufs, owner'[b] = "downstream", meta'[b].complete
             PROVE  meta'[b].stream = meta'[b].frame /\ Holds(b, meta[b].frame, Tensors)'
  BY DEF CheckedResultIsOwn, ResultIsOwn, Checked, Holds, Cell
<1>0. cfg' = cfg /\ Checked
  <2>1. cfg' = cfg
    BY DEF Next, SendStep, Receive, ReceiveNoStructure, Acquire, AcquireFails, Run, RunFails,
       RunFailsUnnoticed, DumpFails, Drop, AttachFails, Forward, Release, vars
  <2> QED BY <2>1, StrategySame DEF Checked
<1>1. \A d \in Bufs : owner[d] = "downstream" /\ meta[d].complete =>
        meta[d].stream = meta[d].frame /\ Holds(d, meta[d].frame, Tensors)
  BY <1>0, OwnByTensor DEF ResultInv
<1>2. CASE Run
  <2>1. UNCHANGED <<owner, meta>> /\ out \in Bufs /\ b # out
    BY <1>2 DEF Run, HeldInv, OneInHand, InHand
  <2>2. meta[b].stream = meta[b].frame /\ Holds(b, meta[b].frame, Tensors)
    BY <1>1, <2>1
  <2>3. Tensors' = Tensors /\ \A i, c : Cell(b, i, c)' = Cell(b, i, c)
    BY <1>0, StrategySame DEF Cell, OutBase
  <2>4. ASSUME NEW i \in 0 .. Tensors - 1, NEW c \in 0 .. OutTensor - 1
        PROVE  mem'[Cell(b, i, c)'] = <<meta'[b].frame, i>>
    <3>1. Cell(b, i, c) \in CellsOf(b) /\ Cell(b, i, c) \in OutCells
      BY CellInBuffer
    <3>2. Cell(b, i, c) \notin CellsOf(out)
      BY <2>1, <3>1, CellsDisjoint
    <3>3. mem'[Cell(b, i, c)] = mem[Cell(b, i, c)]
      BY <1>2, <2>1, <3>1, <3>2, RunKeepsOthers
    <3> QED BY <2>1, <2>2, <2>3, <3>3 DEF Holds
  <2> QED BY <2>1, <2>2, <2>3, <2>4 DEF Holds
<1>3. CASE Forward
  <2>1. out \in Bufs /\ mem' = mem /\ runs' = runs /\ pc = "attach"
    BY <1>3 DEF Forward, HeldInv, OneInHand, InHand
  <2>2. CASE b = out
    <3>1. /\ meta'[b] = [frame |-> frame_id, stream |-> inp.stream, complete |-> inp.complete]
      BY <1>3, <2>1, <2>2 DEF Forward, TypeOK
    <3>2. inp.complete /\ inp.stream = frame /\ frame_id = frame
      BY <2>1, <3>1 DEF ResultInv, InputKnown
    <3>3. Holds(b, meta'[b].frame, Tensors)
      BY <1>0, <2>1, <2>2, <3>1, <3>2 DEF ResultInv, RunsHold
    <3> QED BY <1>0, <2>1, <3>1, <3>2, <3>3, HoldsKept DEF Holds, Cell, OutBase, OutData
  <2>3. CASE b # out
    <3>1. meta'[b] = meta[b] /\ owner[b] = "downstream"
      BY <1>3, <2>1, <2>3 DEF Forward, TypeOK
    <3>2. meta[b].stream = meta[b].frame /\ Holds(b, meta[b].frame, Tensors)
      BY <1>1, <3>1
    <3> QED BY <1>0, <2>1, <3>1, <3>2, HoldsKept DEF Holds, Cell, OutBase, OutData
  <2> QED BY <2>2, <2>3
<1>4. ASSUME mem' = mem, owner[b] = "downstream", meta'[b] = meta[b]
      PROVE  meta'[b].stream = meta'[b].frame /\ Holds(b, meta[b].frame, Tensors)'
  <2>1. meta[b].stream = meta[b].frame /\ Holds(b, meta[b].frame, Tensors)
    BY <1>1, <1>4
  <2>2. Tensors' = Tensors /\ \A i, c : Cell(b, i, c)' = Cell(b, i, c)
    BY <1>0, StrategySame DEF Cell, OutBase
  <2> QED BY <1>4, <2>1, <2>2 DEF Holds
<1>5. ASSUME NEW d \in Bufs, Acquire(d)
      PROVE  mem' = mem /\ owner[b] = "downstream" /\ meta'[b] = meta[b]
  BY <1>5 DEF Acquire, TypeOK
<1>6. CASE RunFails \/ DumpFails
  <2>1. Drop /\ out \in Bufs
    BY <1>6 DEF RunFails, DumpFails, HeldInv, OneInHand, InHand
  <2> QED BY <1>4, <2>1 DEF Drop, OwnerAfterDrop, TypeOK
<1>7. CASE AttachFails
  BY <1>4, <1>7 DEF AttachFails, TypeOK
<1>8. ASSUME NEW d \in Bufs, Release(d)
      PROVE  mem' = mem /\ owner[b] = "downstream" /\ meta'[b] = meta[b]
  BY <1>8 DEF Release, TypeOK
<1>9. CASE \/ \E m \in Metas, offset \in Offsets : Receive(m, offset)
           \/ ReceiveNoStructure \/ AcquireFails \/ RunFailsUnnoticed \/ UNCHANGED vars
  BY <1>4, <1>9 DEF Receive, ReceiveNoStructure, AcquireFails, RunFailsUnnoticed, vars
<1> QED BY <1>2, <1>3, <1>4, <1>5, <1>6, <1>7, <1>8, <1>9 DEF Next, SendStep

(* Whatever the batch and the sizes, and whatever fails: an output of the  *)
(* branches that report failed runs was computed, tensor by tensor, from   *)
(* the input that its metadata names.                                      *)
THEOREM ChecksKeepResultsOwn ==
  ASSUME InputsAreAddressable
  PROVE  Spec => []CheckedResultIsOwn
<1>1. Init => ResultInv
  BY OwnByTensor DEF Init, ResultInv, InputKnown, RunsHold
<1>2. TypeOK /\ Progress /\ HeldInv /\ ResultInv /\ [Next]_vars => ResultInv'
  BY InputKnownStep, RunsHoldStep, OwnStep DEF ResultInv
<1>3. ResultInv => CheckedResultIsOwn
  BY DEF ResultInv
<1> QED BY <1>1, <1>2, <1>3, TypeCorrect, ProgressHolds, HeldHolds, PTL DEF Spec
=============================================================================
