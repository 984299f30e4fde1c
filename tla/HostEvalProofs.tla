--------------------------- MODULE HostEvalProofs ---------------------------
(***************************************************************************)
(* What the scripts of the host promise for every number of images, runs   *)
(* and failures, and what the decoding and the suppression they share do   *)
(* for every size of the image, every set of rows, every output and every  *)
(* score.                                                                  *)
(*                                                                         *)
(* Of a row, only its position is known: that its level, its row and its   *)
(* column come back from it is the arithmetic of the first lemmas.  Of the *)
(* scripts, every step is a step of Detection or leaves it alone, so what  *)
(* Detection promises holds in all of them.                                *)
(***************************************************************************)
EXTENDS HostEval, TLAPS

(* --- positions --------------------------------------------------------- *)
LEMMA LevelFacts ==
  /\ Levels = {1, 2, 3}
  /\ Strides[1] = 8 /\ Strides[2] = 16 /\ Strides[3] = 32
BY DEF Levels, Strides

LEMMA MapSizes ==
  ASSUME NEW l \in Levels
  PROVE  RowsOf(l) \in Nat /\ ColsOf(l) \in Nat
<1>1. Strides[l] \in {8, 16, 32}
  BY LevelFacts
<1>2. \A n \in Nat : n \div 8 \in Nat /\ n \div 16 \in Nat /\ n \div 32 \in Nat
  OBVIOUS
<1> QED BY <1>1, <1>2, DetectionConstants DEF RowsOf, ColsOf

LEMMA ProductIsNat ==
  ASSUME NEW a \in Nat, NEW b \in Nat
  PROVE  a * b \in Nat
OBVIOUS

LEMMA CellParts ==
  ASSUME NEW c \in Cells
  PROVE  /\ c[1] \in Levels
         /\ c[2] \in 0 .. RowsOf(c[1]) - 1
         /\ c[3] \in 0 .. ColsOf(c[1]) - 1
<1>1. PICK l \in Levels : c \in {l} \X (0 .. RowsOf(l) - 1) \X (0 .. ColsOf(l) - 1)
  BY DEF Cells
<1> QED BY <1>1

(* A row-major position lies within its map.                               *)
LEMMA PositionInMap ==
  ASSUME NEW h \in Nat, NEW w \in Nat, NEW y \in 0 .. h - 1, NEW x \in 0 .. w - 1
  PROVE  y * w + x \in Nat /\ y * w + x < h * w
<1>1. y * w \in Nat
  BY ProductIsNat
<1>2. (h - 1 - y) * w \in Nat
  BY ProductIsNat
<1>3. (h - 1 - y) * w = h * w - w - y * w
  OBVIOUS
<1>4. h * w \in Nat
  BY ProductIsNat
<1> QED BY <1>1, <1>2, <1>3, <1>4

LEMMA SizeIsNat ==
  ASSUME NEW l \in Levels
  PROVE  SizeOf(l) \in Nat
BY MapSizes, ProductIsNat DEF SizeOf

LEMMA OffsetIsNat ==
  ASSUME NEW l \in Levels
  PROVE  Offset(l) \in Nat
BY SizeIsNat, LevelFacts DEF Offset

(* Quotient and remainder of a row-major position.                         *)
LEMMA Divide ==
  ASSUME NEW w \in Int, NEW y \in Int, NEW x \in Int, 0 <= x, x < w
  PROVE  (y * w + x) % w = x /\ (y * w + x) \div w = y
OBVIOUS

(* A row lies in the part of the flattened outputs that is its level's ... *)
LEMMA RowInLevel ==
  ASSUME NEW c \in Cells
  PROVE  /\ RowIndex(c) \in Nat /\ Offset(c[1]) \in Nat
         /\ Offset(c[1]) <= RowIndex(c) /\ RowIndex(c) < Offset(c[1]) + SizeOf(c[1])
         /\ RowIndex(c) - Offset(c[1]) = c[2] * ColsOf(c[1]) + c[3]
<1>1. c[1] \in Levels /\ c[2] \in 0 .. RowsOf(c[1]) - 1 /\ c[3] \in 0 .. ColsOf(c[1]) - 1
  BY CellParts
<1>2. RowsOf(c[1]) \in Nat /\ ColsOf(c[1]) \in Nat
  BY <1>1, MapSizes
<1>3. c[2] * ColsOf(c[1]) + c[3] \in Nat /\ c[2] * ColsOf(c[1]) + c[3] < SizeOf(c[1])
  BY <1>1, <1>2, PositionInMap DEF SizeOf
<1>4. Offset(c[1]) \in Nat
  BY <1>1, OffsetIsNat
<1>5. c[2] * ColsOf(c[1]) \in Nat /\ c[3] \in Nat
  BY <1>1, <1>2, ProductIsNat
<1>6. RowIndex(c) = Offset(c[1]) + (c[2] * ColsOf(c[1]) + c[3])
  BY <1>4, <1>5 DEF RowIndex
<1>7. SizeOf(c[1]) \in Nat
  BY <1>1, SizeIsNat
<1> QED BY <1>3, <1>4, <1>6, <1>7

(* ... and of no other level, so that LevelAt() finds its own.             *)
LEMMA LevelFound ==
  ASSUME NEW c \in Cells
  PROVE  LevelAt(RowIndex(c)) = c[1]
<1> DEFINE n == RowIndex(c)
           In(l) == Offset(l) <= n /\ n < Offset(l) + SizeOf(l)
<1>1. c[1] \in Levels /\ In(c[1])
  BY CellParts, RowInLevel
<1>2. n \in Nat /\ SizeOf(1) \in Nat /\ SizeOf(2) \in Nat /\ SizeOf(3) \in Nat
  BY RowInLevel, SizeIsNat, LevelFacts
<1>3. Offset(1) = 0 /\ Offset(2) = SizeOf(1) /\ Offset(3) = SizeOf(1) + SizeOf(2)
  BY DEF Offset
<1>4. \A k, l \in Levels : In(k) /\ In(l) => k = l
  BY <1>2, <1>3, LevelFacts
<1>5. LevelAt(n) = CHOOSE l \in Levels : In(l)
  BY DEF LevelAt
<1> HIDE DEF n, In
<1>6. (CHOOSE l \in Levels : In(l)) = c[1]
  BY <1>1, <1>4
<1> QED BY <1>5, <1>6 DEF n

(* The grid gives a row the column and the row of its cell.                *)
LEMMA GridFound ==
  ASSUME NEW c \in Cells
  PROVE  Grid(RowIndex(c)).x = c[3] /\ Grid(RowIndex(c)).y = c[2]
<1>1. LevelAt(RowIndex(c)) = c[1]
  BY LevelFound
<1>2. RowIndex(c) - Offset(c[1]) = c[2] * ColsOf(c[1]) + c[3]
  BY RowInLevel
<1>3. ColsOf(c[1]) \in Int /\ c[2] \in Int /\ c[3] \in Int /\ 0 <= c[3] /\ c[3] < ColsOf(c[1])
  BY CellParts, MapSizes
<1>4. /\ (c[2] * ColsOf(c[1]) + c[3]) % ColsOf(c[1]) = c[3]
      /\ (c[2] * ColsOf(c[1]) + c[3]) \div ColsOf(c[1]) = c[2]
  BY <1>3, Divide
<1>5. /\ Grid(RowIndex(c)).x = (RowIndex(c) - Offset(c[1])) % ColsOf(c[1])
      /\ Grid(RowIndex(c)).y = (RowIndex(c) - Offset(c[1])) \div ColsOf(c[1])
  BY <1>1 DEF Grid
<1> QED BY <1>2, <1>4, <1>5

-----------------------------------------------------------------------------
(* --- boxes and their overlap ------------------------------------------- *)
LEMMA DecodeFacts ==
  ASSUME NEW c \in Hot
  PROVE  LET d == Decode(RowIndex(c), Raw[c])
             s == Strides[c[1]] IN
           /\ s \in Int
           /\ d.cx = (c[3] + Raw[c].dx) * s /\ d.cx \in Int
           /\ d.cy = (c[2] + Raw[c].dy) * s /\ d.cy \in Int
           /\ d.w \in Int /\ d.h \in Int
<1> DEFINE s == Strides[c[1]]
<1>1. c \in Cells /\ Raw[c] \in [dx : Int, dy : Int, w : Nat, h : Nat]
  BY HotCells
<1>2. Strides[LevelAt(RowIndex(c))] = s
  BY <1>1, LevelFound
<1>3. s \in Int /\ c[2] \in Int /\ c[3] \in Int
  BY <1>1, CellParts, LevelFacts, MapSizes
<1> HIDE DEF s
<1> DEFINE d == Decode(RowIndex(c), Raw[c])
<1>4. /\ d.cx = (Raw[c].dx + Grid(RowIndex(c)).x) * s
      /\ d.cy = (Raw[c].dy + Grid(RowIndex(c)).y) * s
      /\ d.w = Raw[c].w * s /\ d.h = Raw[c].h * s
  BY <1>2 DEF Decode
<1>5. d.cx = (c[3] + Raw[c].dx) * s /\ d.cy = (c[2] + Raw[c].dy) * s
  BY <1>1, <1>3, <1>4, GridFound
<1>6. d.cx \in Int /\ d.cy \in Int /\ d.w \in Int /\ d.h \in Int
  BY <1>1, <1>3, <1>4, <1>5
<1> QED BY <1>3, <1>5, <1>6 DEF s

LEMMA BoxType ==
  ASSUME NEW c \in Hot
  PROVE  Boxes[c] \in [x1 : Int, y1 : Int, x2 : Int, y2 : Int]
<1> DEFINE d == Decode(RowIndex(c), Raw[c])
<1>1. d.cx \in Int /\ d.cy \in Int /\ d.w \in Int /\ d.h \in Int
  BY DecodeFacts
<1> HIDE DEF d
<1>2. Box(d) \in [x1 : Int, y1 : Int, x2 : Int, y2 : Int]
  BY <1>1 DEF Box
<1>3. Boxes[c] = Box(d)
  BY DEF Boxes, d
<1> QED BY <1>2, <1>3

(* Overlap is symmetric, though only one order is ever tested.             *)
LEMMA OverlapSymmetric ==
  ASSUME NEW b \in Hot, NEW c \in Hot, <<b, c>> \in Overlap
  PROVE  <<c, b>> \in Overlap
<1> DEFINE B == [x1 : Int, y1 : Int, x2 : Int, y2 : Int]
<1>1. \A p, q \in Int : Larger(p, q) = Larger(q, p) /\ Smaller(p, q) = Smaller(q, p)
  BY DEF Larger, Smaller
<1>2. \A p, q \in Int : Larger(p, q) \in Int /\ Smaller(p, q) \in Int
  BY DEF Larger, Smaller
<1>3. \A p, q \in B : Inter(p, q) = Inter(q, p)
  BY <1>1 DEF Inter
<1>4. \A p \in B : Area(p) \in Int
  BY DEF Area
<1>5. \A p, q \in B : Inter(p, q) \in Int
  <2> SUFFICES ASSUME NEW p \in B, NEW q \in B PROVE Inter(p, q) \in Int
    OBVIOUS
  <2>1. /\ p.x1 \in Int /\ p.x2 \in Int /\ p.y1 \in Int /\ p.y2 \in Int
        /\ q.x1 \in Int /\ q.x2 \in Int /\ q.y1 \in Int /\ q.y2 \in Int
    OBVIOUS
  <2>2. /\ Larger(0, Smaller(p.x2, q.x2) - Larger(p.x1, q.x1) + 1) \in Int
        /\ Larger(0, Smaller(p.y2, q.y2) - Larger(p.y1, q.y1) + 1) \in Int
    BY ONLY <2>1 DEF Larger, Smaller
  <2> QED BY <2>2 DEF Inter
<1>6. \A p, q \in B : TooClose(p, q) => TooClose(q, p)
  BY <1>3, <1>4, <1>5 DEF TooClose
<1>7. Boxes[b] \in B /\ Boxes[c] \in B
  BY BoxType
<1> HIDE DEF B
<1>8. TooClose(Boxes[b], Boxes[c])
  BY DEF Overlap
<1> QED BY <1>6, <1>7, <1>8 DEF Overlap

-----------------------------------------------------------------------------
(* --- the loop of nms() ------------------------------------------------- *)
NmsTypeOK ==
  /\ score \in [Hot -> Int] /\ left \subseteq Hot /\ keep \subseteq Hot
  /\ phase \in {"idle", "nms"} /\ (phase = "idle" => left = {} /\ keep = {})

(* No row left exceeds one that was kept.                                  *)
Sorted == \A b \in keep, c \in left : score[b] >= score[c]

NmsInv == NmsTypeOK /\ Sorted /\ KeptApart /\ SuppressedByBetter

LEMMA NmsInitInv == NmsInit => NmsInv
BY DEF NmsInit, NmsInv, NmsTypeOK, Sorted, KeptApart, SuppressedByBetter

LEMMA PostprocessInv == NmsInv /\ Postprocess => NmsInv'
<1> SUFFICES ASSUME NmsInv, Postprocess PROVE NmsInv'
  OBVIOUS
<1>1. score' \in [Hot -> Int]
  BY DetectionConstants DEF Postprocess, Scores
<1>2. left' = Passing(score)' /\ left' \subseteq Hot /\ keep' = {} /\ phase' = "nms"
  BY DEF Postprocess, Passing
<1> QED BY <1>1, <1>2 DEF NmsInv, NmsTypeOK, Sorted, KeptApart, SuppressedByBetter

LEMMA UseBoxesInv == NmsInv /\ UseBoxes => NmsInv'
BY DEF UseBoxes, NmsInv, NmsTypeOK, Sorted, KeptApart, SuppressedByBetter

LEMMA KeepBestInv ==
  ASSUME NmsInv, KeepBest
  PROVE  NmsInv'
<1>1. PICK b \in Best(left) : /\ keep' = keep \cup {b}
                              /\ left' = {c \in left \ {b} : <<b, c>> \notin Overlap}
  BY DEF KeepBest
<1>2. score' = score /\ phase' = phase /\ phase = "nms" /\ Passing(score)' = Passing(score)
  BY DEF KeepBest, Passing
<1>3. b \in left /\ b \in Hot /\ \A c \in left : score[b] >= score[c]
  BY DEF NmsInv, NmsTypeOK, Best
<1>4. NmsTypeOK'
  BY <1>1, <1>2, <1>3 DEF NmsInv, NmsTypeOK
<1>5. Sorted'
  BY <1>1, <1>2, <1>3 DEF NmsInv, Sorted
<1>6. KeptApart'
  <2>1. \A c \in keep : <<b, c>> \notin Overlap \/ b = c
    BY <1>3, OverlapSymmetric DEF NmsInv, NmsTypeOK, KeptApart
  <2> QED BY <1>1, <1>3, <2>1 DEF NmsInv, KeptApart
<1>7. SuppressedByBetter'
  <2> SUFFICES ASSUME NEW c \in Passing(score) \ (keep' \cup left')
               PROVE  \E a \in keep' : <<a, c>> \in Overlap /\ score[a] >= score[c]
    BY <1>2 DEF SuppressedByBetter
  <2>1. CASE c \in left
    BY <1>1, <1>3, <2>1
  <2>2. CASE c \notin left
    BY <1>1, <1>2, <2>2 DEF NmsInv, SuppressedByBetter
  <2> QED BY <2>1, <2>2
<1> QED BY <1>4, <1>5, <1>6, <1>7 DEF NmsInv

THEOREM NmsInvHolds == NmsSpec => []NmsInv
<1>1. NmsInv /\ UNCHANGED nmsVars => NmsInv'
  BY DEF nmsVars, NmsInv, NmsTypeOK, Sorted, KeptApart, SuppressedByBetter, Passing
<1>2. NmsInv /\ [NmsNext]_nmsVars => NmsInv'
  BY <1>1, PostprocessInv, KeepBestInv, UseBoxesInv DEF NmsNext
<1> QED BY NmsInitInv, <1>2, PTL DEF NmsSpec

(* The box of every row is centred on its own cell, at its own stride, for *)
(* every size of the image and whatever the network put out.               *)
THEOREM BoxesAreCentred == NmsSpec => []CentredOnCell
<1>1. NmsInv => CentredOnCell
  BY DecodeFacts DEF NmsInv, NmsTypeOK, CentredOnCell
<1> QED BY <1>1, NmsInvHolds, PTL

(* No two boxes nms() keeps overlap by more than the threshold.            *)
THEOREM KeptBoxesAreApart == NmsSpec => []KeptApart
<1>1. NmsInv => KeptApart
  BY DEF NmsInv
<1> QED BY <1>1, NmsInvHolds, PTL

(* A row nms() drops overlaps a kept one that scores at least as much.     *)
THEOREM NothingIsLost == NmsSpec => []SuppressedByBetter
<1>1. NmsInv => SuppressedByBetter
  BY DEF NmsInv
<1> QED BY <1>1, NmsInvHolds, PTL

-----------------------------------------------------------------------------
(* --- the scripts ------------------------------------------------------- *)
(* The scripts use multiclass_nms as its own loop allows: each of their    *)
(* steps is one of its steps, or leaves the rows alone.                    *)
THEOREM ScriptsSuppressInTurn == Spec => NmsSpec
<1>1. Init => NmsInit
  BY DEF Init
<1>2. [Next]_vars => [NmsNext]_nmsVars
  <2> SUFFICES ASSUME [Next]_vars PROVE [NmsNext]_nmsVars
    OBVIOUS
  <2>1. CASE \E s \in Scripts, e \in BOOLEAN : Start(s, e)
    BY <2>1 DEF Start
  <2>2. CASE CleanFolder \/ CleanResults \/ LoadModel \/ DataPrep \/ Quantize \/ CollectTest
             \/ ExecuteOnBoard \/ EndOfImages \/ Compile \/ ExtractJson \/ ExtractElf
    BY <2>2 DEF CleanFolder, CleanResults, LoadModel, DataPrep, Quantize, CollectTest,
                ExecuteOnBoard, EndOfImages, Compile, ExtractJson, ExtractElf
  <2>3. CASE NextImage \/ Suppress \/ Write \/ WriteFails \/ EndsEarly
    BY <2>3 DEF NextImage, Suppress, Write, WriteFails, EndsEarly, NmsNext
  <2>4. CASE UNCHANGED vars
    BY <2>4 DEF vars
  <2> QED BY <2>1, <2>2, <2>3, <2>4 DEF Next, Loop
<1> QED BY <1>1, <1>2, PTL DEF Spec, NmsSpec

(* So the boxes the scripts draw are centred, apart and complete.          *)
THEOREM DrawnBoxesAreRight ==
  Spec => [](CentredOnCell /\ KeptApart /\ SuppressedByBetter)
BY ScriptsSuppressInTurn, BoxesAreCentred, KeptBoxesAreApart, NothingIsLost, PTL

-----------------------------------------------------------------------------
Places == {"idle", "results", "load", "prep", "clean", "collect", "next", "draw", "compile",
           "extractJson", "extractElf"}

(* The images 1 to k, in order.                                            *)
UpTo(k) == [j \in 1 .. k |-> j]

TypeOK ==
  /\ script \in Scripts /\ run \in Nat /\ pc \in Places /\ it \in Nat
  /\ DOMAIN folder = Scripts /\ results \in [ResultFiles -> Nat]

Path ==
  /\ pc \in {"results", "prep", "compile", "extractJson", "extractElf"} => script = "modelsdk"
  /\ pc = "collect" => script = "accel"
  /\ pc # "idle" => outcome = "none"

(* Before the first loop of a script its lists are empty.                  *)
Fresh ==
  pc \in {"results", "load"} \/ (pc = "clean" /\ script # "modelsdk") =>
    it = 0 /\ heap = <<>> /\ samples = <<>> /\ pictures = <<>>

(* run_accelmode: a dictionary for every image, the answers in their order.*)
Collected ==
  /\ pc = "collect" =>
       it <= NTest /\ heap = UpTo(it) /\ samples = UpTo(it) /\ pictures = UpTo(it)
  /\ pc \in {"next", "draw"} /\ script = "accel" => pictures = UpTo(NTest) /\ pred = UpTo(NTest)

(* _data_prep: one dictionary, in every place of the list, and the last    *)
(* image in it.                                                            *)
OneDictionary ==
  pc = "prep" => it <= NCalib /\ heap = <<it>> /\ samples = [j \in 1 .. it |-> 1]

LastImageOnly ==
  results["model"] # Absent => calibrated = IF NCalib = 0 THEN {} ELSE {NCalib}

(* The evaluation loop: `file`, `picture` and `output` are the it-th.      *)
AtImage ==
  /\ pc \in {"next", "draw"} => it <= NTest
  /\ pc = "draw" => it >= 1 /\ file = it /\ picture = it /\ outputOf = it

(* The script's folder holds its first k images, without the failed ones.  *)
WrittenUpTo(k) ==
  {f.name : f \in folder[script]} = (1 .. k) \ unwritten

Written ==
  /\ pc \in {"results", "clean", "load", "prep", "collect"} => unwritten = {}
  /\ (pc = "load" /\ script # "modelsdk") \/ pc = "collect" => folder[script] = {}
  /\ pc = "next" => WrittenUpTo(it) /\ unwritten \subseteq 1 .. it
  /\ pc = "draw" => WrittenUpTo(it - 1) /\ unwritten \subseteq 1 .. it - 1
  /\ pc \in {"compile", "extractJson", "extractElf"} /\ evaluate => WrittenUpTo(NTest)

(* run_modelsdk has saved the quantised model and still runs.              *)
Saved ==
  script = "modelsdk" /\ pc \in {"clean", "next", "draw", "compile", "extractJson", "extractElf"}

(* What is on disk while a script works on it.                             *)
OfThisRun ==
  /\ pc \in {"next", "draw"} => \A f \in folder[script] : f.run = run
  /\ script = "modelsdk" /\ pc \in {"load", "prep"} =>
       \A f \in ResultFiles : results[f] = Absent
  /\ Saved => results["model"] = run /\ \A f \in ResultFiles : results[f] \in {Absent, run}
  /\ pc \in {"extractJson", "extractElf"} => results["archive"] = run
  /\ pc = "extractElf" => results["json"] = run

Inv ==
  /\ TypeOK /\ Path /\ Fresh /\ Collected /\ OneDictionary /\ LastImageOnly
  /\ AtImage /\ Written /\ OfThisRun
  /\ AnnotationIsOwn /\ EveryImageWritten /\ DiskIsOfOneRun

-----------------------------------------------------------------------------
LEMMA UpToGrows ==
  ASSUME NEW k \in Nat
  PROVE  Append(UpTo(k), k + 1) = UpTo(k + 1)
BY DEF UpTo

LEMMA OnesGrow ==
  ASSUME NEW k \in Nat
  PROVE  Append([j \in 1 .. k |-> 1], 1) = [j \in 1 .. k + 1 |-> 1]
OBVIOUS

LEMMA EmptyLists ==
  /\ <<>> = UpTo(0) /\ <<>> = [j \in 1 .. 0 |-> 1]
BY DEF UpTo

LEMMA InitInv == Init => Inv
<1> SUFFICES ASSUME Init PROVE Inv
  OBVIOUS
<1>1. TypeOK
  BY DEF Init, TypeOK, Scripts, Places, Absent
<1>2. /\ Path /\ Fresh /\ Collected /\ OneDictionary /\ AtImage /\ Written
      /\ AnnotationIsOwn /\ EveryImageWritten
  BY DEF Init, Path, Fresh, Collected, OneDictionary, AtImage, Written, AnnotationIsOwn,
         EveryImageWritten
<1>3. LastImageOnly /\ OfThisRun
  BY DEF Init, LastImageOnly, OfThisRun, Saved, ResultFiles
<1>4. DiskIsOfOneRun
  BY DEF Init, DiskIsOfOneRun, FolderIsOneRun, ResultsAreOneRun, ResultsComplete
<1> QED BY <1>1, <1>2, <1>3, <1>4 DEF Inv

LEMMA StartInv ==
  ASSUME Inv, NEW s \in Scripts, NEW e \in BOOLEAN, Start(s, e)
  PROVE  Inv'
<1>1. TypeOK' /\ Path' /\ Fresh'
  BY DEF Inv, TypeOK, Path, Fresh, Start, FreshLocals, Places
<1>2. Collected' /\ OneDictionary' /\ LastImageOnly' /\ AtImage' /\ Written' /\ OfThisRun'
  BY DEF Inv, Start, Collected, OneDictionary, LastImageOnly, AtImage, Written, OfThisRun,
         Saved
<1>3. AnnotationIsOwn' /\ EveryImageWritten' /\ DiskIsOfOneRun'
  BY DEF Inv, Start, AnnotationIsOwn, EveryImageWritten, DiskIsOfOneRun, FolderIsOneRun,
         ResultsAreOneRun, ResultsComplete
<1> QED BY <1>1, <1>2, <1>3 DEF Inv

LEMMA CleanFolderInv ==
  ASSUME Inv, CleanFolder
  PROVE  Inv'
<1>1. /\ pc = "clean" /\ unwritten = {} /\ script \in Scripts
      /\ UNCHANGED <<script, run, evaluate, heap, samples, pictures, pred, results, calibrated,
                     outcome, unwritten>>
  BY DEF Inv, TypeOK, Written, CleanFolder, runVars
<1>2. CASE pc' = "clean"
  <2>1. /\ DOMAIN folder' = Scripts /\ folder'[script] \subseteq folder[script] /\ it' = it
        /\ \A s \in Scripts : s # script => folder'[s] = folder[s]
    BY <1>1, <1>2 DEF Inv, TypeOK, CleanFolder
  <2>2. \A s \in Scripts : folder'[s] \subseteq folder[s]
    BY <2>1
  <2>3. TypeOK' /\ Path' /\ Fresh' /\ Collected' /\ OneDictionary' /\ LastImageOnly' /\ AtImage'
    BY <1>1, <1>2, <2>1 DEF Inv, TypeOK, Path, Fresh, Collected, OneDictionary, LastImageOnly,
                            AtImage
  <2>4. Written' /\ OfThisRun' /\ EveryImageWritten'
    BY <1>1, <1>2, <2>1 DEF Inv, Path, Written, OfThisRun, Saved, EveryImageWritten
  <2>5. AnnotationIsOwn' /\ DiskIsOfOneRun'
    BY <1>1, <2>2 DEF Inv, Path, AnnotationIsOwn, DiskIsOfOneRun, FolderIsOneRun,
                      ResultsAreOneRun, ResultsComplete
  <2> QED BY <2>3, <2>4, <2>5 DEF Inv
<1>3. CASE pc' # "clean"
  <2>1. /\ folder[script] = {} /\ folder' = folder /\ it' = 0
        /\ pc' = IF script = "modelsdk" THEN "next" ELSE "load"
    BY <1>1, <1>3 DEF CleanFolder
  <2>2. TypeOK' /\ Path' /\ Fresh'
    BY <1>1, <2>1 DEF Inv, TypeOK, Path, Fresh, Places
  <2>3. Collected' /\ OneDictionary' /\ LastImageOnly' /\ AtImage' /\ OfThisRun'
    BY <1>1, <2>1, HostConstants
       DEF Inv, Collected, OneDictionary, LastImageOnly, AtImage, OfThisRun, Saved
  <2>4. Written'
    BY <1>1, <2>1 DEF Written, WrittenUpTo
  <2>5. AnnotationIsOwn' /\ EveryImageWritten' /\ DiskIsOfOneRun'
    BY <1>1, <2>1 DEF Inv, Path, AnnotationIsOwn, EveryImageWritten, DiskIsOfOneRun,
                      FolderIsOneRun, ResultsAreOneRun, ResultsComplete
  <2> QED BY <2>2, <2>3, <2>4, <2>5 DEF Inv
<1> QED BY <1>2, <1>3

LEMMA CleanResultsInv ==
  ASSUME Inv, CleanResults
  PROVE  Inv'
<1>1. /\ pc = "results" /\ pc' \in {"results", "load"} /\ script = "modelsdk" /\ outcome = "none"
      /\ UNCHANGED <<script, run, evaluate, it, heap, samples, pictures, pred, folder, calibrated,
                     outcome, unwritten>>
  BY DEF Inv, Path, CleanResults, runVars, loopVars
<1>2. /\ results' \in [ResultFiles -> Nat]
      /\ \A f \in ResultFiles : results'[f] \in {results[f], Absent}
      /\ pc' = "load" => \A f \in ResultFiles : results'[f] = Absent
  BY <1>1 DEF Inv, TypeOK, CleanResults, Absent
<1>3. TypeOK' /\ Path' /\ Fresh' /\ Collected' /\ OneDictionary'
  BY <1>1, <1>2 DEF Inv, TypeOK, Path, Fresh, Collected, OneDictionary, Places
<1>4. LastImageOnly'
  BY <1>1, <1>2 DEF Inv, LastImageOnly, ResultFiles
<1>5. AtImage' /\ Written' /\ OfThisRun' /\ AnnotationIsOwn' /\ EveryImageWritten'
  BY <1>1, <1>2 DEF Inv, AtImage, Written, OfThisRun, Saved, AnnotationIsOwn, EveryImageWritten
<1>6. DiskIsOfOneRun'
  BY <1>1, <1>2 DEF Inv, DiskIsOfOneRun, FolderIsOneRun, ResultsAreOneRun, ResultsComplete
<1> QED BY <1>3, <1>4, <1>5, <1>6 DEF Inv

LEMMA LoadModelInv ==
  ASSUME Inv, LoadModel
  PROVE  Inv'
<1>1. /\ pc' = CASE script = "onnx" -> "next"
                 [] script = "modelsdk" -> "prep"
                 [] script = "accel" -> "collect"
      /\ heap' = IF script = "modelsdk" THEN <<NoImage>> ELSE heap
      /\ pc = "load" /\ script \in Scripts /\ script' = script /\ it' = 0 /\ it = 0
      /\ UNCHANGED <<run, evaluate, i, samples, pictures, pred, folder, results, calibrated,
                     outcome, unwritten>>
  BY DEF Inv, TypeOK, Fresh, LoadModel, runVars, fsVars
<1>2. heap = <<>> /\ samples = <<>> /\ pictures = <<>> /\ unwritten = {}
      /\ (script # "modelsdk" => folder[script] = {})
  BY <1>1 DEF Inv, Fresh, Written
<1>3. TypeOK' /\ Path' /\ Fresh'
  BY <1>1 DEF Inv, TypeOK, Path, Fresh, Places, Scripts
<1>4. Collected' /\ OneDictionary' /\ LastImageOnly'
  BY <1>1, <1>2, EmptyLists, HostConstants
     DEF Inv, Collected, OneDictionary, LastImageOnly, Scripts, NoImage
<1>5. AtImage' /\ Written' /\ OfThisRun'
  BY <1>1, <1>2, HostConstants DEF Inv, AtImage, Written, WrittenUpTo, OfThisRun, Saved,
         Scripts
<1>6. AnnotationIsOwn' /\ EveryImageWritten' /\ DiskIsOfOneRun'
  BY <1>1 DEF Inv, Path, AnnotationIsOwn, EveryImageWritten, DiskIsOfOneRun, FolderIsOneRun,
         ResultsAreOneRun, ResultsComplete
<1> QED BY <1>3, <1>4, <1>5, <1>6 DEF Inv

(* Every turn stores its image in the same dictionary.                     *)
LEMMA DataPrepInv ==
  ASSUME Inv, DataPrep
  PROVE  Inv'
<1>1. /\ pc = "prep" /\ pc' = "prep" /\ it < NCalib /\ it' = it + 1 /\ script = "modelsdk"
      /\ UNCHANGED <<script, run, evaluate, pictures, pred, folder, results, calibrated,
                     outcome, unwritten>>
  BY DEF Inv, Path, DataPrep, runVars, fsVars
<1>2. heap' = <<it'>> /\ samples' = [j \in 1 .. it' |-> 1]
  <2>1. heap = <<it>> /\ samples = [j \in 1 .. it |-> 1] /\ it \in Nat
    BY <1>1 DEF Inv, TypeOK, OneDictionary
  <2>2. heap' = <<it + 1>>
    BY <2>1 DEF DataPrep
  <2>3. samples' = [j \in 1 .. it + 1 |-> 1]
    BY <2>1, OnesGrow DEF DataPrep
  <2> QED BY <1>1, <2>2, <2>3
<1>3. TypeOK' /\ Path' /\ Fresh' /\ Collected'
  BY <1>1 DEF Inv, TypeOK, Path, Fresh, Collected
<1>4. OneDictionary' /\ LastImageOnly'
  BY <1>1, <1>2, HostConstants DEF Inv, TypeOK, OneDictionary, LastImageOnly
<1>5. AtImage' /\ Written' /\ OfThisRun' /\ AnnotationIsOwn' /\ EveryImageWritten'
      /\ DiskIsOfOneRun'
  BY <1>1 DEF Inv, Path, AtImage, Written, OfThisRun, Saved, AnnotationIsOwn,
         EveryImageWritten, DiskIsOfOneRun, FolderIsOneRun, ResultsAreOneRun,
         ResultsComplete
<1> QED BY <1>3, <1>4, <1>5 DEF Inv

(* So quantize() sees nothing but the last image.                          *)
LEMMA QuantizeInv ==
  ASSUME Inv, Quantize
  PROVE  Inv'
<1>1. /\ pc = "prep" /\ pc' \in {"clean", "compile"} /\ (pc' = "compile" => ~evaluate)
      /\ it = NCalib /\ script = "modelsdk"
      /\ UNCHANGED <<script, run, evaluate, it, i, heap, samples, pictures, pred, folder,
                     outcome, unwritten>>
  BY DEF Inv, Path, Quantize, runVars, loopVars
<1>saved. /\ results' \in [ResultFiles -> Nat] /\ results'["model"] = run
      /\ \A f \in ResultFiles : results'[f] \in {Absent, run}
  <2>1. /\ \A f \in ResultFiles : results[f] = Absent
        /\ results \in [ResultFiles -> Nat] /\ run \in Nat
    BY <1>1 DEF Inv, TypeOK, OfThisRun
  <2>2. results' = [results EXCEPT !["model"] = run]
    BY DEF Quantize
  <2> QED BY <2>1, <2>2 DEF ResultFiles
<1>2. calibrated' = IF NCalib = 0 THEN {} ELSE {NCalib}
  <2>1. heap = <<NCalib>> /\ samples = [j \in 1 .. NCalib |-> 1]
    BY <1>1 DEF Inv, OneDictionary
  <2>2. calibrated' = {heap[samples[k]] : k \in 1 .. NCalib}
    BY <2>1 DEF Quantize
  <2>3. \A k \in 1 .. NCalib : heap[samples[k]] = NCalib
    BY <2>1
  <2>4. CASE NCalib = 0
    BY <2>2, <2>4
  <2>5. CASE NCalib # 0
    <3>1. 1 \in 1 .. NCalib
      BY <2>5, HostConstants
    <3> QED BY <2>2, <2>3, <2>5, <3>1
  <2> QED BY <2>4, <2>5
<1>3. TypeOK' /\ Path' /\ Fresh' /\ Collected' /\ OneDictionary' /\ LastImageOnly'
  BY <1>saved, <1>1, <1>2
     DEF Inv, TypeOK, Path, Fresh, Collected, OneDictionary, LastImageOnly, Places
<1>4. AtImage' /\ Written' /\ OfThisRun' /\ AnnotationIsOwn' /\ EveryImageWritten'
  BY <1>saved, <1>1 DEF Inv, Path, AtImage, Written, OfThisRun, Saved, AnnotationIsOwn,
         EveryImageWritten
<1>5. DiskIsOfOneRun'
  BY <1>saved, <1>1 DEF Inv, Path, OfThisRun, Saved, DiskIsOfOneRun, FolderIsOneRun, ResultsAreOneRun,
         ResultsComplete
<1> QED BY <1>3, <1>4, <1>5 DEF Inv

LEMMA CollectTestInv ==
  ASSUME Inv, CollectTest
  PROVE  Inv'
<1>1. /\ pc = "collect" /\ pc' = "collect" /\ it < NTest /\ it' = it + 1 /\ script = "accel"
      /\ UNCHANGED <<script, run, evaluate, pred, folder, results, calibrated,
                     outcome, unwritten>>
  BY DEF Inv, Path, CollectTest, runVars, fsVars
<1>2. heap' = UpTo(it') /\ samples' = UpTo(it') /\ pictures' = UpTo(it')
  BY <1>1, UpToGrows DEF Inv, TypeOK, Collected, CollectTest
<1>3. TypeOK' /\ Path' /\ Fresh'
  BY <1>1 DEF Inv, TypeOK, Path, Fresh
<1>4. Collected' /\ OneDictionary' /\ LastImageOnly'
  BY <1>1, <1>2, HostConstants DEF Inv, TypeOK, Collected, OneDictionary, LastImageOnly
<1>5. AtImage' /\ Written' /\ OfThisRun' /\ AnnotationIsOwn' /\ EveryImageWritten'
      /\ DiskIsOfOneRun'
  BY <1>1 DEF Inv, Path, AtImage, Written, OfThisRun, Saved, AnnotationIsOwn,
         EveryImageWritten, DiskIsOfOneRun, FolderIsOneRun, ResultsAreOneRun,
         ResultsComplete
<1> QED BY <1>3, <1>4, <1>5 DEF Inv

LEMMA ExecuteOnBoardInv ==
  ASSUME Inv, ExecuteOnBoard
  PROVE  Inv'
<1>1. /\ pc = "collect" /\ pc' = "next" /\ it = NTest /\ it' = 0 /\ script = "accel"
      /\ UNCHANGED <<script, run, evaluate, i, heap, samples, pictures, folder, results,
                     calibrated, outcome, unwritten>>
  BY DEF Inv, Path, ExecuteOnBoard, runVars, fsVars
<1>2. pictures' = UpTo(NTest) /\ pred' = UpTo(NTest)
  BY <1>1 DEF Inv, Collected, ExecuteOnBoard, UpTo
<1>3. TypeOK' /\ Path' /\ Fresh' /\ Collected' /\ OneDictionary' /\ LastImageOnly'
  BY <1>1, <1>2 DEF Inv, TypeOK, Path, Fresh, Collected, OneDictionary, LastImageOnly, Places
<1>4. AtImage' /\ OfThisRun' /\ Written'
  BY <1>1, HostConstants DEF Inv, AtImage, Written, WrittenUpTo, OfThisRun, Saved
<1>5. AnnotationIsOwn' /\ EveryImageWritten' /\ DiskIsOfOneRun'
  BY <1>1 DEF Inv, Path, AnnotationIsOwn, EveryImageWritten, DiskIsOfOneRun, FolderIsOneRun,
         ResultsAreOneRun, ResultsComplete
<1> QED BY <1>3, <1>4, <1>5 DEF Inv

(* Name, picture and outputs of the same image, in whatever script.        *)
LEMMA NextImageInv ==
  ASSUME Inv, NextImage
  PROVE  Inv'
<1>1. /\ pc = "next" /\ pc' = "draw" /\ it < NTest /\ it \in Nat /\ it' = it + 1 /\ file' = it + 1
      /\ UNCHANGED <<script, run, evaluate, heap, samples, pictures, pred, folder, results,
                     calibrated, outcome, unwritten>>
  BY DEF Inv, TypeOK, NextImage, runVars, fsVars
<1>2. picture' = it + 1 /\ outputOf' = it + 1
  <2>1. script = "accel" => pictures[it + 1] = it + 1 /\ pred[it + 1] = it + 1
    BY <1>1, HostConstants DEF Inv, Collected, UpTo
  <2> QED BY <2>1 DEF NextImage
<1>3. TypeOK' /\ Path' /\ Fresh' /\ Collected' /\ OneDictionary' /\ LastImageOnly'
  BY <1>1 DEF Inv, TypeOK, Path, Fresh, Collected, OneDictionary, LastImageOnly, Places
<1>4. AtImage'
  BY <1>1, <1>2, HostConstants DEF AtImage
<1>5. OfThisRun' /\ AnnotationIsOwn' /\ EveryImageWritten' /\ DiskIsOfOneRun'
  BY <1>1 DEF Inv, Path, OfThisRun, Saved, AnnotationIsOwn, EveryImageWritten,
         DiskIsOfOneRun, FolderIsOneRun, ResultsAreOneRun, ResultsComplete
<1>6. Written'
  <2>1. it' - 1 = it
    BY <1>1
  <2> QED BY <1>1, <2>1 DEF Inv, Written, WrittenUpTo
<1> QED BY <1>3, <1>4, <1>5, <1>6 DEF Inv

LEMMA SuppressInv ==
  ASSUME Inv, Suppress
  PROVE  Inv'
BY DEF Suppress, hostVars, Inv, TypeOK, Path, Fresh, Collected, OneDictionary,
       LastImageOnly, AtImage, Written, WrittenUpTo, OfThisRun, Saved, AnnotationIsOwn,
       EveryImageWritten, DiskIsOfOneRun, FolderIsOneRun, ResultsAreOneRun, ResultsComplete

(* The annotated image takes the place of one with its name.               *)
LEMMA WriteInv ==
  ASSUME Inv, Write
  PROVE  Inv'
<1> DEFINE F == {f \in folder[script] : f.name # file} \cup {Annotation}
<1>1. /\ pc = "draw" /\ pc' = "next" /\ it \in Nat /\ it >= 1 /\ it <= NTest
      /\ UNCHANGED <<script, run, evaluate, it, heap, samples, pictures, pred, results,
                     calibrated, outcome, unwritten>>
  BY DEF Inv, TypeOK, AtImage, Write, runVars
<1>2. /\ DOMAIN folder' = Scripts /\ script \in Scripts /\ folder'[script] = F
      /\ \A s \in Scripts : s # script => folder'[s] = folder[s]
  BY DEF Inv, TypeOK, Write
<1>3. /\ Annotation.name = it /\ Annotation.picture = it /\ Annotation.boxes = it
      /\ Annotation.run = run /\ file = it
  BY <1>1 DEF Inv, AtImage, Annotation
<1>4. TypeOK' /\ Path' /\ Fresh' /\ Collected' /\ OneDictionary' /\ LastImageOnly' /\ AtImage'
  BY <1>1, <1>2 DEF Inv, TypeOK, Path, Fresh, Collected, OneDictionary, LastImageOnly, AtImage,
                    Places
<1>5. Written'
  <2>1. {f.name : f \in folder[script]} = (1 .. it - 1) \ unwritten
        /\ unwritten \subseteq 1 .. it - 1
    BY <1>1 DEF Inv, Written, WrittenUpTo
  <2>2. {f.name : f \in F} = {f.name : f \in folder[script]} \cup {it}
    BY <1>3
  <2>3. ((1 .. it - 1) \ unwritten) \cup {it} = (1 .. it) \ unwritten
        /\ unwritten \subseteq 1 .. it
    BY <1>1, <2>1
  <2> QED BY <1>1, <1>2, <2>1, <2>2, <2>3 DEF Written, WrittenUpTo
<1>6. \A f \in F : f.run = run
  BY <1>1, <1>3 DEF Inv, OfThisRun, Saved
<1>7. OfThisRun' /\ EveryImageWritten' /\ DiskIsOfOneRun'
  BY <1>1, <1>2, <1>6 DEF Inv, Path, OfThisRun, Saved, EveryImageWritten, DiskIsOfOneRun,
         FolderIsOneRun, ResultsAreOneRun, ResultsComplete
<1>8. AnnotationIsOwn'
  BY <1>2, <1>3 DEF Inv, AnnotationIsOwn
<1> QED BY <1>4, <1>5, <1>7, <1>8 DEF Inv

LEMMA WriteFailsInv ==
  ASSUME Inv, WriteFails
  PROVE  Inv'
<1>1. /\ pc = "draw" /\ pc' = "next" /\ it \in Nat /\ it >= 1 /\ it <= NTest /\ file = it
      /\ unwritten' = unwritten \cup {it}
      /\ UNCHANGED <<script, run, evaluate, it, heap, samples, pictures, pred, folder, results,
                     calibrated, outcome>>
  BY DEF Inv, TypeOK, AtImage, WriteFails, runVars, fsVars
<1>2. TypeOK' /\ Path' /\ Fresh' /\ Collected' /\ OneDictionary' /\ LastImageOnly' /\ AtImage'
  BY <1>1 DEF Inv, TypeOK, Path, Fresh, Collected, OneDictionary, LastImageOnly, AtImage, Places
<1>3. Written'
  <2>1. {f.name : f \in folder[script]} = (1 .. it - 1) \ unwritten
        /\ unwritten \subseteq 1 .. it - 1
    BY <1>1 DEF Inv, Written, WrittenUpTo
  <2>2. (1 .. it - 1) \ unwritten = (1 .. it) \ (unwritten \cup {it})
        /\ unwritten \cup {it} \subseteq 1 .. it
    BY <1>1, <2>1
  <2> QED BY <1>1, <2>1, <2>2 DEF Written, WrittenUpTo
<1>4. OfThisRun' /\ AnnotationIsOwn' /\ EveryImageWritten' /\ DiskIsOfOneRun'
  BY <1>1 DEF Inv, Path, OfThisRun, Saved, AnnotationIsOwn, EveryImageWritten,
         DiskIsOfOneRun, FolderIsOneRun, ResultsAreOneRun, ResultsComplete
<1> QED BY <1>2, <1>3, <1>4 DEF Inv

LEMMA EndOfImagesInv ==
  ASSUME Inv, EndOfImages
  PROVE  Inv'
<1>1. /\ pc = "next" /\ it = NTest
      /\ pc' = IF script = "modelsdk" THEN "compile" ELSE "idle"
      /\ outcome' = IF script = "modelsdk" THEN outcome ELSE "ok"
      /\ UNCHANGED <<script, run, evaluate, it, heap, samples, pictures, pred, folder, results,
                     calibrated, unwritten>>
  BY HostConstants DEF Inv, TypeOK, AtImage, EndOfImages, runVars, loopVars, fsVars
<1>2. WrittenUpTo(NTest)'
  BY <1>1 DEF Inv, Written, WrittenUpTo
<1>3. TypeOK' /\ Path' /\ Fresh' /\ Collected' /\ OneDictionary' /\ LastImageOnly' /\ AtImage'
  BY <1>1 DEF Inv, TypeOK, Path, Fresh, Collected, OneDictionary, LastImageOnly, AtImage, Places
<1>4. Written' /\ EveryImageWritten'
  BY <1>1, <1>2 DEF Inv, Path, Written, WrittenUpTo, EveryImageWritten
<1>5. OfThisRun' /\ AnnotationIsOwn' /\ DiskIsOfOneRun'
  BY <1>1 DEF Inv, OfThisRun, Saved, AnnotationIsOwn, DiskIsOfOneRun, FolderIsOneRun,
         ResultsAreOneRun, ResultsComplete
<1> QED BY <1>3, <1>4, <1>5 DEF Inv

LEMMA CompileInv ==
  ASSUME Inv, Compile \/ ExtractJson \/ ExtractElf
  PROVE  Inv'
<1>1. /\ pc \in {"compile", "extractJson", "extractElf"} /\ script = "modelsdk" /\ run \in Nat
      /\ UNCHANGED <<script, run, evaluate, it, heap, samples, pictures, pred, folder, calibrated,
                     unwritten>>
  BY DEF Inv, TypeOK, Path, Compile, ExtractJson, ExtractElf, runVars, loopVars
<1>2. /\ \/ pc = "compile" /\ pc' = "extractJson" /\ outcome' = outcome
         \/ pc = "extractJson" /\ pc' = "extractElf" /\ outcome' = outcome
         \/ pc = "extractElf" /\ pc' = "idle" /\ outcome' = "ok"
  BY DEF Compile, ExtractJson, ExtractElf
<1>3. /\ results["model"] = run /\ \A f \in ResultFiles : results[f] \in {Absent, run}
      /\ pc # "compile" => results["archive"] = run
      /\ pc = "extractElf" => results["json"] = run
  BY <1>1 DEF Inv, OfThisRun, Saved
<1>4. results' = [results EXCEPT ![CASE pc = "compile" -> "archive"
                                     [] pc = "extractJson" -> "json"
                                     [] pc = "extractElf" -> "elf"] = run]
  BY <1>1, <1>3 DEF Compile, ExtractJson, ExtractElf
<1>5. /\ results' \in [ResultFiles -> Nat] /\ results'["model"] = run
      /\ \A f \in ResultFiles : results'[f] \in {Absent, run}
      /\ results'["archive"] = run
      /\ pc # "compile" => results'["json"] = run
      /\ pc = "extractElf" => \A f \in ResultFiles : results'[f] = run
  BY <1>1, <1>3, <1>4 DEF Inv, TypeOK, ResultFiles
<1>6. TypeOK' /\ Path' /\ Fresh' /\ Collected' /\ OneDictionary' /\ AtImage'
  BY <1>1, <1>2, <1>5 DEF Inv, TypeOK, Path, Fresh, Collected, OneDictionary, AtImage, Places
<1>7. LastImageOnly'
  BY <1>1, <1>3, <1>5 DEF Inv, Path, LastImageOnly, OfThisRun, ResultFiles
<1>8. Written' /\ EveryImageWritten'
  BY <1>1, <1>2 DEF Inv, Written, WrittenUpTo, EveryImageWritten
<1>9. OfThisRun' /\ AnnotationIsOwn'
  BY <1>1, <1>2, <1>5 DEF Inv, OfThisRun, Saved, AnnotationIsOwn
<1>10. DiskIsOfOneRun'
  BY <1>1, <1>2, <1>5 DEF Inv, Path, DiskIsOfOneRun, FolderIsOneRun, ResultsAreOneRun, ResultsComplete
<1> QED BY <1>6, <1>7, <1>8, <1>9, <1>10 DEF Inv

LEMMA EndsEarlyInv ==
  ASSUME Inv, EndsEarly
  PROVE  Inv'
<1>1. /\ pc' = "idle" /\ outcome' = "failed"
      /\ UNCHANGED <<script, run, evaluate, it, heap, samples, pictures, pred, folder, results,
                     calibrated, unwritten>>
  BY DEF EndsEarly, runVars, loopVars, fsVars
<1>2. TypeOK' /\ Path' /\ Fresh' /\ Collected' /\ OneDictionary' /\ LastImageOnly' /\ AtImage'
  BY <1>1 DEF Inv, TypeOK, Path, Fresh, Collected, OneDictionary, LastImageOnly, AtImage, Places
<1>3. Written' /\ OfThisRun' /\ AnnotationIsOwn' /\ EveryImageWritten' /\ DiskIsOfOneRun'
  BY <1>1 DEF Inv, Written, OfThisRun, Saved, AnnotationIsOwn, EveryImageWritten,
         DiskIsOfOneRun, FolderIsOneRun, ResultsAreOneRun, ResultsComplete
<1> QED BY <1>2, <1>3 DEF Inv

LEMMA StutterInv ==
  ASSUME Inv, UNCHANGED vars
  PROVE  Inv'
BY DEF vars, hostVars, Inv, TypeOK, Path, Fresh, Collected, OneDictionary, LastImageOnly,
       AtImage, Written, WrittenUpTo, OfThisRun, Saved, AnnotationIsOwn, EveryImageWritten,
       DiskIsOfOneRun, FolderIsOneRun, ResultsAreOneRun, ResultsComplete

-----------------------------------------------------------------------------
(* The inductive invariant of the scripts.                                 *)
THEOREM InvHolds == Spec => []Inv
<1>1. Inv /\ [Next]_vars => Inv'
  BY StartInv, CleanFolderInv, CleanResultsInv, LoadModelInv, DataPrepInv, QuantizeInv,
     CollectTestInv, ExecuteOnBoardInv, NextImageInv, SuppressInv, WriteInv, WriteFailsInv,
     EndOfImagesInv, CompileInv, EndsEarlyInv, StutterInv DEF Next, Loop
<1> QED BY InitInv, <1>1, PTL DEF Spec

(* An annotated image shows its own picture with its own boxes, in each of *)
(* the three scripts.                                                      *)
THEOREM AnnotationsAreOwn == Spec => []AnnotationIsOwn
<1>1. Inv => AnnotationIsOwn
  BY DEF Inv
<1> QED BY <1>1, InvHolds, PTL

(* A script that ended well left every image whose write did not fail.     *)
THEOREM EveryImageIsThere == Spec => []EveryImageWritten
<1>1. Inv => EveryImageWritten
  BY DEF Inv
<1> QED BY <1>1, InvHolds, PTL

(* What is on disk is of one run, wherever runs ended: in the middle of    *)
(* removing what an earlier run left, or of writing its own; and a run of  *)
(* run_modelsdk that ended well left all of its files.                     *)
THEOREM DiskHoldsOneRun == Spec => []DiskIsOfOneRun
<1>1. Inv => DiskIsOfOneRun
  BY DEF Inv
<1> QED BY <1>1, InvHolds, PTL

(* Whatever calib_dir holds, the quantised model was calibrated with its   *)
(* last image alone.                                                       *)
THEOREM CalibrationSeesLastOnly == Spec => []LastImageOnly
<1>1. Inv => LastImageOnly
  BY DEF Inv
<1> QED BY <1>1, InvHolds, PTL
=============================================================================
