----------------------------- MODULE Detection -----------------------------
(***************************************************************************)
(* How the outputs of YOLOX become boxes (src/utils.py, and payload.py,    *)
(* which repeats it): get_model_outputs flattens the three output maps,    *)
(* demo_postprocess gives every row the cell and the stride it takes from  *)
(* its position, multiclass_nms filters and sorts the rows and nms() keeps *)
(* the best box and drops what it overlaps, until no row is left.          *)
(*                                                                         *)
(* Abstractions: of the rows, only those of the cells in Hot may score     *)
(* above 0; a score is that of the row's best class, in steps; offsets     *)
(* and sizes are whole numbers of cells (the size after exp()).  argsort   *)
(* is not stable: rows of equal score come in any order.                   *)
(***************************************************************************)
EXTENDS Integers, FiniteSets

CONSTANTS
  ImgH, ImgW,   (* size of the network's input                              *)
  Hot,          (* cells <<level, row, column>> whose rows may score        *)
  Raw,          (* their outputs: offsets dx, dy and sizes w, h             *)
  MaxScore,     (* scores are 0..MaxScore                                   *)
  ScoreThr      (* score_thr                                                *)

Strides == <<8, 16, 32>>
Levels  == DOMAIN Strides
RowsOf(l) == ImgH \div Strides[l]
ColsOf(l) == ImgW \div Strides[l]
Cells == UNION { {l} \X (0 .. RowsOf(l) - 1) \X (0 .. ColsOf(l) - 1) : l \in Levels }

ASSUME DetectionConstants ==
  /\ ImgH \in Nat /\ ImgW \in Nat /\ MaxScore \in Nat /\ ScoreThr \in Nat
  /\ IsFiniteSet(Hot)

ASSUME HotCells ==
  /\ Hot \subseteq Cells
  /\ Raw \in [Hot -> [dx : Int, dy : Int, w : Nat, h : Nat]]

-----------------------------------------------------------------------------
(* get_model_outputs: the maps, row by row, one behind the other.          *)
SizeOf(l)   == RowsOf(l) * ColsOf(l)
Offset(l)   == IF l = 1 THEN 0 ELSE IF l = 2 THEN SizeOf(1) ELSE SizeOf(1) + SizeOf(2)
RowIndex(c) == Offset(c[1]) + c[2] * ColsOf(c[1]) + c[3]

(* demo_postprocess: level, cell and stride of a row, from its position.   *)
LevelAt(n) == CHOOSE l \in Levels : Offset(l) <= n /\ n < Offset(l) + SizeOf(l)

(* Faulty variant: meshgrid indexed the other way round.                   *)
GridTransposed(n) == LET l == LevelAt(n) IN
  [x |-> (n - Offset(l)) \div RowsOf(l), y |-> (n - Offset(l)) % RowsOf(l)]

Grid(n) == LET l == LevelAt(n) IN
  [x |-> (n - Offset(l)) % ColsOf(l), y |-> (n - Offset(l)) \div ColsOf(l)]

Decode(n, raw) == LET s == Strides[LevelAt(n)] IN
  [cx |-> (raw.dx + Grid(n).x) * s, cy |-> (raw.dy + Grid(n).y) * s,
   w |-> raw.w * s, h |-> raw.h * s]

(* boxes_xyxy                                                              *)
Box(d) == [x1 |-> d.cx - d.w \div 2, y1 |-> d.cy - d.h \div 2,
           x2 |-> d.cx + d.w \div 2, y2 |-> d.cy + d.h \div 2]
Boxes  == [c \in Hot |-> Box(Decode(RowIndex(c), Raw[c]))]

(* ovr > nms_thr (0.5), with the pixel-inclusive areas of nms().           *)
Larger(a, b)  == IF a < b THEN b ELSE a
Smaller(a, b) == IF a < b THEN a ELSE b
Area(b) == (b.x2 - b.x1 + 1) * (b.y2 - b.y1 + 1)
Inter(a, b) == Larger(0, Smaller(a.x2, b.x2) - Larger(a.x1, b.x1) + 1)
             * Larger(0, Smaller(a.y2, b.y2) - Larger(a.y1, b.y1) + 1)
TooClose(a, b) == 2 * Inter(a, b) > Area(a) + Area(b) - Inter(a, b)
Overlap == {p \in Hot \X Hot : TooClose(Boxes[p[1]], Boxes[p[2]])}

-----------------------------------------------------------------------------
VARIABLES
  score,    (* best class score of each cell of the image                   *)
  left,     (* rows that passed the filter and that `order` still holds     *)
  keep,     (* rows that were kept                                          *)
  phase     (* "idle", or "nms" from multiclass_nms until the boxes are used *)
nmsVars == <<score, left, keep, phase>>

Scores == [Hot -> 0 .. MaxScore]
Passing(sc) == {c \in Hot : sc[c] > ScoreThr}

NmsInit ==
  /\ score = [c \in Hot |-> 0]
  /\ left = {} /\ keep = {} /\ phase = "idle"

(* The network's output is decoded and multiclass_nms filters the rows.    *)
Postprocess ==
  /\ phase = "idle"
  /\ score' \in Scores
  /\ left' = Passing(score') /\ keep' = {}
  /\ phase' = "nms"

(* Faulty variant: argsort()[::-1] without the reversal.                   *)
Worst(S) == {b \in S : \A c \in S : score[b] <= score[c]}

(* order[0]: of the rows left one that no other exceeds; which one of      *)
(* several is up to argsort.                                               *)
Best(S) == {b \in S : \A c \in S : score[b] >= score[c]}

(* Faulty variant: `order` goes on with the boxes above the threshold.     *)
KeepBestInverted ==
  /\ phase = "nms"
  /\ \E b \in Best(left) :
       /\ keep' = keep \cup {b}
       /\ left' = {c \in left \ {b} : <<b, c>> \in Overlap}
  /\ UNCHANGED <<score, phase>>

(* One turn of the loop of nms(): the best row is kept, and `order` goes   *)
(* on with those that do not overlap it.                                   *)
KeepBest ==
  /\ phase = "nms"
  /\ \E b \in Best(left) :
       /\ keep' = keep \cup {b}
       /\ left' = {c \in left \ {b} : <<b, c>> \notin Overlap}
  /\ UNCHANGED <<score, phase>>

(* The caller has drawn the boxes and goes on with the next image, or it   *)
(* ends in the middle.                                                     *)
UseBoxes ==
  /\ phase = "nms"
  /\ score' = [c \in Hot |-> 0]
  /\ left' = {} /\ keep' = {} /\ phase' = "idle"

NmsNext == Postprocess \/ KeepBest \/ UseBoxes
NmsSpec == NmsInit /\ [][NmsNext]_nmsVars

-----------------------------------------------------------------------------
(* demo_postprocess takes a row's cell from its position in the flattened  *)
(* outputs: the box of a cell is centred where that cell is, at its own    *)
(* level's stride, for maps that are not square as well.                   *)
CentredOnCell ==
  \A c \in left \cup keep :
    LET d == Decode(RowIndex(c), Raw[c])
        s == Strides[c[1]] IN
      /\ d.cx = (c[3] + Raw[c].dx) * s
      /\ d.cy = (c[2] + Raw[c].dy) * s

(* Whatever order argsort gives to equal scores, no two boxes that nms()   *)
(* keeps, and none it keeps and one it still holds, overlap by more than   *)
(* the threshold.                                                          *)
KeptApart ==
  \A b \in keep, c \in keep \cup left : b # c => <<b, c>> \notin Overlap

(* nms() never loses an object: a row that passed the score filter and is  *)
(* neither kept nor waiting overlaps a kept box of at least its score.     *)
SuppressedByBetter ==
  phase = "nms" =>
    \A c \in Passing(score) \ (keep \cup left) :
      \E b \in keep : <<b, c>> \in Overlap /\ score[b] >= score[c]
=============================================================================
