----------------------------- MODULE MCHostEval -----------------------------
(* A network input of 32 x 64, with maps of 4 x 8, 2 x 4 and 1 x 2 cells,   *)
(* and four cells: neighbours on the first map whose boxes chain (the ends  *)
(* do not overlap) and one on the second map.                               *)
EXTENDS HostEval

HotChain == {<<1, 0, 1>>, <<1, 0, 2>>, <<1, 0, 3>>, <<2, 1, 3>>}
Outputs  == [c \in Hot |-> [dx |-> IF c[1] = 2 THEN 0 - 1 ELSE 0, dy |-> 0,
                            w |-> IF c[1] = 2 THEN 2 ELSE 4, h |-> 2]]
=============================================================================
