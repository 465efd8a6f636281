------------------------------ MODULE MCDataPath ------------------------------
(* Instances of DataPath.  1x1x1 stands for the 16x16x1 of an effect       *)
(* without a layout.  3x3x3, and the 3x3x1 a 2D effect takes of it, have   *)
(* so many pixels that their number, and that of their bytes, wraps at 8.  *)
(* 1x2x2 has the width of the default, and a depth for the 3D effect only. *)
EXTENDS DataPath, TLC

OwnShape == {<<1, 1, 1>>, <<3, 3, 3>>}
KeepShape == {<<1, 1, 1>>, <<1, 2, 2>>}
AnyAddr == Permutations(Addr)
MCDefaultShape == <<1, 1, 1>>
=============================================================================
