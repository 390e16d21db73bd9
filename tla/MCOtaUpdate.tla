------------------------------ MODULE MCOtaUpdate ------------------------------
(***************************************************************************)
(* OtaUpdate for TLC: two images of different lengths.                     *)
(***************************************************************************)
EXTENDS OtaUpdate, TLC

CONSTANTS Short, Long

TwoImages == {Short, Long}
OneImage  == {Long}
TwoNumChunks == (Short :> 1) @@ (Long :> 3)
OneNumChunks == (Long :> 3)
=============================================================================
