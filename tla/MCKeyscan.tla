----------------------------- MODULE MCKeyscan -----------------------------
(* Two matrices, as in examples/keymap_hid.c, whose only row is not full;  *)
(* the ids between and after them are unused.                              *)
EXTENDS Keyscan, TLC

CONSTANTS p1, p2, p3

MCDirect  == 0 :> <<p1, p2>> @@ 1 :> <<>> @@ 2 :> <<p3>> @@ 3 :> <<>>
MCColsLen == 0 :> 32 @@ 1 :> 32 @@ 2 :> 2 @@ 3 :> 32
=============================================================================
