-------------------------- MODULE MCWiredKeyboard --------------------------
(* Two of the switches of examples/keymap_hid.c:20-44: the layer tap, in   *)
(* matrix 0, and a key that types on both layers, in matrix 1.             *)
EXTENDS WiredKeyboard, TLC

CONSTANTS SW_PIN_1, SW_PIN_2

MCDirect  == 0 :> <<SW_PIN_1>> @@ 1 :> <<SW_PIN_2>> @@ 2 :> <<>> @@ 3 :> <<>>
MCColsLen == 0 :> 32 @@ 1 :> 32 @@ 2 :> 32 @@ 3 :> 32
MCSource  == <<0, 1>>
MCBit     == <<1, 1>>
\* LT(1, 7) and KC(22); KC_TRNS and M(LeftShift, 30).
MCActions == 0 :> <<8455, 22>> @@ 1 :> <<0, 16926>>
=============================================================================
