------------------------------ MODULE MCKeymap ------------------------------
(* Instances of Keymap: two configurations with every kind of action, and  *)
(* the layout of examples/keymap_hid.c.                                    *)
EXTENDS Keymap, TLC

KC(code)  == code
LeftShift == 2

\* Configuration 0: a layer tap, a modifier and a mod tap of the same bit, a
\* key that types on both layers, one that types on the upper layer only;
\* configuration 1: a mod tap.
MixedConfig == <<0, 0, 0, 0, 0, 1>>
MixedSource == <<"m0", "m1", "m0", "m1", "m0", "remote">>
MixedActions ==
  0 :> <<LT(1, 10), KC(22), MOD(LeftShift), MT(LeftShift, 4), KC_TRNS, MT(1, 5)>> @@
  1 :> <<KC_TRNS, M(LeftShift, 30), KC_TRNS, KC(9), KC(6), KC_TRNS>>

\* examples/keymap_hid.c:20-44 (and the layout of tests/keymap.c): matrix 0
\* scans the first column, matrix 1 the second.
ExampleConfig == <<0, 0, 0, 0>>
ExampleSource == <<"m0", "m1", "m0", "m1">>
ExampleActions ==
  0 :> <<KC(4), KC(22), LT(1, 7), MOD(LeftShift)>> @@
  1 :> <<KC(9), M(LeftShift, 30), KC_TRNS, KC(8)>>
=============================================================================
