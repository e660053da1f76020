\* The layout of examples/keymap_hid.c and tests/keymap.c.
CONSTANTS
  Configs = {0}
  KeyCount = 4
  Config <- ExampleConfig
  Sources = {"m0", "m1"}
  Source <- ExampleSource
  LayersLen = 2
  Actions <- ExampleActions
  KeySlots = 5
SPECIFICATION Spec
PROPERTIES HeldActionKept
