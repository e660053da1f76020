\* Every kind of action; more keys than report slots; two configurations.
CONSTANTS
  Configs = {0, 1}
  KeyCount = 6
  Config <- MixedConfig
  Sources = {"m0", "m1", "remote"}
  Source <- MixedSource
  LayersLen = 2
  Actions <- MixedActions
  KeySlots = 2
SPECIFICATION Spec
INVARIANTS TypeOK LayersHeld ReportSound ReportComplete TapArmed
PROPERTIES ModifiersKept TapSound TapComplete
