SPECIFICATION FairSpec
CONSTANTS
  Switches <- FewSwitches
  MaxCalls <- FewCalls
INVARIANTS TypeOK RadioUncontended SleepsApart AckMeansReceived DuplicateNeedsLostAck
PROPERTIES LinkSpec SendReturns LoopListens
CHECK_DEADLOCK FALSE
