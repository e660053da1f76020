SPECIFICATION Spec
CONSTANTS
  Switches <- FewSwitches
  MaxCalls <- FewCalls
INVARIANT InfiniteNeverExpires
CHECK_DEADLOCK FALSE
