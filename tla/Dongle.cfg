\* Reports sent from the main loop (radio_arq_hid), which interrupts preempt.
CONSTANTS
  ReportContext = "thread"
  DescriptorLength <- MCDescriptorLength
  Requests <- MCRequests
  PatientHost = FALSE
  QuietCable = TRUE
  Messages <- MCMessages
SPECIFICATION DongleFairSpec
INVARIANTS DongleSound
PROPERTIES PortSpec LoopReturns
