\* Reports sent from handler mode (keymap_hid); any host, any cable.
CONSTANTS
  ReportContext = "isr"
  DescriptorLength <- MCDescriptorLength
  Requests <- FewRequests
  PatientHost = FALSE
  QuietCable = FALSE
SPECIFICATION Spec
INVARIANTS TypeOK TransferOwned SingleTransfer DmaHoldsLock PullupNeedsAll ConfiguredHasEndpoint
PROPERTIES PortSpec
