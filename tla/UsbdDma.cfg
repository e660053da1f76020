\* The lock does not keep two transfers apart.
CONSTANTS
  ReportContext = "thread"
  DescriptorLength <- MCDescriptorLength
  Requests <- FewRequests
  PatientHost = TRUE
  QuietCable = TRUE
SPECIFICATION Spec
INVARIANTS SingleTransfer
