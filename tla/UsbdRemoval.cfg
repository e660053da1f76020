\* The removal handler waits for the code it interrupted.
CONSTANTS
  ReportContext = "thread"
  DescriptorLength <- MCDescriptorLength
  Requests <- FewRequests
  PatientHost = TRUE
  QuietCable = FALSE
SPECIFICATION FairSpec
PROPERTIES RemovalCompletes
