\* The control endpoint and the reports make progress (keymap_hid).
CONSTANTS
  ReportContext = "isr"
  DescriptorLength <- MCDescriptorLength
  Requests <- AllRequests
  PatientHost = TRUE
  QuietCable = TRUE
  StringLength <- MCStringLength
  BufferSize = 66
SPECIFICATION EnumerationFairSpec
INVARIANTS CableTracked DataStageExact DescriptorsTrue
PROPERTIES ReportFinishes StandardAnswered PluggedComesUp
