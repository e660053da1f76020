---------------------------- MODULE UsbEnumeration ----------------------------
(* Enumeration: the control endpoint of Usbd with the descriptors of       *)
(* UsbDescriptors behind its callbacks, and the bytes the host collects.   *)
EXTENDS Usbd, UsbDescriptors

VARIABLES
  string,  \* _string_descriptor, one buffer for every string
  data     \* the bytes of the data stage the host has read

enumerationVars == <<vars, string, data>>

Lengths == [d \in Descriptors |->
              Len(Descriptor(StringWritten([b \in 1..BufferSize |-> 0], d), d))]

ASSUME EnumerationAssumption == DescriptorLength = Lengths

EnumerationInit ==
  /\ Init
  /\ string = [b \in 1..BufferSize |-> 0]
  /\ data = <<>>

\* Every packet taken from the start of the descriptor.
PacketFaulty == SubSeq(Descriptor(string, setup.descriptor), 1, PacketSize)

\* usbd_epin_start(0, ptr + bytes_sent, packet_size): the EasyDMA reads the
\* static buffer as it is when the packet goes.
Packet == SubSeq(Descriptor(string, setup.descriptor),
                 transfer.bytes_sent + 1, transfer.bytes_sent + PacketSize)

Setup(r) == HostSetup(r) /\ data' = <<>> /\ UNCHANGED string

ReadPacket == HostReadsPacket /\ data' = data \o Packet /\ UNCHANGED string

\* The callback that usbd_get_descriptor_handler calls before the transfer.
GetDescriptor ==
  /\ SetupDescriptor
  /\ string' = StringWritten(string, setup.descriptor)
  /\ UNCHANGED data

Elsewhere ==
  /\ \/ Plug \/ Unplug \/ RegulatorSettles \/ PeripheralReady
     \/ HostReset \/ HostSuspend \/ ReportCopied
     \/ PowerIrq \/ POWER_CLOCK_IRQHandler
     \/ UsbdIrq \/ UsbEvent
     \/ UsbReset \/ EventAbsent("usbreset", "USBRESET", "ep0setup")
     \/ SetupStatus \/ SetupStall \/ SetupIgnored
     \/ EventAbsent("ep0setup", "EP0SETUP", "endepin1")
     \/ StartEpin0 \/ AwaitDataDone \/ DataStageDone
     \/ EndEpin1
     \/ SendReport \/ usbd_epin_start
  /\ UNCHANGED <<string, data>>

EnumerationNext ==
  (\E r \in Requests : Setup(r)) \/ ReadPacket \/ GetDescriptor \/ Elsewhere

EnumerationSpec == EnumerationInit /\ [][EnumerationNext]_enumerationVars

EnumerationFairSpec == EnumerationSpec /\ Fairness

-----------------------------------------------------------------------------

Whole(d) == ep0 = "status" /\ setup.type = "standard" /\ setup.request = "get_descriptor"
            /\ setup.descriptor = d /\ setup.wLength > DescriptorLength[d]

\* A host that has read what a descriptor announces of itself has read all
\* of it and nothing but it: the device and configuration descriptors are as
\* long as they say, the configuration's parts are where their lengths put
\* them and announce the report descriptor's true length, a string is its
\* own characters whatever string was asked for before, and the keyboard
\* report has the bits that are then sent (usb_descriptors.c:47-243, usb_hid.c:96-164).
DescriptorsTrue ==
  /\ Whole("device") => Len(data) = data[1] /\ data[8] = 64
  /\ Whole("configuration") => ConfigurationRead(data, DescriptorLength["hid_report"])
  /\ Whole("hid_report") => Declared(data)[1] = 8 * KeyboardReportSize
  /\ Whole("langid") => data = <<4, 3>> \o LangId
  /\ \A d \in {"manufacturer", "product", "serial", "interface_name"} :
       Whole(d) => /\ Len(data) = data[1] /\ data[2] = 3
                   /\ Len(data) = 2 * (StringLength[StringIndex[d]] + 1)
                   /\ \A i \in 1..StringLength[StringIndex[d]] :
                        Word(data, 2 * i + 1) = Character(StringIndex[d], i)
=============================================================================
