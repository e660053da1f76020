---------------------------- MODULE UsbDescriptors ----------------------------
(* The descriptors of src/protocol/usb_descriptors.c and the HID report    *)
(* descriptor of src/protocol/usb_hid.c as the bytes the host reads, the   *)
(* callbacks that produce them, and a host's reading of them.  A string is *)
(* abstract: its characters stand for themselves.                          *)
EXTENDS Integers, SequencesExt

CONSTANTS
  StringLength,  \* the characters of string_descriptors[1..4]
  BufferSize     \* the bytes of _string_descriptor

ASSUME DescriptorsAssumption ==
  /\ StringLength \in [1..4 -> Nat]
  /\ BufferSize \in Nat /\ BufferSize >= 66    \* what the loop may write

U16(n) == <<n % 256, n \div 256>>      \* a little-endian field of a packed struct

device_desc ==
  <<18, 1>> \o U16(512) \o <<0, 0, 0, 64>> \o U16(65261) \o U16(3) \o U16(1)
  \o <<1, 2, 3, 1>>

\* wTotalLength is left zero for USBD_DESC_CombineDescriptors.
configuration0_desc == <<9, 2>> \o U16(0) \o <<1, 1, 4, 160, 50>>
interface_desc == <<9, 4, 0, 0, 1, 3, 0, 0, 0>>
hid_desc == <<9, 33, 17, 1, 0, 1, 34>> \o U16(95)
endpoint_desc == <<7, 5, 129, 3>> \o U16(22) \o <<10>>

configuration0_desc_list == <<configuration0_desc, interface_desc, hid_desc, endpoint_desc>>

\* memcpy one after the other, then the total at offset 2.
USBD_DESC_CombineDescriptors(list) ==
  LET combined == FlattenSeq(list)
  IN  SubSeq(combined, 1, 2) \o U16(Len(combined)) \o SubSeq(combined, 5, Len(combined))

-----------------------------------------------------------------------------
(* The string descriptors: one static buffer for all of them.              *)

LangId == <<9, 4>>
Character(index, i) == 256 + 32 * index + i   \* told apart from every byte

\* The loop gives up after 32 characters, and then keeps the old bLength.
USBD_DESC_GetString(buffer, index) ==
  IF index = 0 THEN <<4, 3>> \o LangId \o SubSeq(buffer, 5, BufferSize)
  ELSE LET n == StringLength[index]
       IN  [b \in 1..BufferSize |->
              CASE b = 1 /\ n < 32 -> 2 * (n + 1)
                [] b = 2 /\ n < 32 -> 3
                [] b > 2 /\ b <= 2 * (n + 1) /\ b <= 66 ->
                     IF b % 2 = 1 THEN Character(index, (b - 1) \div 2) ELSE 0
                [] OTHER -> buffer[b]]

-----------------------------------------------------------------------------
(* The report descriptor: short items, a tag with one byte of data or with *)
(* none.                                                                   *)

Tag == [UsagePage |-> 4, Usage |-> 8, LogicalMinimum |-> 20, UsageMinimum |-> 24,
        LogicalMaximum |-> 36, UsageMaximum |-> 40, ReportSize |-> 116, Input |-> 128,
        ReportId |-> 132, ReportCount |-> 148, Collection |-> 160]

Item(name, value) == <<Tag[name] + 1, value>>
EndCollection == <<192>>
Range1(first, last) == Item("UsageMinimum", first) \o Item("UsageMaximum", last)
Logical(least, most) == Item("LogicalMinimum", least) \o Item("LogicalMaximum", most)
Fields(size, count, kind) ==
  Item("ReportSize", size) \o Item("ReportCount", count) \o Item("Input", kind)

hid_report_keyboard_desc ==
  Item("UsagePage", 1) \o Item("Usage", 6) \o Item("Collection", 1)
  \o Item("ReportId", 1)
  \o Item("UsagePage", 7) \o Range1(224, 231) \o Logical(0, 1) \o Fields(1, 8, 2)
  \o Fields(8, 1, 1)
  \o Item("UsagePage", 7) \o Range1(0, 255) \o Logical(0, 255) \o Fields(8, 5, 0)
  \o EndCollection

hid_report_mouse_desc ==
  Item("UsagePage", 1) \o Item("Usage", 2) \o Item("Collection", 1)
  \o Item("ReportId", 2) \o Item("Usage", 1) \o Item("Collection", 0)
  \o Item("UsagePage", 9) \o Range1(1, 8) \o Logical(0, 1)
  \o Item("ReportCount", 3) \o Item("ReportSize", 1) \o Item("Input", 2)
  \o Item("UsagePage", 1) \o Item("Usage", 48) \o Item("Usage", 49) \o Item("Usage", 56)
  \o Logical(255, 1) \o Fields(15, 3, 6)
  \o EndCollection \o EndCollection

hid_report_desc == hid_report_keyboard_desc \o hid_report_mouse_desc

\* sizeof(hid_report_keyboard_t), what usbd_epin_start(1, ...) sends.
KeyboardReportSize == 8

-----------------------------------------------------------------------------
(* The USBD_GetDescriptor callbacks.  A descriptor is named by its type,   *)
(* a string by its index.                                                  *)

StringIndex == [langid |-> 0, manufacturer |-> 1, product |-> 2, serial |-> 3,
                interface_name |-> 4, unknown_string |-> 5]

Descriptors == DOMAIN StringIndex \cup {"device", "configuration", "hid_report", "qualifier"}

\* USBD_DESC_GetString returns early for an index above 4, and the handler
\* has no descriptor for a device qualifier.
Missing == {"unknown_string", "qualifier"}
IsString(d) == d \in DOMAIN StringIndex \ Missing

StringWritten(buffer, d) ==
  IF IsString(d) THEN USBD_DESC_GetString(buffer, StringIndex[d]) ELSE buffer

\* The bytes at *ptr, as many as *length, once the callback has returned.
Descriptor(buffer, d) ==
  CASE d = "device"        -> device_desc
    [] d = "configuration" -> USBD_DESC_CombineDescriptors(configuration0_desc_list)
    [] d = "hid_report"    -> hid_report_desc
    [] IsString(d)         -> SubSeq(buffer, 1, buffer[1])
    [] OTHER               -> <<>>

-----------------------------------------------------------------------------
(* The host's reading.                                                     *)

Word(bytes, at) == bytes[at] + 256 * bytes[at + 1]

\* The descriptors that follow one another, each as long as its bLength says.
Starts(bytes) ==
  LET Follow(starts, at) ==
        IF at \in starts THEN starts \cup {at + bytes[at]} ELSE starts
  IN  FoldLeftDomain(Follow, {1}, bytes)

\* A whole configuration: its parts fill wTotalLength, the interface has the
\* endpoints it announces, and each HID descriptor announces `reports` bytes.
ConfigurationRead(bytes, reports) ==
  LET parts == {s \in Starts(bytes) : s < Len(bytes)}
      Of(type) == {s \in parts : bytes[s + 1] = type}
  IN  /\ Len(bytes) = Word(bytes, 3)
      /\ Len(bytes) + 1 \in Starts(bytes)
      /\ Cardinality(Of(4)) = bytes[5]
      /\ \A i \in Of(4) : Cardinality(Of(5)) = bytes[i + 4]
      /\ \A h \in Of(33) : Word(bytes, h + 7) = reports

\* The bits each report id is declared to have, its own byte included: the
\* global items set what the next Input item adds.
Declared(bytes) ==
  LET Effect(p, b) ==
        CASE p.tag = Tag["ReportSize"]  -> [p EXCEPT !.size = b, !.tag = 0]
          [] p.tag = Tag["ReportCount"] -> [p EXCEPT !.count = b, !.tag = 0]
          [] p.tag = Tag["ReportId"]    -> [p EXCEPT !.id = b, !.bits[b] = @ + 8, !.tag = 0]
          [] p.tag = Tag["Input"] ->
               [p EXCEPT !.bits[p.id] = @ + p.size * p.count, !.tag = 0]
          [] p.tag # 0 -> [p EXCEPT !.tag = 0]
          [] b % 4 = 1 -> [p EXCEPT !.tag = b - 1]
          [] OTHER     -> p
  IN  FoldLeft(Effect, [tag |-> 0, size |-> 0, count |-> 0, id |-> 0,
                        bits |-> [i \in 0..255 |-> 0]], bytes).bits
-----------------------------------------------------------------------------
(* The tables are literals, which no parameter enters: what a host reads of  *)
(* those that take a fold to read is a closed fact, decided by evaluation.   *)
ASSUME TablesAssumption ==
  LET configuration == USBD_DESC_CombineDescriptors(configuration0_desc_list)
  IN  /\ configuration \in Seq(Nat)
      /\ ConfigurationRead(configuration, Len(hid_report_desc))
      /\ Declared(hid_report_desc)[1] = 8 * KeyboardReportSize
=============================================================================
