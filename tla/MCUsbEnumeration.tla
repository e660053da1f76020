-------------------------- MODULE MCUsbEnumeration --------------------------
(* The repository's strings, and the setup packets that reach each branch  *)
(* of the control endpoint.                                                *)
EXTENDS UsbEnumeration

MCStringLength == <<6, 9, 5, 11>>

MCDescriptorLength == Lengths

Request(type, request, descriptor, value, wLength) ==
  [type |-> type, request |-> request, descriptor |-> descriptor,
   value |-> value, wLength |-> wLength]

Get(descriptor, wLength) == Request("standard", "get_descriptor", descriptor, 0, wLength)

\* A short, a truncated, a two-packet, a truncated two-packet and an empty
\* data stage; a string and the shorter
\* language ids in the same buffer; descriptors that do not
\* exist; the other standard requests and one of the class.
AllRequests ==
  {Get("device", 64), Get("configuration", 9), Get("configuration", 255),
   Get("hid_report", 255), Get("hid_report", 65), Get("hid_report", 0),
   Get("langid", 255), Get("product", 255),
   Get("qualifier", 10), Get("unknown_string", 255),
   Request("standard", "set_configuration", "device", 1, 0),
   Request("standard", "set_address", "device", 5, 0),
   Request("standard", "get_interface", "device", 0, 1),
   Request("class", "set_report", "device", 0, 1)}
=============================================================================
