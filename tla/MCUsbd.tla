------------------------------- MODULE MCUsbd -------------------------------
(* Instances of Usbd whose question is not the control endpoint: the       *)
(* lengths of the repository's descriptors and a few setup packets.        *)
EXTENDS Usbd

MCDescriptorLength ==
  [device |-> 18, configuration |-> 34, hid_report |-> 95, qualifier |-> 0]

Request(type, request, descriptor, value, wLength) ==
  [type |-> type, request |-> request, descriptor |-> descriptor,
   value |-> value, wLength |-> wLength]

\* One that occupies the EasyDMA for two packets, and one each that ends with
\* a status stage, with a stall and with no answer.
FewRequests ==
  {Request("standard", "get_descriptor", "hid_report", 0, 255),
   Request("standard", "set_configuration", "device", 1, 0),
   Request("standard", "get_interface", "device", 0, 1),
   Request("class", "set_report", "device", 0, 1)}
=============================================================================
