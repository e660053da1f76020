------------------------------ MODULE MCDongle ------------------------------
(* A dongle that receives releases, a mouse button and a key.              *)
EXTENDS Dongle

MCDescriptorLength == [device |-> 18, hid_report |-> 95]

Request(request, value, wLength) ==
  [type |-> "standard", request |-> request, descriptor |-> "hid_report",
   value |-> value, wLength |-> wLength]
MCRequests == {Request("get_descriptor", 0, 255), Request("set_configuration", 1, 0)}

MCMessages == {{}, {0}, {2}}
=============================================================================
