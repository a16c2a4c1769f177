--------------------------- MODULE MCDeviceTokens ---------------------------
(* DeviceTokens on small instances; requests, users and devices are         *)
(* interchangeable.                                                         *)
EXTENDS DeviceTokens, TLC

Symmetry ==
  Permutations(Requests) \cup Permutations(Users) \cup Permutations(Devices)
=============================================================================
