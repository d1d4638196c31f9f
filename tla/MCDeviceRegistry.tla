---------------------------- MODULE MCDeviceRegistry ---------------------------
(* DeviceRegistry for TLC: a page, two plugs, ids with and without a serial  *)
(* number.                                                                   *)
EXTENDS DeviceRegistry

CONSTANTS p1, s1, s2, serial, plain

================================================================================
