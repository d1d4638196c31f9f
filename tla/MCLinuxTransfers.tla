---------------------------- MODULE MCLinuxTransfers ---------------------------
(* LinuxTransfers with one device for TLC.                                   *)
EXTENDS LinuxTransfers

CONSTANT d1

================================================================================
