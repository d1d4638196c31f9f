----------------------------- MODULE MCLinuxHotplug -----------------------------
EXTENDS LinuxHotplug, TLC
CONSTANTS d1, d2
\* One port for both devices, one after the other, or a port for each.
OneOrTwoPorts == {d1 :> 1 @@ d2 :> 1, d1 :> 1 @@ d2 :> 2}
================================================================================
