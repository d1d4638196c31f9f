------------------------------ MODULE MCWindowsStub -----------------------------
(* WindowsStub for TLC: interface 0 stands alone, 1 and 2 are associated.    *)
EXTENDS WindowsStub, TLC

Composite == 0 :> 0 @@ 1 :> 1 @@ 2 :> 1

================================================================================
