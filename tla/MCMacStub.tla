-------------------------------- MODULE MCMacStub -------------------------------
(* MacStub for TLC: two configurations, an interface whose second setting has *)
(* other endpoints in another order, and one with a single endpoint.          *)
EXTENDS MacStub, TLC

TwoConfigs == 1 :> {0, 1} @@ 2 :> {0}
Owners == 1 :> 0 @@ 2 :> 0 @@ 3 :> 1
TwoSettings ==
  0 :> (0 :> (1 :> 1 @@ 2 :> 0 @@ 3 :> 0) @@ 1 :> (1 :> 2 @@ 2 :> 1 @@ 3 :> 0)) @@
  1 :> (0 :> (1 :> 0 @@ 2 :> 0 @@ 3 :> 1) @@ 1 :> (1 :> 0 @@ 2 :> 0 @@ 3 :> 1))

================================================================================
