------------------------------- MODULE MCBroker --------------------------------
EXTENDS Broker, TLC
CONSTANTS p1, p2
TwoPages == {p1, p2}
PageSymmetry == Permutations(Pages)
OneConfig == 1 :> {0}
TwoConfigs == (1 :> {0}) @@ (2 :> {0,1})
================================================================================
