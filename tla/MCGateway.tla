------------------------------ MODULE MCGateway ------------------------------
(* The gateway on small instances.                                          *)
EXTENDS Gateway, TLC

(* No definition tells one request from another.                            *)
Symmetry == Permutations(Requests)

(* Every configuration, and the one that is deployed.                       *)
AnyConfiguration == Settings
DeployedConfiguration ==
    {[apiKey |-> TRUE, paidImages |-> FALSE, testControls |-> FALSE]}

(* The same, with images paid for when their quota is exhausted.            *)
PayingConfiguration ==
    {[apiKey |-> TRUE, paidImages |-> TRUE, testControls |-> FALSE]}
=============================================================================
