--------------------------- MODULE MCGatewaySession ---------------------------
(* Instances of GatewaySession for TLC. *)
EXTENDS GatewaySession

\* Every configuration of every gateway.
Any == [Gateways -> Settings]

\* As compose and Kubernetes configure them: an id derived from an instance id.
AsDeployed == [Gateways -> [explicit : {Unset}, prefix : {"portable"},
                            instance : Instances, shared : {TRUE}]]

\* Derived ids or explicit ones, shared or not.
Identified == [Gateways -> [explicit : Explicit \cup {Unset}, prefix : {"portable"},
                            instance : Instances, shared : {TRUE}]]
=============================================================================
