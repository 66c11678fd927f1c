---------------------------- MODULE MCDiameterPeers ----------------------------
(* Capabilities and requests for checking DiameterPeers with TLC: a direct *)
(* MME, a relay, and requests with and without a known destination host.   *)
EXTENDS DiameterPeers

Direct == [apps |-> {"slh", "slg"}, relay |-> FALSE, host |-> "mme", realm |-> "epc"]
Relay == [apps |-> {"relay"}, relay |-> TRUE, host |-> "dra", realm |-> "ipx"]

SomeCapabilities == {Direct, Relay}
SomeRequests == {[app |-> "slh", host |-> "", realm |-> ""],
                 [app |-> "slg", host |-> "mme", realm |-> "epc"]}
===============================================================================
