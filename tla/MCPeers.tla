------------------------------ MODULE MCPeers -------------------------------
EXTENDS Peers

C(protocol, value) == [protocol |-> protocol, value |-> value]
Bootstrap == <<C("ip4", "r"), C("tcp", "")>>
Direct == <<C("ip6zone", "eth0"), C("ip6", "g"), C("tcp", "")>>
Relayed == Bootstrap \o <<C("p2p-circuit", "")>>

MCReach == {[peer |-> "boot", addr |-> Bootstrap], [peer |-> "greedy", addr |-> Direct],
            [peer |-> "greedy", addr |-> Relayed]}
MCLists == {{}, {[peer |-> "boot", addr |-> Bootstrap], [peer |-> "boot", addr |-> <<C("dns4", "bootstrap-0")>>]},
            {[peer |-> "boot", addr |-> <<C("invalid", "")>>]}}
MCDiscoverable == <<{"greedy"}, {"greedy", "boot"}>>
=============================================================================
