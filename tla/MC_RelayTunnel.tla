--------------------------- MODULE MC_RelayTunnel ---------------------------
EXTENDS RelayTunnel

ConnSet == {"c"}
ChannelSet == {"a"}
Writes == [d \in Device |-> IF d = "near" THEN 2 ELSE 0]
=============================================================================
