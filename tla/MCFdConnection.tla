--------------------------- MODULE MCFdConnection ---------------------------
EXTENDS FdConnectionProps

\* An empty payload between two others: a header on its own is a packet.
SomePackets == <<1, 0, 2>>
TwoPackets == <<2, 1>>
=============================================================================
