---------------------------- MODULE MCHandshake ----------------------------
EXTENDS HandshakeProps

CONSTANTS k1, k2

TwoKeys == <<k1, k2>>
NewDevice == [s \in Sessions |-> A_VERSION]
\* The user allows the second key for good after the first session.
LaterKnown == [s \in Sessions |-> IF s = 1 THEN {} ELSE {k2}]
\* The device is updated after the first session.
UpdatedDevice == [s \in Sessions |-> IF s = 1 THEN A_VERSION_MIN ELSE A_VERSION]
=============================================================================
