--------------------------- MODULE MCChannelLeader ---------------------------
EXTENDS ChannelLeader
CONSTANTS n1, n2
TwoNodes == {n1, n2}
=============================================================================
