--------------------------- MODULE MCConnection ---------------------------
EXTENDS Connection
=============================================================================
