--------------------------- MODULE MC_MessagePage ---------------------------
EXTENDS MessagePage
CONSTANT o1
=============================================================================
