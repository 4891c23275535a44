--------------------------- MODULE MCUpdateCheck ---------------------------
EXTENDS UpdateCheck

MCFirst == Version(0, 1, 0, "final", 0)
=============================================================================
