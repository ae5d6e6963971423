--------------------------- MODULE MCVerifierPage ---------------------------
EXTENDS VerifierPage

CONSTANTS f, g
=============================================================================
