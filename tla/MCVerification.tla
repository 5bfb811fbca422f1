--------------------------- MODULE MCVerification ---------------------------
EXTENDS Verification

CONSTANTS alice, bob, none
=============================================================================
