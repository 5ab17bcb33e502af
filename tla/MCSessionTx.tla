---------------------------- MODULE MCSessionTx ----------------------------
EXTENDS SessionTx
=============================================================================
