------------------------- MODULE MCHelperOperation -------------------------
EXTENDS HelperOperation
============================================================================
