------------------------------- MODULE MCHciRx --------------------------------
EXTENDS HciRxProps
=============================================================================
