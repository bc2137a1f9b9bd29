--------------------------- MODULE MCReceiveBuffers ---------------------------
EXTENDS ReceiveBuffersProps
=============================================================================
