---------------------------- MODULE MCSerialUpgrade ----------------------------
EXTENDS SerialUpgradeProps
=============================================================================
