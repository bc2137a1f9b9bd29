----------------------------- MODULE MCBleUpgrade -----------------------------
EXTENDS BleUpgradeProps
=============================================================================
