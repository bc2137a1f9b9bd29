------------------------------- MODULE MCSFlash -------------------------------
EXTENDS SFlashProps
=============================================================================
