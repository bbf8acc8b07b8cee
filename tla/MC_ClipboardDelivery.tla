------------------------ MODULE MC_ClipboardDelivery ------------------------
EXTENDS ClipboardDelivery

CONSTANTS b, c, p
=============================================================================
