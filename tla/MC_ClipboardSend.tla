-------------------------- MODULE MC_ClipboardSend --------------------------
EXTENDS ClipboardSend

CONSTANTS text, picture

MC_Rec == {text, picture}
MC_Picture == {picture}
=============================================================================
