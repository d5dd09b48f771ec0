------------------------- MODULE MCMultiplayerSync -------------------------
EXTENDS MultiplayerSync
=============================================================================
