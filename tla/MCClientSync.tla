----------------------------- MODULE MCClientSync -----------------------------
EXTENDS ClientSync
=============================================================================
