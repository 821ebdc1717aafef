---------------------------- MODULE MCUserStack ----------------------------
EXTENDS UserStack
=============================================================================
