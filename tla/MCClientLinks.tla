---------------------------- MODULE MCClientLinks ----------------------------
EXTENDS ClientLinks, TLC
=============================================================================
