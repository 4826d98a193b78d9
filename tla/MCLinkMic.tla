------------------------------ MODULE MCLinkMic ------------------------------
EXTENDS LinkMicInv

CONSTANTS a, g, h
=============================================================================
