---------------------------- MODULE MCLocalMedia ----------------------------
EXTENDS LocalMedia
=============================================================================
