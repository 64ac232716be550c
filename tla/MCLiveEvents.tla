---------------------------- MODULE MCLiveEvents ----------------------------
EXTENDS LiveEvents
=============================================================================
