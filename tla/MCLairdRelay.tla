---------------------------- MODULE MCLairdRelay ----------------------------
EXTENDS LairdRelay
=============================================================================
