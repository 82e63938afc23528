----------------------------- MODULE MCLiveTest -----------------------------
EXTENDS LiveTest
=============================================================================
