----------------------------- MODULE MCBootstrap -----------------------------
EXTENDS Bootstrap
=============================================================================
