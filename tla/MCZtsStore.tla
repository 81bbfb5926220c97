----------------------------- MODULE MCZtsStore -----------------------------
EXTENDS ZtsStore
=============================================================================
