------------------------------ MODULE MCArena ------------------------------
EXTENDS Arena
=============================================================================
