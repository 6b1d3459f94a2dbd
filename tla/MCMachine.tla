------------------------------ MODULE MCMachine -----------------------------
EXTENDS Machine
=============================================================================
