------------------------------ MODULE MCCredit ------------------------------
EXTENDS Credit
=============================================================================
