------------------------------ MODULE MCLoadTest ------------------------------
EXTENDS LoadTest
=============================================================================
