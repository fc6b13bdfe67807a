------------------------------ MODULE MCStore ------------------------------
EXTENDS StoreProps
=============================================================================
