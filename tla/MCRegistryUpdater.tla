------------------------- MODULE MCRegistryUpdater -------------------------
EXTENDS RegistryUpdater, TLC
=============================================================================
