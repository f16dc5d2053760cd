------------------------------- MODULE MCBoot -------------------------------
EXTENDS BootProperties

MCSecrets == {"s1", "s2"}
=============================================================================
