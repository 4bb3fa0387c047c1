----------------------------- MODULE MCSetupEntry -----------------------------
(* SetupEntry on small instances.                                          *)
EXTENDS SetupEntry
===============================================================================
