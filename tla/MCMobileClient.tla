--------------------------- MODULE MCMobileClient ---------------------------
(* MobileClient, for TLC: the constants are in MobileClient.cfg.           *)
EXTENDS MobileClient
=============================================================================
