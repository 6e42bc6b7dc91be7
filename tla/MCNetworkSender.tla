--------------------------- MODULE MCNetworkSender ---------------------------
(* NetworkSender with small windows and any section an honest peer sends.  *)
EXTENDS NetworkSender
=============================================================================
