----------------------------- MODULE MCWifiSta -----------------------------
(* Instance of WifiSta with two rungs.  The access point is off, is        *)
(* reached by a weak antenna that droops at high power, or is so far that  *)
(* full power is needed.                                                   *)
EXTENDS WifiSta

MCReach == {{}, {Lowest}, {0}, Level}
MCPref == {0, 1}
=============================================================================
