----------------------------- MODULE MCWifiClock -----------------------------
(* WifiClock for TLC: the network of the scanner is lost twice.            *)
EXTENDS WifiClock
==============================================================================
