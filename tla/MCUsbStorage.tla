---------------------------- MODULE MCUsbStorage ----------------------------
(* UsbStorage for TLC: the state space is finite without any bound.        *)
EXTENDS UsbStorage
=============================================================================
