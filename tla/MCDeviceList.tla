---------------------------- MODULE MCDeviceList ----------------------------
(* Small instances of DeviceList: this client's user and another one.      *)
EXTENDS DeviceList

CONSTANTS me, bob
=============================================================================
