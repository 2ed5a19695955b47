--------------------------- MODULE MCDeviceStatus ---------------------------
(* Small instances of DeviceStatus for TLC.                                *)
EXTENDS DeviceStatus

OneHandler  == {"handler 1"}
TwoHandlers == {"handler 1", "handler 2"}
=============================================================================
