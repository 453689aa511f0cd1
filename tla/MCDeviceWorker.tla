--------------------------- MODULE MCDeviceWorker ---------------------------
(* Small instances of DeviceWorker.  Three handles are enough: the worker's *)
(* own, and one closed handle in the hands of each of its two users.        *)
EXTENDS DeviceWorker

CONSTANTS h1, h2, h3

MCHandles == {h1, h2, h3}
=============================================================================
