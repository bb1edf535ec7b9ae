------------------------ MODULE MCDeepScanCoordinator ------------------------
(* TLC instances of DeepScanCoordinator. *)
EXTENDS DeepScanCoordinator
=============================================================================
