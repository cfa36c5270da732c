--------------------------- MODULE MCWalCoordinator ---------------------------
(* Instances of WalCoordinator for TLC.                                    *)
EXTENDS WalCoordinator
=============================================================================
