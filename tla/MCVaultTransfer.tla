-------------------------- MODULE MCVaultTransfer --------------------------
(* An instance of VaultTransfer for TLC.                                   *)
EXTENDS VaultTransfer
=============================================================================
