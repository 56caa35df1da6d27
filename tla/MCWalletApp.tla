---------------------------- MODULE MCWalletApp ----------------------------
(* Instances of WalletApp for TLC. *)
EXTENDS WalletApp
=============================================================================
