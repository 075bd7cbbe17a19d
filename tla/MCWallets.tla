----------------------------- MODULE MCWallets ------------------------------
(* Instances of Wallets for TLC. *)
EXTENDS Wallets, TLC

\* Handlers are interchangeable.
WalletSymmetry == Permutations(Handlers)
=============================================================================
