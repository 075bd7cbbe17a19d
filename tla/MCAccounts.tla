----------------------------- MODULE MCAccounts -----------------------------
(* Instances of Accounts for TLC. *)
EXTENDS Accounts, TLC

\* Handlers and settlements are interchangeable.
AccountSymmetry == Permutations(Handlers) \cup Permutations(Txs)
=============================================================================
