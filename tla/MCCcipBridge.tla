---------------------------- MODULE MCCcipBridge ----------------------------
(* Instances of CcipBridge for TLC. *)
EXTENDS CcipBridge, TLC

\* Invocations and hashes are interchangeable.
Symmetric == Permutations(Reqs) \cup Permutations(FundTxs) \cup Permutations(BridgeTxs)
               \cup Permutations(Intents) \cup Permutations(Clearers) \cup Permutations(ClearTxs)
=============================================================================
