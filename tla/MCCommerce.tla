----------------------------- MODULE MCCommerce -----------------------------
(* Instances of Commerce for TLC. *)
EXTENDS Commerce, TLC

\* Invocations and transfers are interchangeable.
CommerceSymmetry == Permutations(Handlers) \cup Permutations(Transfers)

\* A lock without effect that was reported as mined excuses the mirror for
\* good, and a refund that failed the daily spend: what follows them is not
\* explored.
Excused == \A e \in Escrows : unsure[e] \cap {"noop", "kept"} = {}
=============================================================================
