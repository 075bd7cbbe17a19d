----------------------------- MODULE TankLedger -----------------------------
(***************************************************************************)
(* What the bridge side of a user's Gas Tank promises, with no word about  *)
(* claims, rows, locks or crons: the relayer's outlay for a transaction is *)
(* charged to the user's bucket only once the chain has confirmed the      *)
(* transaction, and then at most once.                                     *)
(***************************************************************************)
EXTENDS Naturals

CONSTANT Txs          \* transactions whose cost the Gas Tank may have to bear

VARIABLES mined,      \* the transactions the chain confirmed with status 1
          charged     \* charged[t]: how often t was added to the bucket

ledgerVars == <<mined, charged>>

Init == /\ mined = {}
        /\ charged = [t \in Txs |-> 0]

\* The chain confirms one more transaction.
Confirm == \E t \in Txs \ mined : /\ mined' = mined \cup {t}
                                  /\ UNCHANGED charged

\* The cost of a confirmed transaction, not charged so far, is charged.
Charge == \E t \in mined : /\ charged[t] = 0
                           /\ charged' = [charged EXCEPT ![t] = 1]
                           /\ UNCHANGED mined

Next == Confirm \/ Charge

Spec == Init /\ [][Next]_ledgerVars
=============================================================================
