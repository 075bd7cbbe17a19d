----------------------------- MODULE KeyRoutes -----------------------------
(***************************************************************************)
(* The other writers of the subscription record: key rotation, sandbox key *)
(* provisioning and the admin top-up.  Each reads the record in its first  *)
(* step and writes it back, changed, from what it read.                    *)
(*                                                                         *)
(*   k_lock .. k_unlock   rotateApiKey                                     *)
(*   p_write              POST /api/keys/provision                         *)
(*   b_add, b_write       addQuotaBonus                                    *)
(***************************************************************************)
EXTENDS Activation

\* Mutant: a legacy trial key stays in the paid slot of the rotated record.
RotatedInPlace(r, s, k) == [r EXCEPT !.apiKey = k]

\* The key rotated out: the modern slot, or the paid slot of a legacy record.
OldKey(r, s) == IF s = "trial" /\ r.trialKey # None THEN r.trialKey ELSE r.apiKey
HasKey(r, s) == IF s = "trial" THEN TrialSignal(r) ELSE r.apiKey # None
RotatedSub(r, s, k) ==
  IF s = "paid" THEN [r EXCEPT !.apiKey = k]
  ELSE IF LegacyTrialKey(r)
       THEN [r EXCEPT !.trialKey = k, !.apiKey = None, !.sandbox = FALSE]
       ELSE [r EXCEPT !.trialKey = k]

-----------------------------------------------------------------------------
(* rotateApiKey *)

\* The record is read before the lock is asked for.
RotateStart(h) ==
  /\ Begin(h, "rotate") /\ sub # None
  /\ \E s \in Scopes : HasKey(sub, s) /\ item' = [item EXCEPT ![h] = s]
  /\ seen' = [seen EXCEPT ![h] = sub]
  /\ pc' = [pc EXCEPT ![h] = "k_lock"]
  /\ UNCHANGED <<key, txScope, accountVars>>

RotateLock(h) ==
  /\ pc[h] = "k_lock"
  /\ \/ /\ rotLock[item[h]] = None /\ rotLock' = [rotLock EXCEPT ![item[h]] = h]
        /\ Goto(h, "k_mint")
     \/ (rotLock[item[h]] # None \/ CanFail("refused")) /\ End(h) /\ UNCHANGED rotLock
  /\ UNCHANGED <<sub, keyRec, poolVars, activationVars, txScope>>

RotateMint(h) ==
  /\ pc[h] = "k_mint"
  /\ \/ \E k \in Keys : /\ NewKey(k, IF item[h] = "trial" THEN "trial" ELSE seen[h].plan)
                        /\ key' = [key EXCEPT ![h] = k]
                        /\ pc' = [pc EXCEPT ![h] = "k_sub"]
                        /\ UNCHANGED <<seen, item>>
     \/ CanFail("refused") /\ Goto(h, "k_unlock") /\ UNCHANGED keyRec
  /\ UNCHANGED <<sub, rotLock, poolVars, activationVars, txScope>>

RotateSub(h) ==
  /\ pc[h] = "k_sub"
  /\ \/ SetSub(RotatedSub(seen[h], item[h], key[h])) /\ Goto(h, "k_old")
     \/ CanFail("refused") /\ Goto(h, "k_unlock") /\ UNCHANGED sub
  /\ UNCHANGED <<keyVars, poolVars, activationVars, txScope>>

\* The old key is deactivated after the new one is in place.
RotateOld(h) ==
  /\ pc[h] = "k_old"
  /\ Deactivate(OldKey(seen[h], item[h])) /\ Goto(h, "k_unlock")
  /\ UNCHANGED <<sub, rotLock, poolVars, activationVars, txScope>>

\* A plain delete: a lock that expired and was taken again goes with it.
RotateUnlock(h) ==
  /\ pc[h] = "k_unlock"
  /\ \/ rotLock' = [rotLock EXCEPT ![item[h]] = None]
     \/ CanFail("refused") /\ UNCHANGED rotLock
  /\ End(h)
  /\ UNCHANGED <<sub, keyRec, poolVars, activationVars, txScope>>

-----------------------------------------------------------------------------
(* Provisioning and top-up *)

\* A complete account is only shown.
ProvisionStart(h) ==
  /\ Begin(h, "provision") /\ (sub # None => ~sub.sandbox)
  /\ seen' = [seen EXCEPT ![h] = sub]
  /\ pc' = [pc EXCEPT ![h] = "p_write"]
  /\ UNCHANGED <<key, item, txScope, accountVars>>

Stub == [plan |-> "starter", apiKey |-> None, trialKey |-> None,
         sandbox |-> TRUE, cash |-> FALSE, window |-> 0]

ProvisionWrite(h) ==
  /\ pc[h] = "p_write"
  /\ \/ SetSub(IF seen[h] = None THEN Stub ELSE [seen[h] EXCEPT !.sandbox = TRUE])
     \/ CanFail("refused") /\ UNCHANGED sub
  /\ End(h)
  /\ UNCHANGED <<keyVars, poolVars, activationVars, txScope>>

TopupStart(h) ==
  /\ Begin(h, "topup") /\ sub # None
  /\ seen' = [seen EXCEPT ![h] = sub]
  /\ pc' = [pc EXCEPT ![h] = "b_add"]
  /\ UNCHANGED <<key, item, txScope, accountVars>>

TopupAdd(h) ==
  /\ pc[h] = "b_add"
  /\ \/ AddCredit("paid", "topup") /\ Goto(h, "b_write")
     \/ AddCreditThrows("paid") /\ End(h)
  /\ UNCHANGED <<sub, keyVars, activationVars, txScope>>

TopupWrite(h) ==
  /\ pc[h] = "b_write"
  /\ SetSub(seen[h]) \/ (CanFail("refused") /\ UNCHANGED sub)
  /\ End(h)
  /\ UNCHANGED <<keyVars, poolVars, activationVars, txScope>>
=============================================================================
