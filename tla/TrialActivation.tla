-------------------------- MODULE TrialActivation --------------------------
(***************************************************************************)
(* POST /api/trial/activate for one wallet: the free trial, credited once. *)
(* The lock trial_claim serialises requests, credit_grant:trial makes the  *)
(* credits survive a retry, trial_used ends it.                            *)
(*                                                                         *)
(*   y_read   not used yet: read the subscription                          *)
(*   y_claim  SET NX the lock         y_grant   SET NX the grant           *)
(*   y_credit add the credits         y_key     mint the trial key         *)
(*   y_sub    write the subscription  y_mark    set trial_used             *)
(*   y_undo   take the grant back     y_end     drop the lock              *)
(***************************************************************************)
EXTENDS KeyRoutes

TrialStart(h) ==
  /\ Begin(h, "trial") /\ ~trialUsed
  /\ item' = [item EXCEPT ![h] = "trial"]
  /\ pc' = [pc EXCEPT ![h] = "y_read"]
  /\ UNCHANGED <<seen, key, txScope, accountVars>>

TrialRead(h) ==
  /\ pc[h] = "y_read"
  /\ \/ /\ ~MultichainScope(sub)
        /\ seen' = [seen EXCEPT ![h] = sub]
        /\ pc' = [pc EXCEPT ![h] = "y_claim"]
        /\ UNCHANGED <<key, item>>
     \/ (MultichainScope(sub) \/ CanFail("kv_read")) /\ End(h)
  /\ UNCHANGED <<txScope, accountVars>>

TrialClaim(h) ==
  /\ pc[h] = "y_claim"
  /\ \/ trialClaim = None /\ trialClaim' = h /\ Goto(h, "y_grant")
     \/ (trialClaim # None \/ CanFail("refused")) /\ End(h) /\ UNCHANGED trialClaim
  /\ UNCHANGED <<sub, keyVars, poolVars, intents, used, claim, grant, trialUsed, txScope>>

TrialGrant(h) ==
  /\ pc[h] = "y_grant"
  /\ \/ "trial" \notin grant /\ grant' = grant \cup {"trial"} /\ Goto(h, "y_credit")
     \/ "trial" \in grant /\ Goto(h, "y_key") /\ UNCHANGED grant
     \/ CanFail("refused") /\ Goto(h, "y_end") /\ UNCHANGED grant
  /\ UNCHANGED <<sub, keyVars, poolVars, intents, used, claim, trialUsed, trialClaim, txScope>>

TrialCredit(h) ==
  /\ pc[h] = "y_credit"
  /\ \/ AddCredit("trial", "trial") /\ Goto(h, "y_key")
     \/ AddCreditThrows("trial") /\ Goto(h, "y_undo")
  /\ UNCHANGED <<sub, keyVars, activationVars, txScope>>

TrialUndo(h) ==
  /\ pc[h] = "y_undo"
  /\ grant' = grant \ {"trial"} \/ (CanFail("refused") /\ UNCHANGED grant)
  /\ Goto(h, "y_end")
  /\ UNCHANGED <<sub, keyVars, poolVars, intents, used, claim, trialUsed, trialClaim, txScope>>

TrialKey(h) ==
  LET old == IF seen[h] = None THEN None ELSE seen[h].trialKey
  IN /\ pc[h] = "y_key"
     /\ \/ /\ pc' = [pc EXCEPT ![h] = "y_sub"] /\ UNCHANGED <<seen, item>>
           /\ \/ old # None /\ key' = [key EXCEPT ![h] = old] /\ UNCHANGED keyRec
              \/ /\ old = None
                 /\ \E k \in Keys : NewKey(k, "trial") /\ key' = [key EXCEPT ![h] = k]
        \/ CanFail("refused") /\ Goto(h, "y_end") /\ UNCHANGED keyRec
     /\ UNCHANGED <<sub, rotLock, poolVars, activationVars, txScope>>

\* The record read had no paid scope, so that plan and window are the trial's.
TrialSub(h) ==
  /\ pc[h] = "y_sub"
  /\ \/ /\ SetSub([plan |-> "trial", trialKey |-> key[h], cash |-> FALSE, window |-> 1,
                   apiKey |-> IF seen[h] = None THEN None ELSE seen[h].apiKey,
                   sandbox |-> seen[h] # None /\ seen[h].sandbox])
        /\ Goto(h, "y_mark")
     \/ CanFail("refused") /\ Goto(h, "y_end") /\ UNCHANGED sub
  /\ UNCHANGED <<keyVars, poolVars, activationVars, txScope>>

TrialMark(h) ==
  /\ pc[h] = "y_mark"
  /\ trialUsed' = TRUE \/ (CanFail("refused") /\ UNCHANGED trialUsed)
  /\ Goto(h, "y_end")
  /\ UNCHANGED <<sub, keyVars, poolVars, intents, used, claim, grant, trialClaim, txScope>>

\* finally: a plain delete.
TrialEnd(h) ==
  /\ pc[h] = "y_end"
  /\ trialClaim' = None \/ (CanFail("refused") /\ UNCHANGED trialClaim)
  /\ End(h)
  /\ UNCHANGED <<sub, keyVars, poolVars, intents, used, claim, grant, trialUsed, txScope>>

TrialStep(h) == TrialRead(h) \/ TrialClaim(h) \/ TrialGrant(h) \/ TrialCredit(h) \/ TrialUndo(h)
                  \/ TrialKey(h) \/ TrialSub(h) \/ TrialMark(h) \/ TrialEnd(h)
=============================================================================
