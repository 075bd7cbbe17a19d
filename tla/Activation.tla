----------------------------- MODULE Activation -----------------------------
(***************************************************************************)
(* POST /api/payment/activate: an on-chain payment is turned into credits, *)
(* a key and a subscription period, at most once.  Three records guard it: *)
(* used_txhash (the commit), activation_claim (one request at a time) and  *)
(* credit_grant (one credit grant, whatever is retried).                   *)
(*                                                                         *)
(*   a_intent  the record was read; look for the payment intent            *)
(*   a_used    the payment was verified on chain; is it used?              *)
(*   a_claim   SET NX the claim                                            *)
(*   a_key     keep the key of the record read, or mint one                *)
(*   a_grant   SET NX the grant         a_credit  add the credits          *)
(*   a_sub     write the subscription   a_commit  set the used marker      *)
(*   a_clean   drop claim and intent    a_undo, a_fail   the catch blocks  *)
(***************************************************************************)
EXTENDS RelayRoute

Promoted(r) == IF r = None \/ ~LegacyTrialKey(r) THEN r
               ELSE [r EXCEPT !.trialKey = r.apiKey, !.apiKey = None, !.sandbox = FALSE]

\* Mutant: the grant marker is set after the credits were added.
GrantAfterCredit(h) ==
  /\ pc[h] = "a_grant"
  /\ \/ item[h] \notin grant /\ Goto(h, "a_credit") /\ UNCHANGED grant
     \/ item[h] \in grant /\ Goto(h, "a_sub") /\ UNCHANGED grant
  /\ UNCHANGED <<sub, keyVars, poolVars, intents, used, claim, trialUsed, trialClaim, txScope>>

-----------------------------------------------------------------------------

\* The subscription is read first; a legacy account has its trial pool
\* seeded from the legacy amount before the payment makes it a hybrid.
ActivateStart(h) ==
  /\ Begin(h, "activate")
  /\ \E p \in Payments : item' = [item EXCEPT ![h] = p]
  /\ pc' = [pc EXCEPT ![h] = "a_intent"]
  /\ seen' = [seen EXCEPT ![h] = Promoted(sub)]
  /\ UNCHANGED <<key, txScope, sub, keyVars, activationVars>>
  /\ IF sub # None /\ TrialSignal(sub) /\ ~PaidSignal(sub) /\ legacy > 0 /\ quota["trial"] = None
     THEN /\ quota' = [quota EXCEPT !["trial"] = legacy]
          /\ added' = [added EXCEPT !["trial"] = @ + legacy]
          /\ credited' = [credited EXCEPT !["legacy"] = @ + legacy]
          /\ UNCHANGED legacy
     ELSE UNCHANGED poolVars

\* The intent is looked for before the used marker.
ActivateIntent(h) ==
  /\ pc[h] = "a_intent"
  /\ \/ item[h] \in intents /\ Goto(h, "a_used")
     \/ (item[h] \notin intents \/ CanFail("kv_read")) /\ End(h)
  /\ UNCHANGED <<txScope, accountVars>>

ActivateCheckUsed(h) ==
  /\ pc[h] = "a_used"
  /\ \/ item[h] \notin used /\ Goto(h, "a_claim")
     \/ (item[h] \in used \/ CanFail("kv_read")) /\ End(h)
  /\ UNCHANGED <<txScope, accountVars>>

ActivateClaim(h) ==
  /\ pc[h] = "a_claim"
  /\ \/ /\ claim[item[h]] = None /\ claim' = [claim EXCEPT ![item[h]] = h]
        /\ Goto(h, "a_key")
     \/ (claim[item[h]] # None \/ CanFail("refused")) /\ End(h) /\ UNCHANGED claim
  /\ UNCHANGED <<sub, keyVars, poolVars, intents, used, grant, trialUsed, trialClaim, txScope>>

\* Before the try block: a throw leaves the claim to its five minutes.
ActivateKey(h) ==
  LET old == IF seen[h] = None THEN None ELSE seen[h].apiKey
      kept == old # None /\ keyRec[old].active
  IN /\ pc[h] = "a_key"
     /\ \/ /\ pc' = [pc EXCEPT ![h] = "a_grant"] /\ UNCHANGED <<seen, item>>
           /\ \/ kept /\ key' = [key EXCEPT ![h] = old] /\ UNCHANGED keyRec
              \/ /\ ~kept
                 /\ \E k \in Keys : NewKey(k, "starter") /\ key' = [key EXCEPT ![h] = k]
        \/ (CanFail("refused") \/ CanFail("kv_read")) /\ End(h) /\ UNCHANGED keyRec
     /\ UNCHANGED <<sub, rotLock, poolVars, activationVars, txScope>>

ActivateGrant(h) ==
  /\ pc[h] = "a_grant"
  /\ \/ item[h] \notin grant /\ grant' = grant \cup {item[h]} /\ Goto(h, "a_credit")
     \/ item[h] \in grant /\ Goto(h, "a_sub") /\ UNCHANGED grant
     \/ CanFail("refused") /\ Goto(h, "a_fail") /\ UNCHANGED grant
  /\ UNCHANGED <<sub, keyVars, poolVars, intents, used, claim, trialUsed, trialClaim, txScope>>

ActivateCredit(h) ==
  /\ pc[h] = "a_credit"
  /\ \/ AddCredit("paid", item[h]) /\ Goto(h, "a_sub")
     \/ AddCreditThrows("paid") /\ Goto(h, "a_undo")
  /\ UNCHANGED <<sub, keyVars, activationVars, txScope>>

\* Nothing was added, so the grant is taken back (not awaited).
ActivateUndo(h) ==
  /\ pc[h] = "a_undo"
  /\ grant' = grant \ {item[h]} \/ (CanFail("refused") /\ UNCHANGED grant)
  /\ Goto(h, "a_fail")
  /\ UNCHANGED <<sub, keyVars, poolVars, intents, used, claim, trialUsed, trialClaim, txScope>>

\* The new period follows the one in the record read at the start.
ActivateSub(h) ==
  /\ pc[h] = "a_sub"
  /\ \/ /\ SetSub([plan |-> "starter", apiKey |-> key[h], sandbox |-> TRUE, cash |-> TRUE,
                   trialKey |-> IF seen[h] = None THEN None ELSE seen[h].trialKey,
                   window |-> 1 + IF seen[h] = None THEN 0 ELSE seen[h].window])
        /\ Goto(h, "a_commit")
     \/ (CanFail("refused") \/ CanFail("kv_read")) /\ Goto(h, "a_fail") /\ UNCHANGED sub
  /\ UNCHANGED <<keyVars, poolVars, activationVars, txScope>>

ActivateCommit(h) ==
  /\ pc[h] = "a_commit"
  /\ \/ used' = used \cup {item[h]} /\ Goto(h, "a_clean")
     \/ CanFail("refused") /\ Goto(h, "a_fail") /\ UNCHANGED used
  /\ UNCHANGED <<sub, keyVars, poolVars, intents, claim, grant, trialUsed, trialClaim, txScope>>

\* A delete of the claim does not look whose it is.
DropClaim(p) == \/ claim' = [claim EXCEPT ![p] = None]
                \/ CanFail("refused") /\ UNCHANGED claim

ActivateClean(h) ==
  /\ pc[h] = "a_clean"
  /\ DropClaim(item[h])
  /\ intents' = intents \ {item[h]} \/ (CanFail("refused") /\ UNCHANGED intents)
  /\ End(h)
  /\ UNCHANGED <<sub, keyVars, poolVars, used, grant, trialUsed, trialClaim, txScope>>

ActivateFail(h) ==
  /\ pc[h] = "a_fail" /\ DropClaim(item[h]) /\ End(h)
  /\ UNCHANGED <<sub, keyVars, poolVars, intents, used, grant, trialUsed, trialClaim, txScope>>

ActivateStep(h) == ActivateIntent(h) \/ ActivateCheckUsed(h) \/ ActivateClaim(h) \/ ActivateKey(h)
                     \/ ActivateGrant(h) \/ ActivateCredit(h) \/ ActivateUndo(h) \/ ActivateSub(h)
                     \/ ActivateCommit(h) \/ ActivateClean(h) \/ ActivateFail(h)
=============================================================================
