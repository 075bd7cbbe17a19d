------------------------ MODULE AccountRecordProofs -------------------------
(***************************************************************************)
(* Proofs about what the account records say, for any sets of requests,    *)
(* payments and settlements and under every fault.                         *)
(*                                                                         *)
(* Trust receipts: the claim of a settlement is set once and never         *)
(* changed, and whoever writes a body writes it under that claim           *)
(* (ReceiptInv).  An invocation that is about to forget a queue entry has  *)
(* seen the body, or has counted the last attempt (QueueInv).              *)
(*                                                                         *)
(* Credit pools: a grant is credited once, since the one request between   *)
(* the grant's marker and its outcome finds the credit not yet given       *)
(* (GrantInv), and the pool of before the split is out of the reach of a   *)
(* paid account's trial pool (LegacyInv).  A settlement is backed: the     *)
(* credits in flight, taken but neither settled nor given back, are part   *)
(* of the sum (BackedInv).                                                 *)
(*                                                                         *)
(* Key slots: every record a request still holds, and the one that is      *)
(* stored, names keys minted for their slots; a trial account of before    *)
(* the split exists only while no trial can be activated (SlotInv).        *)
(***************************************************************************)
EXTENDS AccountsProofs, FiniteSetTheorems

-----------------------------------------------------------------------------
(* Trust receipts *)

ReceiptInv ==
  /\ \A t \in Txs, i \in ReceiptIds : <<i, t>> \in bodies => receiptOf[t] = i
  /\ \A h \in Handlers : pc[h] \in {"c_body", "g_body"} => rid[h] = receiptOf[item[h]]

QueueInv == \A h \in Handlers :
  /\ pc[h] = "g_member" => HasBody(item[h])
  /\ pc[h] = "g_gone" => item[h] \in gaveUp

\* A claim is set once; its holder goes on under its id.
LEMMA ClaimKeeps ==
  ASSUME Typed, ReceiptInv, NEW h \in Handlers, item[h] \in Txs,
         NEW i \in ReceiptIds, NEW won, NEW lost, ClaimReceipt(h, i, won, lost)
  PROVE  /\ \A t \in Txs : receiptOf[t] # None => receiptOf'[t] = receiptOf[t]
         /\ pc'[h] \in {won, lost} /\ item'[h] = item[h]
         /\ pc'[h] = won /\ won # lost => rid'[h] = receiptOf'[item[h]]
         /\ pc'[h] = lost /\ won # lost => HasBody(item[h])
<1>1. /\ receiptOf \in [Txs -> ReceiptIds \cup {None}] /\ rid \in [Handlers -> ReceiptIds \cup {None}]
      /\ pc \in [Handlers -> Labels] /\ None \notin Txs
  BY AccountAssumption DEF Typed, AccountsTypeOK, ReceiptTypeOK
<1> QED BY <1>1 DEF ClaimReceipt, Goto, HasBody

\* What the others are writing, and what they have seen, stays as it is.
LEMMA OthersKeep ==
  ASSUME Typed, ReceiptInv, QueueInv, NEW h \in Handlers, Local(h),
         \A t \in Txs : receiptOf[t] # None => receiptOf'[t] = receiptOf[t],
         bodies \subseteq bodies', gaveUp \subseteq gaveUp',
         NEW q \in Handlers \ {h}
  PROVE  /\ pc'[q] \in {"c_body", "g_body"} => rid'[q] = receiptOf'[item'[q]]
         /\ pc'[q] = "g_member" => HasBody(item[q])'
         /\ pc'[q] = "g_gone" => item'[q] \in gaveUp'
<1>1. /\ pc'[q] = pc[q] /\ item'[q] = item[q] /\ rid'[q] = rid[q]
  BY DEF Local, Aside
<1>2. /\ pc[q] \in {"c_body", "g_body"} => rid[q] \in ReceiptIds /\ item[q] \in Txs
      /\ None \notin ReceiptIds
  BY ReceiptAssumption DEF Typed, Knows, InlineSteps, FillSteps
<1> QED BY <1>1, <1>2 DEF ReceiptInv, QueueInv, HasBody

\* The invariants, from what h does to its own receipt.
LEMMA FromOwn ==
  ASSUME Typed, ReceiptInv, QueueInv, NEW h \in Handlers, Local(h), ReceiptTypeOK',
         \A t \in Txs : receiptOf[t] # None => receiptOf'[t] = receiptOf[t],
         bodies \subseteq bodies', gaveUp \subseteq gaveUp',
         \A t \in Txs, i \in ReceiptIds : <<i, t>> \in bodies' \ bodies => receiptOf'[t] = i,
         pc'[h] \in {"c_body", "g_body"} => rid'[h] = receiptOf'[item'[h]],
         pc'[h] = "g_member" => HasBody(item[h])',
         pc'[h] = "g_gone" => item'[h] \in gaveUp'
  PROVE  ReceiptInv' /\ QueueInv'
<1>1. ASSUME NEW t \in Txs, NEW i \in ReceiptIds, <<i, t>> \in bodies'
      PROVE  receiptOf'[t] = i
  <2>1. CASE <<i, t>> \in bodies
    BY <2>1, ReceiptAssumption DEF ReceiptInv
  <2> QED BY <1>1, <2>1
<1> QED BY <1>1, OthersKeep DEF ReceiptInv, QueueInv

LEMMA ReceiptInvStep ==
  ASSUME Typed, ReceiptInv, QueueInv, NEW h \in Handlers, ReceiptStep(h)
  PROVE  ReceiptInv' /\ QueueInv'
<1>1. Local(h) /\ ReceiptTypeOK'
  BY ReceiptLocal, ReceiptTypes
<1>2. /\ receiptOf \in [Txs -> ReceiptIds \cup {None}] /\ rid \in [Handlers -> ReceiptIds \cup {None}]
      /\ pc \in [Handlers -> Labels] /\ item \in [Handlers -> Payments \cup Scopes \cup Txs \cup {None}]
      /\ entry \in [Txs -> Nat \cup {None}]
      /\ <<h, 1>> \in ReceiptIds /\ <<h, 2>> \in ReceiptIds /\ None \notin ReceiptIds
  BY ReceiptAssumption DEF Typed, AccountsTypeOK, ReceiptTypeOK, ReceiptIds
<1>3. /\ pc[h] \in InlineSteps \cup FillSteps => item[h] \in Txs
      /\ pc[h] \in {"c_body", "g_body"} => rid[h] \in ReceiptIds
      /\ pc[h] = "c_claim" => tries[h] \in {1, 2}
  BY DEF Typed, Knows, CountsTries
<1> USE <1>2, <1>3 DEF InlineSteps, FillSteps
<1>4. CASE /\ UNCHANGED <<receiptOf, bodies>> /\ gaveUp \subseteq gaveUp'
           /\ pc'[h] \notin {"c_body", "g_body", "g_member"}
           /\ pc'[h] = "g_gone" => item'[h] \in gaveUp'
  BY <1>1, <1>4, FromOwn
<1>5. CASE InlineClaim(h)
  <2>1. CASE ClaimReceipt(h, <<h, tries[h]>>, "c_body", "r_mirror")
    <3>1. <<h, tries[h]>> \in ReceiptIds /\ item[h] \in Txs
      BY <1>5 DEF InlineClaim
    <3>2. /\ \A t \in Txs : receiptOf[t] # None => receiptOf'[t] = receiptOf[t]
          /\ pc'[h] \in {"c_body", "r_mirror"} /\ item'[h] = item[h]
          /\ pc'[h] = "c_body" => rid'[h] = receiptOf'[item[h]]
      BY <2>1, <3>1, ClaimKeeps
    <3> QED BY <1>1, <1>5, <3>2, FromOwn DEF InlineClaim, fillVars
  <2> QED BY <1>4, <1>5, <2>1 DEF InlineClaim, Goto, fillVars
<1>6. CASE InlineBody(h)
  <2>1. /\ item[h] \in Txs /\ rid[h] = receiptOf[item[h]] /\ item' = item /\ pc'[h] \in {"r_mirror", "c_claim", "c_queue"}
        /\ receiptOf' = receiptOf /\ bodies' \in {bodies, bodies \cup {<<rid[h], item[h]>>}} /\ gaveUp' = gaveUp
    BY <1>6 DEF InlineBody, WriteReceipt, WriteReceiptThrows, WriteBody, Goto, fillVars, ReceiptInv
  <2> QED BY <1>1, <2>1, FromOwn
<1>7. CASE FillClaim(h)
  <2>1. CASE ClaimReceipt(h, <<h, 1>>, "g_body", "g_member")
    <3>1. /\ \A t \in Txs : receiptOf[t] # None => receiptOf'[t] = receiptOf[t]
          /\ pc'[h] \in {"g_body", "g_member"} /\ item'[h] = item[h]
          /\ pc'[h] = "g_body" => rid'[h] = receiptOf'[item[h]]
          /\ pc'[h] = "g_member" => HasBody(item[h])
      BY <1>7, <2>1, ClaimKeeps DEF FillClaim
    <3> QED BY <1>1, <1>7, <3>1, FromOwn DEF FillClaim, fillVars, HasBody
  <2> QED BY <1>4, <1>7, <2>1 DEF FillClaim, Goto, fillVars
<1>8. CASE FillBody(h)
  <2>1. CASE WriteReceipt(h) /\ Goto(h, "g_member")
    <3>1. /\ item[h] \in Txs /\ rid[h] = receiptOf[item[h]] /\ rid[h] \in ReceiptIds
      BY <1>8 DEF FillBody, ReceiptInv
    <3>2. /\ item' = item /\ receiptOf' = receiptOf /\ pc'[h] = "g_member"
          /\ bodies' = bodies \cup {<<rid[h], item[h]>>} /\ gaveUp' = gaveUp
      BY <1>8, <2>1, <3>1 DEF FillBody, WriteReceipt, WriteBody, Goto, fillVars
    <3> QED BY <1>1, <3>1, <3>2, FromOwn DEF HasBody
  <2>2. CASE WriteReceiptThrows(h) /\ Goto(h, "g_bump")
    <3>1. /\ item[h] \in Txs /\ rid[h] = receiptOf[item[h]] /\ receiptOf' = receiptOf
          /\ bodies' \in {bodies, bodies \cup {<<rid[h], item[h]>>}} /\ gaveUp' = gaveUp /\ pc'[h] = "g_bump"
      BY <1>8, <2>2 DEF FillBody, WriteReceiptThrows, WriteBody, Goto, fillVars, ReceiptInv
    <3> QED BY <1>1, <3>1, FromOwn
  <2> QED BY <1>8, <2>1, <2>2 DEF FillBody
<1>9. CASE FillBump(h)
  BY <1>4, <1>9 DEF FillBump, Goto
<1>10. CASE Enqueue(h) \/ EnqueueRest(h) \/ PageReceipt(h) \/ FillStart(h) \/ FillRead(h) \/ FillDropOrphan(h)
  BY <1>4, <1>10 DEF Enqueue, EnqueueRest, PageReceipt, FillStart, FillRead, FillDropOrphan, Goto, End,
     receiptVars, fillVars
<1>11. CASE FillLock(h) \/ FillDequeue(h) \/ FillGiveUp(h) \/ FillUnlock(h)
  BY <1>4, <1>11 DEF FillLock, FillDequeue, FillGiveUp, FillUnlock, Goto, End
<1> QED BY <1>5, <1>6, <1>7, <1>8, <1>9, <1>10, <1>11 DEF ReceiptStep, InlineReceipt, FillStep

LEMMA ReceiptInvNext ==
  ASSUME Typed, ReceiptInv, QueueInv, [AccountsNext]_accountsVars
  PROVE  ReceiptInv' /\ QueueInv'
<1>1. ASSUME NEW h \in Handlers, AccountStep(h), UNCHANGED receiptVars
      PROVE  ReceiptInv' /\ QueueInv'
  <2>1. Local(h) /\ ReceiptTypeOK'
    BY <1>1, AccountLocal DEF Typed, AccountsTypeOK, ReceiptTypeOK, receiptVars, fillVars
  <2>2. pc'[h] \notin {"c_body", "g_body", "g_member", "g_gone"}
    BY <1>1, AccountMoves DEF FillSteps
  <2> QED BY <1>1, <2>1, <2>2, FromOwn DEF receiptVars, fillVars
<1>2. ASSUME NEW h \in Handlers, ReceiptStep(h)
      PROVE  ReceiptInv' /\ QueueInv'
  BY <1>2, ReceiptInvStep
<1>3. CASE UNCHANGED <<pc, item, rid, receiptOf, bodies, gaveUp>>
  BY <1>3 DEF ReceiptInv, QueueInv, HasBody
<1> QED BY <1>1, <1>2, <1>3 DEF AccountsNext, ExpireFill, accountsVars, handlerVars, localVars,
           receiptVars, fillVars

LEMMA AlwaysReceipts == AccountsSpec => [](Typed /\ ReceiptInv /\ QueueInv)
<1>1. AccountsInit => ReceiptInv /\ QueueInv
  BY DEF AccountsInit, HandlerInit, ReceiptInit, ReceiptInv, QueueInv
<1>2. Typed /\ ReceiptInv /\ QueueInv /\ [AccountsNext]_accountsVars => (Typed /\ ReceiptInv /\ QueueInv)'
  BY TypedStep, ReceiptInvNext
<1> QED BY TypedInit, <1>1, <1>2, PTL DEF AccountsSpec

\* However many of the relay's attempts and of the cron's meet on a settlement,
\* and whichever of their writes are lost, one receipt is written for it.
THEOREM OneReceipt == AccountsSpec => []OneReceiptPerTx
<1>1. Typed /\ ReceiptInv => OneReceiptPerTx
  BY DEF ReceiptInv, OneReceiptPerTx
<1> QED BY AlwaysReceipts, <1>1, PTL

\* The backfill queue forgets a settlement only with its receipt written or its
\* attempts used up.
THEOREM QueueRemembers == AccountsSpec => EntryEndsInReceipt
<1> DEFINE Kept == \A t \in Txs : entry[t] # None /\ entry'[t] = None => HasBody(t) \/ t \in gaveUp
<1>1. ASSUME Typed, QueueInv, [AccountsNext]_accountsVars
      PROVE  Kept
  <2>1. ASSUME NEW h \in Handlers, ReceiptStep(h)
        PROVE  Kept
    <3>1. /\ entry \in [Txs -> Nat \cup {None}] /\ tries \in [Handlers -> Nat]
          /\ None \notin Nat
      <4>1. ReceiptTypeOK /\ AccountsTypeOK
        BY <1>1 DEF Typed, AccountsTypeOK
      <4> QED BY <4>1, NoneIsNothing DEF ReceiptTypeOK, AccountsTypeOK
    <3>2. CASE UNCHANGED entry
      BY <3>2
    <3>3. CASE \E n \in Nat : entry' = [entry EXCEPT ![item[h]] = n]
      BY <3>1, <3>3
    <3>4. CASE FillDequeue(h) \/ FillGiveUp(h)
      <4>1. HasBody(item[h]) \/ item[h] \in gaveUp
        BY <1>1, <3>4 DEF QueueInv, FillDequeue, FillGiveUp
      <4>2. \A t \in Txs \ {item[h]} : entry'[t] = entry[t]
        BY <3>1, <3>4 DEF FillDequeue, FillGiveUp, Dequeue, DequeueThrows
      <4> QED BY <4>1, <4>2
    <3>5. CASE FillBump(h)
      BY <3>1, <3>2, <3>3, <3>5 DEF FillBump
    <3> QED BY <2>1, <3>2, <3>3, <3>4, <3>5 DEF ReceiptStep, InlineReceipt, FillStep, InlineClaim,
               InlineBody, Enqueue, EnqueueRest, PageReceipt, FillStart, FillRead, FillDropOrphan,
               FillLock, FillClaim, FillBody, FillUnlock, receiptVars, fillVars
  <2>2. CASE UNCHANGED entry
    BY <2>2
  <2> QED BY <1>1, <2>1, <2>2 DEF AccountsNext, ExpireFill, accountsVars, receiptVars, fillVars
<1>2. Typed /\ QueueInv /\ [AccountsNext]_accountsVars => [Kept]_accountsVars
  BY <1>1
<1> QED BY AlwaysReceipts, <1>2, PTL DEF AccountsSpec, EntryEndsInReceipt

-----------------------------------------------------------------------------
(* Credit pools *)

Crediting == {"a_credit", "a_undo", "y_credit", "y_undo"}
Charging == {"r_settle", "r_refund"}

GrantInv ==
  /\ \A x \in Grants : credited[x] <= 1 /\ (x \notin grant => credited[x] = 0)
  /\ \A h \in Handlers : pc[h] \in Crediting => item[h] \in grant /\ credited[item[h]] = 0
  /\ \A h, q \in Handlers : h # q /\ pc[h] \in Crediting /\ pc[q] \in Crediting => item[h] # item[q]

\* A seed adds to a grant what it is told to, and nothing else.
LEMMA SeedCredits ==
  ASSUME Typed, NEW s \in Scopes, NEW n \in Nat, NEW credits, SeedAnd(s, n, credits), NEW x \in Grants
  PROVE  credited'[x] = IF x \in credits THEN credited[x] + n ELSE credited[x]
<1>1. credited \in [Sources -> Nat] /\ x \in Sources /\ x # "legacy"
  BY AccountAssumption DEF Typed, AccountsTypeOK, AccountTypeOK, Sources, Grants
<1> QED BY <1>1 DEF SeedAnd

\* Every other step leaves the grants as they are.
LEMMA QuietGrants ==
  ASSUME Typed, NEW h \in Handlers, AccountStep(h),
         ~ActivateGrant(h), ~ActivateCredit(h), ~ActivateUndo(h),
         ~TrialGrant(h), ~TrialCredit(h), ~TrialUndo(h)
  PROVE  /\ grant' = grant /\ pc'[h] \notin Crediting
         /\ \A x \in Grants : credited'[x] = credited[x]
<1>1. /\ pc \in [Handlers -> Labels] /\ credited \in [Sources -> Nat]
      /\ \A x \in Grants : x \in Sources /\ x # "legacy" /\ x # "topup"
      /\ pc[h] \in PoolSteps => item[h] \in Scopes
  BY AccountAssumption DEF Typed, AccountsTypeOK, AccountTypeOK, Sources, Grants, Knows
<1> USE <1>1 DEF Crediting, Goto, End, Begin
<1>2. CASE RelayTake(h)
  <2>1. item[h] \in Scopes
    BY <1>1, <1>2 DEF RelayTake, PoolSteps
  <2>2. \A x \in Grants : credited'[x] = credited[x]
    BY <1>2, <2>1, SeedCredits DEF RelayTake, TakeCredit, RejectCredit, AddCreditThrows, poolVars
  <2> QED BY <1>2, <2>2 DEF RelayTake, activationVars
<1>3. CASE TopupAdd(h)
  <2>1. \A x \in Grants : credited'[x] = credited[x]
    BY <1>3, SeedCredits DEF TopupAdd, AddCredit, AddCreditThrows, poolVars, Scopes
  <2> QED BY <1>3, <2>1 DEF TopupAdd, activationVars
<1>4. CASE RelayRefund(h)
  BY <1>4 DEF RelayRefund, RefundCredit, poolVars, activationVars
<1>5. CASE ActivateStart(h)
  BY <1>5 DEF ActivateStart, poolVars, activationVars
<1>6. CASE RelayStart(h) \/ RelayReadSub(h) \/ RelaySettle(h) \/ RelayWebhook(h) \/ RelayMirror(h) \/ Crash(h)
  BY <1>6 DEF RelayStart, RelayReadSub, RelaySettle, RelayWebhook, RelayMirror, Crash,
     accountVars, poolVars, activationVars
<1>7. CASE ActivateIntent(h) \/ ActivateCheckUsed(h) \/ ActivateClaim(h) \/ ActivateKey(h)
             \/ ActivateSub(h) \/ ActivateCommit(h) \/ ActivateClean(h) \/ ActivateFail(h)
  BY <1>7 DEF ActivateIntent, ActivateCheckUsed, ActivateClaim, ActivateKey, ActivateSub, ActivateCommit,
     ActivateClean, ActivateFail, DropClaim, accountVars, poolVars, activationVars
<1>8. CASE RotateStart(h) \/ RotateLock(h) \/ RotateMint(h) \/ RotateSub(h) \/ RotateOld(h) \/ RotateUnlock(h)
             \/ ProvisionStart(h) \/ ProvisionWrite(h) \/ TopupStart(h) \/ TopupWrite(h)
  BY <1>8 DEF RotateStart, RotateLock, RotateMint, RotateSub, RotateOld, RotateUnlock, ProvisionStart,
     ProvisionWrite, TopupStart, TopupWrite, accountVars, poolVars, activationVars
<1>9. CASE TrialStart(h) \/ TrialRead(h) \/ TrialClaim(h) \/ TrialKey(h) \/ TrialSub(h) \/ TrialMark(h)
             \/ TrialEnd(h)
  BY <1>9 DEF TrialStart, TrialRead, TrialClaim, TrialKey, TrialSub, TrialMark, TrialEnd,
     accountVars, poolVars, activationVars
<1> QED BY <1>2, <1>3, <1>4, <1>5, <1>6, <1>7, <1>8, <1>9 DEF AccountStep, RelayStep, ActivateStep, TrialStep

\* A receipt step, or the end of a TTL, changes no pool and no grant.
LEMMA ReceiptMoves ==
  ASSUME Typed, NEW h \in Handlers, ReceiptStep(h)
  PROVE  /\ UNCHANGED <<accountVars, txScope>> /\ seen'[h] \in {seen[h], None}
         /\ pc'[h] \notin Crediting \cup Charging \cup TrialSteps \cup {"p_write"}
<1>1. pc \in [Handlers -> Labels] /\ seen \in [Handlers -> Sub \cup {None}]
  BY DEF Typed, AccountsTypeOK
<1> USE <1>1 DEF Crediting, Charging, TrialSteps, Goto, End, Begin
<1>2. CASE InlineReceipt(h)
  BY <1>2 DEF InlineReceipt, InlineClaim, ClaimReceipt, InlineBody, Enqueue, EnqueueRest, PageReceipt
<1>3. CASE FillStart(h) \/ FillStep(h)
  BY <1>3 DEF FillStart, FillStep, FillRead, FillDropOrphan, FillLock, FillClaim, ClaimReceipt, FillBody,
     FillDequeue, FillBump, FillGiveUp, FillUnlock
<1> QED BY <1>2, <1>3 DEF ReceiptStep

LEMMA Expiries ==
  ASSUME \/ ExpireAccount /\ UNCHANGED <<handlerVars, receiptVars>>
         \/ (\E t \in Txs : ExpireFill(t)) /\ UNCHANGED <<handlerVars, accountVars>>
         \/ UNCHANGED accountsVars
  PROVE  UNCHANGED <<sub, keyRec, poolVars, grant, pc, seen, key, item, txScope>>
BY DEF ExpireAccount, ExpireClaim, ExpireTrialClaim, ExpireRotation, ExpireFill, handlerVars, localVars,
   accountsVars, accountVars, keyVars, poolVars, activationVars

\* It is enough to look at the grant h works on, and at h.
LEMMA GrantMoves ==
  ASSUME Typed, GrantInv, NEW h \in Handlers, Aside(h), NEW x \in Grants,
         grant' \subseteq grant \cup {x}, grant \ {x} \subseteq grant',
         \A z \in Grants \ {x} : credited'[z] = credited[z],
         credited'[x] <= 1, x \notin grant' => credited'[x] = 0,
         \A q \in Handlers \ {h} : pc[q] \in Crediting => item[q] # x,
         pc'[h] \in Crediting => item'[h] = x /\ x \in grant' /\ credited'[x] = 0
  PROVE  GrantInv'
<1>1. \A q \in Handlers : pc[q] \in Crediting => item[q] \in Grants
  BY DEF Typed, Knows, Crediting, PaymentSteps, TrialSteps, Grants
<1> QED BY <1>1 DEF GrantInv, Aside

LEMMA GrantStep ==
  ASSUME Typed, GrantInv, NEW h \in Handlers, AccountStep(h), Aside(h)
  PROVE  GrantInv'
<1>1. /\ pc \in [Handlers -> Labels] /\ credited \in [Sources -> Nat]
      /\ \A x \in Grants : x \in Sources /\ x # "legacy" /\ credited[x] \in Nat
      /\ pc[h] \in PaymentSteps => item[h] \in Grants
      /\ pc[h] \in TrialSteps => item[h] = "trial"
      /\ "trial" \in Grants
  BY AccountAssumption DEF Typed, AccountsTypeOK, AccountTypeOK, Sources, Grants, Knows
<1>2. CASE ActivateGrant(h) \/ TrialGrant(h)
  <2>1. item[h] \in Grants
    BY <1>1, <1>2 DEF ActivateGrant, TrialGrant, PaymentSteps, TrialSteps
  <2>2. item' = item /\ credited' = credited
    BY <1>2 DEF ActivateGrant, TrialGrant, Goto, poolVars
  <2>3. \/ item[h] \notin grant /\ grant' = grant \cup {item[h]}
        \/ grant' = grant /\ pc'[h] \notin Crediting
    BY <1>1, <1>2, <2>1 DEF ActivateGrant, TrialGrant, Goto, Crediting, TrialSteps
  <2>4. CASE item[h] \notin grant /\ grant' = grant \cup {item[h]}
    BY <1>1, <2>1, <2>2, <2>4, GrantMoves DEF GrantInv
  <2>5. CASE grant' = grant /\ pc'[h] \notin Crediting
    BY <2>2, <2>5 DEF GrantInv, Aside
  <2> QED BY <2>3, <2>4, <2>5
<1>3. CASE ActivateCredit(h) \/ TrialCredit(h)
  <2>1. /\ item[h] \in Grants /\ pc[h] \in Crediting /\ item' = item /\ grant' = grant
        /\ item[h] \in grant /\ credited[item[h]] = 0
    BY <1>1, <1>3 DEF ActivateCredit, TrialCredit, PaymentSteps, TrialSteps, Crediting, Goto, activationVars,
       GrantInv
  <2>2. \A q \in Handlers \ {h} : pc[q] \in Crediting => item[q] # item[h]
    BY <2>1 DEF GrantInv
  <2>3. CASE (\E s \in Scopes : AddCredit(s, item[h])) /\ pc'[h] \notin Crediting
    <3>1. /\ credited'[item[h]] = 1
          /\ \A z \in Grants \ {item[h]} : credited'[z] = credited[z]
      BY <1>1, <2>1, <2>3, SeedCredits DEF AddCredit
    <3> QED BY <2>1, <2>2, <2>3, <3>1, GrantMoves
  <2>4. CASE \E s \in Scopes : AddCreditThrows(s)
    <3>1. \A z \in Grants : credited'[z] = credited[z]
      BY <1>1, <2>1, <2>4, SeedCredits DEF AddCreditThrows, poolVars
    <3> QED BY <1>1, <2>1, <2>2, <3>1, GrantMoves
  <2> QED BY <1>1, <1>3, <2>3, <2>4 DEF ActivateCredit, TrialCredit, Goto, Scopes, Crediting, TrialSteps
<1>4. CASE ActivateUndo(h) \/ TrialUndo(h)
  <2>1. /\ item[h] \in Grants /\ pc[h] \in Crediting /\ item' = item /\ credited' = credited
        /\ item[h] \in grant /\ credited[item[h]] = 0
        /\ grant' = grant \ {item[h]} \/ grant' = grant
        /\ pc'[h] \notin Crediting
    BY <1>1, <1>4 DEF ActivateUndo, TrialUndo, PaymentSteps, TrialSteps, Crediting, Goto, poolVars,
       GrantInv
  <2> QED BY <1>1, <2>1, GrantMoves DEF GrantInv
<1>5. CASE /\ grant' = grant /\ pc'[h] \notin Crediting
           /\ \A x \in Grants : credited'[x] = credited[x]
  <2>1. \A q \in Handlers : pc[q] \in Crediting => item[q] \in Grants
    BY DEF Typed, Knows, Crediting, PaymentSteps, TrialSteps, Grants
  <2> QED BY <1>5, <2>1 DEF GrantInv, Aside
<1> QED BY <1>2, <1>3, <1>4, <1>5, QuietGrants

-----------------------------------------------------------------------------
(* The pool of before the split, of an account that is new or has paid *)

Customer(r) == r # None /\ r.cash /\ r.plan # "trial" /\ r.apiKey # None

LegacyInv ==
  \/ legacy = 0 /\ credited["legacy"] = 0
  \/ /\ quota["paid"] = None => credited["legacy"] = 0
     /\ credited["legacy"] <= legacy
     /\ Customer(sub)
     /\ \A h \in Handlers : /\ seen[h] # None => Customer(seen[h])
                            /\ pc[h] \in TrialSteps => pc[h] = "y_read"
                            /\ pc[h] = "p_write" => seen[h] # None

\* The paid pool of a customer takes the legacy amount when it is made.
LEMMA LegacySeed ==
  ASSUME Typed, LegacyInv, NEW s \in Scopes,
         \/ TakeCredit(s) \/ RejectCredit(s) \/ AddCreditThrows(s)
         \/ \E x \in Sources \ {"legacy"} : AddCredit(s, x)
         \/ quota[s] # None /\ RefundCredit(s)
         \/ UNCHANGED poolVars
  PROVE  /\ legacy' = legacy
         /\ legacy = 0 /\ credited["legacy"] = 0 => credited'["legacy"] = 0
         /\ Customer(sub) /\ (quota["paid"] = None => credited["legacy"] = 0)
              /\ credited["legacy"] <= legacy
            => (quota'["paid"] = None => credited'["legacy"] = 0) /\ credited'["legacy"] <= legacy
<1>1. /\ credited \in [Sources -> Nat] /\ legacy \in Nat /\ quota \in [Scopes -> Nat \cup {None}]
      /\ "legacy" \in Sources /\ "paid" \in Scopes /\ None \notin Nat
  BY NoneIsNothing DEF Typed, AccountsTypeOK, AccountTypeOK, Sources, Scopes
<1> DEFINE Goal == /\ legacy' = legacy
                   /\ legacy = 0 /\ credited["legacy"] = 0 => credited'["legacy"] = 0
                   /\ Customer(sub) /\ (quota["paid"] = None => credited["legacy"] = 0)
                        /\ credited["legacy"] <= legacy
                      => (quota'["paid"] = None => credited'["legacy"] = 0)
                           /\ credited'["legacy"] <= legacy
<1>2. /\ LegacyShare(s) \in {0, legacy}
      /\ quota[s] # None => LegacyShare(s) = 0
      /\ Customer(sub) /\ s # "paid" => LegacyShare(s) = 0
  BY DEF LegacyShare, Customer, PaidSignal
<1>3. Seeded(s) \in Nat
  BY <1>1, <1>2 DEF Seeded
<1>4. ASSUME NEW n \in Nat, NEW credits, "legacy" \notin credits, SeedAnd(s, n, credits)
      PROVE  Goal
  <2>1. credited'["legacy"] = credited["legacy"] + LegacyShare(s) /\ legacy' = legacy
    BY <1>1, <1>2, <1>4 DEF SeedAnd
  <2>2. quota'["paid"] = None => quota["paid"] = None /\ s # "paid"
    BY <1>1, <1>3, <1>4 DEF SeedAnd
  <2> QED BY <1>1, <1>2, <2>1, <2>2
<1>5. CASE TakeCredit(s)
  <2>1. credited'["legacy"] = credited["legacy"] + LegacyShare(s) /\ legacy' = legacy
    BY <1>1, <1>2, <1>5 DEF TakeCredit
  <2>2. quota'["paid"] = None => quota["paid"] = None /\ s # "paid"
    BY <1>1, <1>3, <1>5 DEF TakeCredit
  <2> QED BY <1>1, <1>2, <2>1, <2>2
<1>6. CASE RejectCredit(s) \/ AddCreditThrows(s)
  BY <1>1, <1>4, <1>6 DEF RejectCredit, AddCreditThrows, poolVars
<1>7. CASE \E x \in Sources \ {"legacy"} : AddCredit(s, x)
  BY <1>4, <1>7 DEF AddCredit
<1>8. CASE quota[s] # None /\ RefundCredit(s)
  BY <1>1, <1>8 DEF RefundCredit
<1>9. CASE UNCHANGED poolVars
  BY <1>1, <1>9 DEF poolVars
<1> QED BY <1>5, <1>6, <1>7, <1>8, <1>9

\* What a step does to the pools: one operation on one of them, or nothing.
PoolAdd(s) == \/ RejectCredit(s) \/ AddCreditThrows(s)
              \/ \E x \in Sources \ {"legacy"} : AddCredit(s, x)
              \/ UNCHANGED poolVars
PoolMove(s) == PoolAdd(s) \/ TakeCredit(s) \/ (quota[s] # None /\ RefundCredit(s))

LEMMA PoolMoves ==
  ASSUME Typed, NEW h \in Handlers, AccountStep(h), ~ActivateStart(h)
  PROVE  /\ \E s \in Scopes : PoolMove(s)
         /\ RelayTake(h) \/ RelayRefund(h) \/ \E s \in Scopes : PoolAdd(s)
<1>1. /\ pc[h] \in PoolSteps => item[h] \in Scopes
      /\ pc[h] \in PaymentSteps => item[h] \in Payments
      /\ pc[h] = "y_credit" => item[h] = "trial"
      /\ pc[h] = "r_refund" => quota[item[h]] # None
      /\ Payments \cup {"trial", "topup"} \subseteq Sources \ {"legacy"}
      /\ "paid" \in Scopes /\ "trial" \in Scopes
  BY AccountAssumption DEF Typed, Knows, Sources, Grants, Scopes, TrialSteps
<1>2. CASE RelayTake(h) \/ RelayRefund(h)
  <2>1. item[h] \in Scopes
    BY <1>1, <1>2 DEF RelayTake, RelayRefund, PoolSteps
  <2> QED BY <1>1, <1>2, <2>1 DEF RelayTake, RelayRefund, PoolMove, PoolAdd
<1>3. CASE ActivateCredit(h)
  <2>1. item[h] \in Sources \ {"legacy"}
    BY <1>1, <1>3 DEF ActivateCredit, PaymentSteps
  <2> QED BY <1>1, <1>3, <2>1 DEF ActivateCredit, PoolMove, PoolAdd
<1>4. CASE TrialCredit(h) \/ TopupAdd(h)
  BY <1>1, <1>4 DEF TrialCredit, TopupAdd, PoolMove, PoolAdd
<1>5. CASE UNCHANGED poolVars
  BY <1>1, <1>5 DEF PoolMove, PoolAdd
<1>6. \/ RelayTake(h) \/ RelayRefund(h) \/ ActivateCredit(h) \/ TrialCredit(h) \/ TopupAdd(h)
      \/ UNCHANGED poolVars
  <2>1. CASE RelayStart(h) \/ RelayStep(h) \/ Crash(h) \/ TrialStart(h) \/ TrialStep(h)
    BY <2>1 DEF RelayStart, RelayStep, RelayReadSub, RelaySettle, RelayWebhook, RelayMirror, Crash,
       TrialStart, TrialStep, TrialRead, TrialClaim, TrialGrant, TrialUndo, TrialKey, TrialSub, TrialMark,
       TrialEnd, accountVars
  <2>2. CASE ActivateStep(h)
    BY <2>2 DEF ActivateStep, ActivateIntent, ActivateCheckUsed, ActivateClaim, ActivateKey, ActivateGrant,
       ActivateUndo, ActivateSub, ActivateCommit, ActivateClean, ActivateFail, accountVars
  <2>3. CASE \/ RotateStart(h) \/ RotateLock(h) \/ RotateMint(h) \/ RotateSub(h) \/ RotateOld(h)
             \/ RotateUnlock(h) \/ ProvisionStart(h) \/ ProvisionWrite(h) \/ TopupStart(h) \/ TopupWrite(h)
    BY <2>3 DEF RotateStart, RotateLock, RotateMint, RotateSub, RotateOld, RotateUnlock, ProvisionStart,
       ProvisionWrite, TopupStart, TopupWrite, accountVars
  <2> QED BY <2>1, <2>2, <2>3, TopupAdd(h) \/ ~TopupAdd(h) DEF AccountStep
<1> QED BY <1>2, <1>3, <1>4, <1>5, <1>6

\* A customer stays one, whatever is written back, and gets no trial.
Served(h) == /\ seen[h] # None => Customer(seen[h])
             /\ pc[h] \in TrialSteps => pc[h] = "y_read"
             /\ pc[h] = "p_write" => seen[h] # None

LEMMA CustomerStep ==
  ASSUME Typed, NEW h \in Handlers, AccountStep(h), Customer(sub), Served(h)
  PROVE  Customer(sub)' /\ Served(h)'
<1>1. /\ pc \in [Handlers -> Labels] /\ seen \in [Handlers -> Sub \cup {None}] /\ key \in [Handlers -> Keys \cup {None}]
      /\ pc[h] \in ReadSteps => seen[h] \in Sub
      /\ pc[h] \in KeyedSteps => key[h] \in Keys
      /\ sub \in Sub \cup {None} /\ None \notin Keys /\ None \notin Sub
  BY NoneIsNothing DEF Typed, AccountsTypeOK, AccountTypeOK, Knows
<1>2. seen[h] \in Sub => Customer(seen[h])
  BY <1>1 DEF Served
<1> USE <1>1, <1>2 DEF Served, TrialSteps, Goto, End, Begin, SetSub
<1>3. CASE RelayStart(h) \/ RelayStep(h) \/ Crash(h)
  BY <1>3 DEF RelayStart, RelayStep, RelayReadSub, RelayTake, RelaySettle, RelayRefund, RelayWebhook,
     RelayMirror, Crash, accountVars, ReadSteps, InlineSteps
<1>4. CASE ActivateStart(h)
  BY <1>4 DEF ActivateStart, Promoted, LegacyTrialKey, Customer
<1>5. CASE ActivateSub(h)
  <2>1. key[h] \in Keys /\ UNCHANGED <<seen, key>> /\ pc'[h] \in {"a_commit", "a_fail"}
    BY <1>5 DEF ActivateSub, KeyedSteps
  <2>2. CASE SetSub([plan |-> "starter", apiKey |-> key[h], sandbox |-> TRUE, cash |-> TRUE,
                     trialKey |-> IF seen[h] = None THEN None ELSE seen[h].trialKey,
                     window |-> 1 + IF seen[h] = None THEN 0 ELSE seen[h].window])
    <3>1. sub' \in Sub
      BY <2>1, <2>2 DEF Sub
    <3>2. sub'.cash /\ sub'.plan = "starter" /\ sub'.apiKey = key[h]
      BY <2>2
    <3> QED BY <2>1, <3>1, <3>2 DEF Customer
  <2> QED BY <1>5, <2>1, <2>2 DEF ActivateSub, Customer
<1>6. CASE ActivateStep(h) /\ ~ActivateSub(h)
  BY <1>6 DEF ActivateStep, ActivateIntent, ActivateCheckUsed, ActivateClaim, ActivateKey, ActivateGrant,
     ActivateCredit, ActivateUndo, ActivateCommit, ActivateClean, ActivateFail, accountVars
<1>7. CASE RotateSub(h)
  BY <1>7 DEF RotateSub, RotatedSub, LegacyTrialKey, Customer, ReadSteps, KeySteps, KeyedSteps, Sub
<1>8. CASE RotateStart(h) \/ RotateLock(h) \/ RotateMint(h) \/ RotateOld(h) \/ RotateUnlock(h)
  BY <1>8 DEF RotateStart, RotateLock, RotateMint, RotateOld, RotateUnlock, accountVars
<1>9. CASE ProvisionStart(h) \/ ProvisionWrite(h)
  <2>1. CASE ProvisionStart(h)
    BY <2>1 DEF ProvisionStart, Customer, accountVars
  <2>2. CASE ProvisionWrite(h) /\ sub' # sub
    <3>1. seen[h] \in Sub /\ sub' = [seen[h] EXCEPT !.sandbox = TRUE]
      BY <2>2 DEF ProvisionWrite
    <3>2. sub' \in Sub /\ Customer(sub)'
      BY <3>1 DEF Customer, Sub
    <3> QED BY <2>2, <3>2 DEF ProvisionWrite
  <2>3. CASE ProvisionWrite(h) /\ sub' = sub
    BY <2>3 DEF ProvisionWrite, Customer
  <2> QED BY <1>9, <2>1, <2>2, <2>3
<1>10. CASE TopupStart(h) \/ TopupAdd(h) \/ TopupWrite(h)
  BY <1>10 DEF TopupStart, TopupAdd, TopupWrite, accountVars, ReadSteps
<1>11. CASE TrialStart(h) \/ TrialRead(h)
  BY <1>11 DEF TrialStart, TrialRead, MultichainScope, Customer, accountVars
<1>12. CASE TrialStep(h) /\ ~TrialRead(h)
  BY <1>12 DEF TrialStep, TrialClaim, TrialGrant, TrialCredit, TrialUndo, TrialKey, TrialSub, TrialMark,
     TrialEnd
<1> QED BY <1>3, <1>4, <1>5, <1>6, <1>7, <1>8, <1>9, <1>10, <1>11, <1>12 DEF AccountStep

LEMMA LegacyStep ==
  ASSUME Typed, LegacyInv, NEW h \in Handlers, AccountStep(h), Aside(h)
  PROVE  LegacyInv'
<1>1. ASSUME Customer(sub), \A q \in Handlers : Served(q)
      PROVE  Customer(sub)' /\ \A q \in Handlers : Served(q)'
  <2>1. Customer(sub)' /\ Served(h)'
    BY <1>1, CustomerStep
  <2> QED BY <1>1, <2>1 DEF Aside, Served, Customer
<1>2. CASE ActivateStart(h)
  <2>1. legacy' = legacy
    BY <1>2 DEF ActivateStart, poolVars
  <2>2. legacy = 0 \/ Customer(sub) => UNCHANGED poolVars
    BY <1>2 DEF ActivateStart, Customer, PaidSignal
  <2> QED BY <1>1, <2>1, <2>2 DEF LegacyInv, Served, Customer, poolVars
<1>3. CASE ~ActivateStart(h)
  <2>1. PICK s \in Scopes : PoolMove(s)
    BY <1>3, PoolMoves
  <2>2. /\ legacy' = legacy
        /\ legacy = 0 /\ credited["legacy"] = 0 => credited'["legacy"] = 0
        /\ Customer(sub) /\ (quota["paid"] = None => credited["legacy"] = 0)
              /\ credited["legacy"] <= legacy
            => (quota'["paid"] = None => credited'["legacy"] = 0) /\ credited'["legacy"] <= legacy
    BY <2>1, LegacySeed DEF PoolMove, PoolAdd
  <2> QED BY <1>1, <2>2 DEF LegacyInv, Served, Customer
<1> QED BY <1>2, <1>3

LEMMA GrantInit == AccountsInit => GrantInv
BY AccountAssumption DEF AccountsInit, AccountInit, HandlerInit, GrantInv, Crediting, Sources, Grants

LEMMA LegacyInit == AccountsInit /\ "legacy_trial" \notin Shapes => LegacyInv
<1> SUFFICES ASSUME AccountsInit, "legacy_trial" \notin Shapes PROVE LegacyInv
  OBVIOUS
<1>1. credited["legacy"] = 0 /\ \A h \in Handlers : seen[h] = None /\ pc[h] = "idle"
  BY DEF AccountsInit, AccountInit, HandlerInit, Sources
<1>2. CASE legacy = 0
  BY <1>1, <1>2 DEF LegacyInv
<1>3. CASE legacy = 1
  <2>1. Customer(sub)
    <3> DEFINE first == CHOOSE x \in Keys : TRUE
    <3>1. sub = [plan |-> "starter", apiKey |-> first, trialKey |-> None, sandbox |-> TRUE,
                 cash |-> TRUE, window |-> 1]
      BY <1>3 DEF AccountsInit, AccountInit, InitShape
    <3>2. first \in Keys
      BY AccountAssumption
    <3> HIDE DEF first
    <3>3. sub \in Sub
      BY <3>1, <3>2 DEF Sub
    <3> QED BY <3>1, <3>2, <3>3, NoneIsNothing DEF Customer
  <2> QED BY <1>1, <1>3, <2>1 DEF LegacyInv, TrialSteps
<1> QED BY <1>2, <1>3, Zenon DEF AccountsInit, AccountInit, InitShape

LEMMA CreditNext ==
  ASSUME Typed, GrantInv, [AccountsNext]_accountsVars
  PROVE  GrantInv' /\ (LegacyInv => LegacyInv')
<1>1. ASSUME NEW h \in Handlers, AccountStep(h), UNCHANGED receiptVars
      PROVE  GrantInv' /\ (LegacyInv => LegacyInv')
  BY <1>1, AccountLocal, GrantStep, LegacyStep DEF Local
<1>2. ASSUME NEW h \in Handlers, ReceiptStep(h)
      PROVE  GrantInv' /\ (LegacyInv => LegacyInv')
  <2>1. Aside(h) /\ pc'[h] \notin Crediting \cup TrialSteps \cup {"p_write"} /\ seen'[h] \in {seen[h], None}
    BY <1>2, ReceiptLocal, ReceiptMoves DEF Local
  <2>2. UNCHANGED <<sub, quota, legacy, credited, grant>>
    BY <1>2, ReceiptMoves DEF accountVars, poolVars, activationVars
  <2>3. \A q \in Handlers : pc[q] \in Crediting => item[q] \in Grants
    BY DEF Typed, Knows, Crediting, PaymentSteps, TrialSteps, Grants
  <2>4. GrantInv'
    BY <2>1, <2>2, <2>3 DEF GrantInv, Aside
  <2>5. LegacyInv => LegacyInv'
    BY <2>1, <2>2 DEF LegacyInv, Aside, Customer
  <2> QED BY <2>4, <2>5
<1>3. CASE UNCHANGED <<sub, keyRec, poolVars, grant, pc, seen, key, item, txScope>>
  BY <1>3 DEF GrantInv, LegacyInv, Customer, poolVars
<1> QED BY <1>1, <1>2, <1>3, Expiries DEF AccountsNext

LEMMA AlwaysGranted == AccountsSpec => [](Typed /\ GrantInv)
<1>1. Typed /\ GrantInv /\ [AccountsNext]_accountsVars => (Typed /\ GrantInv)'
  BY TypedStep, CreditNext
<1> QED BY TypedInit, GrantInit, <1>1, PTL DEF AccountsSpec

\* However often a payment or the trial is activated, and wherever an
\* activation fails, it is credited once; and an account that is new or has
\* paid gets its pool of before the split once.
THEOREM GrantsCreditedOnce == "legacy_trial" \notin Shapes => (AccountsSpec => []CreditedOnce)
<1> SUFFICES ASSUME "legacy_trial" \notin Shapes PROVE AccountsSpec => []CreditedOnce
  OBVIOUS
<1>1. AccountsInit => LegacyInv
  BY LegacyInit
<1>2. Typed /\ GrantInv /\ LegacyInv /\ [AccountsNext]_accountsVars => LegacyInv'
  BY CreditNext
<1>3. Typed /\ GrantInv /\ LegacyInv => CreditedOnce
  BY DEF GrantInv, LegacyInv, CreditedOnce, Typed, AccountsTypeOK, AccountTypeOK
<1> QED BY AlwaysGranted, <1>1, <1>2, <1>3, PTL DEF AccountsSpec

-----------------------------------------------------------------------------
(* Settlements are backed by credits *)

InFlight(s) == {h \in Handlers : pc[h] \in Charging /\ item[h] = s}
SettledFrom(s) == {t \in Txs : txScope[t] = s}

BackedInv ==
  \A s \in Scopes : Balance(s) + Cardinality(InFlight(s)) + Cardinality(SettledFrom(s)) <= added[s]

\* Every operation on a pool but a take and a refund adds what it accounts for.
LEMMA BalanceMoves ==
  ASSUME Typed, NEW s \in Scopes, NEW z \in Scopes,
         PoolAdd(s)
  PROVE  Balance(z)' \in Nat /\ added'[z] \in Nat /\ Balance(z)' + added[z] = Balance(z) + added'[z]
<1>1. quota \in [Scopes -> Nat \cup {None}] /\ legacy \in Nat /\ added \in [Scopes -> Nat] /\ None \notin Nat
  BY NoneIsNothing DEF Typed, AccountsTypeOK, AccountTypeOK
<1>2. LegacyShare(s) \in Nat /\ Seeded(s) = Balance(s) + LegacyShare(s) /\ Seeded(s) \in Nat
  BY <1>1 DEF LegacyShare, Seeded, Balance
<1>3. ASSUME NEW n \in Nat, NEW credits, SeedAnd(s, n, credits)
      PROVE  Balance(z)' \in Nat /\ added'[z] \in Nat /\ Balance(z)' + added[z] = Balance(z) + added'[z]
  BY <1>1, <1>2, <1>3 DEF SeedAnd, Balance
<1>4. CASE UNCHANGED poolVars
  BY <1>1, <1>4 DEF poolVars, Balance
<1> QED BY <1>3, <1>4 DEF PoolAdd, RejectCredit, AddCreditThrows, AddCredit

\* One credit less in the pool, one more in flight.
LEMMA BalanceTaken ==
  ASSUME Typed, NEW s \in Scopes, NEW z \in Scopes, TakeCredit(s)
  PROVE  /\ Balance(z)' \in Nat /\ added'[z] \in Nat
         /\ Balance(z)' + added[z] + (IF z = s THEN 1 ELSE 0) = Balance(z) + added'[z]
<1>1. quota \in [Scopes -> Nat \cup {None}] /\ legacy \in Nat /\ added \in [Scopes -> Nat] /\ None \notin Nat
  BY NoneIsNothing DEF Typed, AccountsTypeOK, AccountTypeOK
<1>2. LegacyShare(s) \in Nat /\ Seeded(s) = Balance(s) + LegacyShare(s) /\ Seeded(s) \in Nat
  BY <1>1 DEF LegacyShare, Seeded, Balance
<1> QED BY <1>1, <1>2 DEF TakeCredit, Balance

\* The counts: finite, and changed by h alone.
LEMMA FlightMoves ==
  ASSUME Typed, NEW h \in Handlers, Aside(h), IsFiniteSet(Handlers), NEW s \in Scopes
  PROVE  /\ Cardinality(InFlight(s)) \in Nat /\ Cardinality(InFlight(s))' \in Nat
         /\ Cardinality(InFlight(s))' + (IF h \in InFlight(s) THEN 1 ELSE 0)
              = Cardinality(InFlight(s)) + (IF h \in InFlight(s)' THEN 1 ELSE 0)
<1> DEFINE F == InFlight(s)
           G == InFlight(s)'
<1>1. IsFiniteSet(F) /\ IsFiniteSet(G)
  BY FS_Subset DEF InFlight
<1>2. F \ {h} = G \ {h}
  BY DEF InFlight, Aside
<1>3. /\ Cardinality(F) \in Nat /\ Cardinality(G) \in Nat
      /\ Cardinality(F \ {h}) = IF h \in F THEN Cardinality(F) - 1 ELSE Cardinality(F)
      /\ Cardinality(G \ {h}) = IF h \in G THEN Cardinality(G) - 1 ELSE Cardinality(G)
  BY <1>1, FS_RemoveElement, FS_CardinalityType
<1>4. Cardinality(F \ {h}) = Cardinality(G \ {h})
  BY <1>2
<1> QED BY <1>3, <1>4

LEMMA SettledMoves ==
  ASSUME IsFiniteSet(Txs), NEW s \in Scopes
  PROVE  /\ Cardinality(SettledFrom(s)) \in Nat
         /\ txScope' = txScope => Cardinality(SettledFrom(s))' = Cardinality(SettledFrom(s))
         /\ \A t \in Txs, z \in Scopes : txScope \in [Txs -> Scopes \cup {None}] /\ txScope[t] = None
               /\ txScope' = [txScope EXCEPT ![t] = z]
               => Cardinality(SettledFrom(s))' = Cardinality(SettledFrom(s)) + (IF z = s THEN 1 ELSE 0)
<1>1. IsFiniteSet(SettledFrom(s))
  BY FS_Subset DEF SettledFrom
<1>2. Cardinality(SettledFrom(s)) \in Nat
  BY <1>1, FS_CardinalityType
<1>3. ASSUME NEW t \in Txs, NEW z \in Scopes, txScope \in [Txs -> Scopes \cup {None}], txScope[t] = None,
             txScope' = [txScope EXCEPT ![t] = z]
      PROVE  Cardinality(SettledFrom(s))' = Cardinality(SettledFrom(s)) + (IF z = s THEN 1 ELSE 0)
  <2>1. SettledFrom(s)' = IF z = s THEN SettledFrom(s) \cup {t} ELSE SettledFrom(s)
    BY <1>3, NoneIsNothing DEF SettledFrom
  <2>2. t \notin SettledFrom(s)
    BY <1>3, NoneIsNothing DEF SettledFrom
  <2>3. Cardinality(SettledFrom(s) \cup {t}) = Cardinality(SettledFrom(s)) + 1
    BY <1>1, <2>2, FS_AddElement
  <2> QED BY <1>2, <2>1, <2>3
<1> QED BY <1>2, <1>3 DEF SettledFrom

\* Credits get in flight by a take and out of it by a settlement or a refund.
LEMMA ChargeMoves ==
  ASSUME Typed, NEW h \in Handlers, AccountStep(h), ~RelaySettle(h)
  PROVE  /\ txScope' = txScope
         /\ RelayTake(h) \/ pc'[h] \notin Charging
<1>1. pc \in [Handlers -> Labels]
  BY DEF Typed, AccountsTypeOK
<1> USE <1>1 DEF Charging, Goto, End, Begin
<1>2. CASE RelayStart(h) \/ RelayStep(h) \/ Crash(h)
  BY <1>2 DEF RelayStart, RelayStep, RelayReadSub, RelayTake, RelayRefund, RelayWebhook, RelayMirror, Crash
<1>3. CASE ActivateStart(h) \/ ActivateStep(h)
  BY <1>3 DEF ActivateStart, ActivateStep, ActivateIntent, ActivateCheckUsed, ActivateClaim,
     ActivateKey, ActivateGrant, ActivateCredit, ActivateUndo, ActivateSub, ActivateCommit, ActivateClean,
     ActivateFail
<1>4. CASE RotateStart(h) \/ RotateLock(h) \/ RotateMint(h) \/ RotateSub(h) \/ RotateOld(h) \/ RotateUnlock(h)
             \/ ProvisionStart(h) \/ ProvisionWrite(h) \/ TopupStart(h) \/ TopupAdd(h) \/ TopupWrite(h)
  BY <1>4 DEF RotateStart, RotateLock, RotateMint, RotateSub, RotateOld, RotateUnlock, ProvisionStart,
     ProvisionWrite, TopupStart, TopupAdd, TopupWrite
<1>5. CASE TrialStart(h) \/ TrialStep(h)
  BY <1>5 DEF TrialStart, TrialStep, TrialRead, TrialClaim, TrialGrant, TrialCredit, TrialUndo, TrialKey,
     TrialSub, TrialMark, TrialEnd
<1> QED BY <1>2, <1>3, <1>4, <1>5 DEF AccountStep

LEMMA BackedStep ==
  ASSUME Typed, BackedInv, "rpc" \notin Faults, IsFiniteSet(Handlers), IsFiniteSet(Txs),
         NEW h \in Handlers, AccountStep(h), Aside(h)
  PROVE  BackedInv'
<1> SUFFICES ASSUME NEW s \in Scopes
             PROVE  Balance(s)' + Cardinality(InFlight(s))' + Cardinality(SettledFrom(s))' <= added'[s]
  BY DEF BackedInv
<1> DEFINE F == Cardinality(InFlight(s))
           G == Cardinality(InFlight(s))'
           S == Cardinality(SettledFrom(s))
           T == Cardinality(SettledFrom(s))'
<1>1. /\ F \in Nat /\ G \in Nat /\ S \in Nat
      /\ G + (IF h \in InFlight(s) THEN 1 ELSE 0) = F + (IF h \in InFlight(s)' THEN 1 ELSE 0)
  BY FlightMoves, SettledMoves
<1>2. /\ Balance(s) + F + S <= added[s] /\ Balance(s) \in Nat /\ added[s] \in Nat
      /\ pc \in [Handlers -> Labels] /\ item \in [Handlers -> Payments \cup Scopes \cup Txs \cup {None}]
      /\ quota \in [Scopes -> Nat \cup {None}] /\ txScope \in [Txs -> Scopes \cup {None}]
      /\ pc[h] \in PoolSteps => item[h] \in Scopes
      /\ pc[h] = "r_refund" => quota[item[h]] # None
  BY DEF BackedInv, Typed, AccountsTypeOK, AccountTypeOK, Balance, Knows
<1> HIDE DEF F, G, S, T
<1>3. txScope' = txScope => T = S
  BY SettledMoves DEF S, T
<1>4. CASE RelayTake(h)
  <2>1. item[h] \in Scopes /\ txScope' = txScope /\ h \notin InFlight(s)
    BY <1>2, <1>4 DEF RelayTake, PoolSteps, InFlight, Charging
  <2>2. CASE TakeCredit(item[h]) /\ Goto(h, "r_settle")
    <3>1. h \in InFlight(s)' <=> s = item[h]
      BY <1>2, <2>2 DEF Goto, InFlight, Charging
    <3>2. /\ Balance(s)' \in Nat /\ added'[s] \in Nat
          /\ Balance(s)' + added[s] + (IF s = item[h] THEN 1 ELSE 0) = Balance(s) + added'[s]
      BY <2>1, <2>2, BalanceTaken
    <3> QED BY <1>1, <1>2, <1>3, <2>1, <3>1, <3>2 DEF F, G, S, T
  <2>3. CASE PoolAdd(item[h]) /\ End(h)
    <3>1. h \notin InFlight(s)'
      BY <1>2, <2>3 DEF End, InFlight, Charging
    <3>2. Balance(s)' \in Nat /\ added'[s] \in Nat /\ Balance(s)' + added[s] = Balance(s) + added'[s]
      BY <2>1, <2>3, BalanceMoves
    <3> QED BY <1>1, <1>2, <1>3, <2>1, <3>1, <3>2 DEF F, G, S, T
  <2> QED BY <1>4, <2>2, <2>3 DEF RelayTake, PoolAdd
<1>5. CASE RelaySettle(h)
  <2>1. UNCHANGED <<quota, added>> /\ Balance(s)' = Balance(s)
    BY <1>5 DEF RelaySettle, accountVars, poolVars, Balance
  <2>2. item[h] \in Scopes /\ (h \in InFlight(s) <=> s = item[h])
    BY <1>2, <1>5 DEF RelaySettle, PoolSteps, InFlight, Charging
  <2>3. CASE UNCHANGED txScope
    <3>1. h \in InFlight(s)' => h \in InFlight(s)
      BY <1>2, <1>5, <2>2, <2>3 DEF RelaySettle, Goto, InFlight, Charging
    <3> QED BY <1>1, <1>2, <1>3, <2>1, <2>3, <3>1 DEF F, G, S, T
  <2>4. CASE ~UNCHANGED txScope
    <3>1. PICK t \in Txs : txScope[t] = None /\ txScope' = [txScope EXCEPT ![t] = item[h]]
      BY <1>5, <2>4 DEF RelaySettle
    <3>2. pc'[h] = "r_webhook"
      BY <1>2, <1>5, <2>4 DEF RelaySettle, CanFail
    <3>3. h \notin InFlight(s)'
      BY <3>2 DEF InFlight, Charging
    <3>4. T = S + (IF item[h] = s THEN 1 ELSE 0)
      BY <1>2, <2>2, <3>1, SettledMoves DEF S, T
    <3> QED BY <1>1, <1>2, <2>1, <2>2, <3>3, <3>4 DEF F, G, S, T
  <2> QED BY <2>3, <2>4
<1>6. CASE RelayRefund(h)
  <2>1. /\ item[h] \in Scopes /\ (h \in InFlight(s) <=> s = item[h]) /\ h \notin InFlight(s)'
        /\ txScope' = txScope /\ added' = added
    BY <1>2, <1>6 DEF RelayRefund, RefundCredit, End, PoolSteps, InFlight, Charging, poolVars
  <2>2. Balance(s)' = Balance(s) \/ (s = item[h] /\ Balance(s)' = Balance(s) + 1)
    BY <1>2, <1>6, <2>1, NoneIsNothing DEF RelayRefund, RefundCredit, poolVars, Balance
  <2> QED BY <1>1, <1>2, <1>3, <2>1, <2>2 DEF F, G, S, T
<1>7. CASE ~RelayTake(h) /\ ~RelaySettle(h) /\ ~RelayRefund(h)
  <2>1. txScope' = txScope /\ h \notin InFlight(s)'
    BY <1>7, ChargeMoves DEF InFlight
  <2>2. Balance(s)' \in Nat /\ added'[s] \in Nat /\ Balance(s)' + added[s] = Balance(s) + added'[s]
    <3>1. CASE ActivateStart(h)
      <4>1. legacy \in Nat /\ added \in [Scopes -> Nat] /\ "trial" \in Scopes
        BY DEF Typed, AccountsTypeOK, AccountTypeOK, Scopes
      <4> QED BY <1>2, <3>1, <4>1, NoneIsNothing DEF ActivateStart, Balance, poolVars
    <3>2. CASE ~ActivateStart(h)
      <4>1. PICK z \in Scopes : PoolAdd(z)
        BY <1>7, <3>2, PoolMoves
      <4> QED BY <4>1, BalanceMoves
    <3> QED BY <3>1, <3>2
  <2> QED BY <1>1, <1>2, <1>3, <2>1, <2>2 DEF F, G, S, T
<1> QED BY <1>4, <1>5, <1>6, <1>7

LEMMA BackedNext ==
  ASSUME Typed, BackedInv, "rpc" \notin Faults, IsFiniteSet(Handlers), IsFiniteSet(Txs),
         [AccountsNext]_accountsVars
  PROVE  BackedInv'
<1>1. ASSUME NEW h \in Handlers, AccountStep(h), UNCHANGED receiptVars
      PROVE  BackedInv'
  BY <1>1, AccountLocal, BackedStep DEF Local
<1>2. ASSUME NEW h \in Handlers, ReceiptStep(h), NEW s \in Scopes
      PROVE  Balance(s)' + Cardinality(InFlight(s))' + Cardinality(SettledFrom(s))' <= added'[s]
  <2>1. Aside(h) /\ UNCHANGED <<quota, added, txScope>> /\ h \notin InFlight(s)'
    BY <1>2, ReceiptLocal, ReceiptMoves DEF Local, accountVars, poolVars, InFlight
  <2>2. /\ Balance(s) + Cardinality(InFlight(s)) + Cardinality(SettledFrom(s)) <= added[s]
        /\ Balance(s) \in Nat /\ added[s] \in Nat /\ Balance(s)' = Balance(s)
    BY <2>1 DEF BackedInv, Typed, AccountsTypeOK, AccountTypeOK, Balance
  <2>3. /\ Cardinality(InFlight(s)) \in Nat /\ Cardinality(InFlight(s))' \in Nat
        /\ Cardinality(InFlight(s))' <= Cardinality(InFlight(s))
    BY <2>1, FlightMoves
  <2>4. Cardinality(SettledFrom(s)) \in Nat /\ Cardinality(SettledFrom(s))' = Cardinality(SettledFrom(s))
    BY <2>1, SettledMoves
  <2> QED BY <2>1, <2>2, <2>3, <2>4
<1>3. CASE UNCHANGED <<sub, keyRec, poolVars, grant, pc, seen, key, item, txScope>>
  BY <1>3 DEF BackedInv, Balance, InFlight, SettledFrom, poolVars
<1> QED BY <1>1, <1>2, <1>3, Expiries DEF AccountsNext, BackedInv

\* What is left in a pool and what was settled from it never exceed what was
\* added to it, as long as a settlement that is reported to have failed has.
THEOREM SettlementsBacked ==
  "rpc" \notin Faults /\ IsFiniteSet(Handlers) /\ IsFiniteSet(Txs) => (AccountsSpec => []PoolsBacked)
<1> SUFFICES ASSUME "rpc" \notin Faults, IsFiniteSet(Handlers), IsFiniteSet(Txs)
             PROVE  AccountsSpec => []PoolsBacked
  OBVIOUS
<1>1. AccountsInit => BackedInv
  <2> SUFFICES ASSUME AccountsInit PROVE BackedInv
    OBVIOUS
  <2>1. \A s \in Scopes : InFlight(s) = {} /\ SettledFrom(s) = {} /\ added[s] = 0 /\ Balance(s) = 0
    <3>1. quota = [s \in Scopes |-> None]
      BY Zenon DEF AccountsInit, AccountInit, InitShape
    <3> QED BY <3>1, NoneIsNothing DEF AccountsInit, AccountInit, HandlerInit, InFlight, SettledFrom, Charging,
            Balance
  <2> QED BY <2>1, FS_EmptySet DEF BackedInv
<1>2. Typed /\ BackedInv /\ [AccountsNext]_accountsVars => BackedInv'
  BY BackedNext
<1>3. Typed /\ BackedInv => PoolsBacked
  <2> SUFFICES ASSUME Typed, BackedInv, NEW s \in Scopes PROVE Balance(s) + Settled(s) <= added[s]
    BY DEF PoolsBacked
  <2>1. Cardinality(InFlight(s)) \in Nat /\ Cardinality(SettledFrom(s)) \in Nat
    BY FS_Subset, FS_CardinalityType DEF InFlight, SettledFrom
  <2>2. Balance(s) \in Nat /\ added[s] \in Nat
    BY DEF Typed, AccountsTypeOK, AccountTypeOK, Balance
  <2> QED BY <2>1, <2>2 DEF BackedInv, Settled, SettledFrom
<1> QED BY AlwaysTyped, <1>1, <1>2, <1>3, PTL DEF AccountsSpec

-----------------------------------------------------------------------------
(* Key slots *)

\* A trial account of before the split has its trial key in the paid slot.
OldStyle(r) == r # None /\ r.plan = "trial" /\ r.apiKey # None

\* No trial is activated any more.
TrialOver == trialUsed /\ \A h \in Handlers : pc[h] \notin TrialSteps

\* The keys a record names were minted for the slots they are in.
Slotted(r) ==
  /\ r # None => /\ r.trialKey # None => keyRec[r.trialKey].plan = "trial"
                 /\ r.apiKey # None => keyRec[r.apiKey].plan = r.plan
  /\ OldStyle(r) => r.trialKey = None /\ TrialOver

ReadTrial == {"y_claim", "y_grant", "y_credit", "y_key", "y_sub"}
PaidKey == {"a_grant", "a_credit", "a_sub"}

\* What an invocation at step l that read r and holds the key k for i knows of them.
Fits(l, r, k, i) ==
  /\ Slotted(r)
  /\ l \in PaymentSteps => ~OldStyle(r)
  /\ l \in PaidKey => keyRec[k].plan = "starter"
  /\ l = "y_sub" => keyRec[k].plan = "trial"
  /\ l = "k_sub" => keyRec[k].plan = IF i = "trial" THEN "trial" ELSE r.plan
  /\ l \in ReadTrial => ~MultichainScope(r)

Bears(h) == Fits(pc[h], seen[h], key[h], item[h])
SlotInv == Slotted(sub) /\ \A h \in Handlers : Bears(h)

\* A key keeps the plan it was minted with.
SamePlans == \A k \in Keys : keyRec[k] # None => keyRec'[k].plan = keyRec[k].plan

LEMMA MintKeepsPlans ==
  ASSUME Typed, NEW k \in Keys, NEW p \in {"starter", "trial"}, NewKey(k, p)
  PROVE  SamePlans /\ keyRec'[k].plan = p
<1>1. keyRec \in [Keys -> KeyRecord \cup {None}]
  BY DEF Typed, AccountsTypeOK, AccountTypeOK
<1>2. \A x \in Keys : keyRec'[x] = IF x = k THEN [plan |-> p, active |-> TRUE] ELSE keyRec[x]
  BY <1>1 DEF NewKey
<1> QED BY <1>2 DEF SamePlans, NewKey

LEMMA DeactivateKeepsPlans ==
  ASSUME Typed, NEW k \in Keys, keyRec[k] # None, Deactivate(k)
  PROVE  SamePlans
<1>1. keyRec \in [Keys -> KeyRecord \cup {None}] /\ keyRec[k] \in KeyRecord
  BY DEF Typed, AccountsTypeOK, AccountTypeOK
<1>2. [keyRec[k] EXCEPT !.active = FALSE].plan = keyRec[k].plan
  BY <1>1 DEF KeyRecord
<1>3. CASE keyRec' = [keyRec EXCEPT ![k] = [keyRec[k] EXCEPT !.active = FALSE]]
  <2>1. \A x \in Keys : keyRec'[x] = IF x = k THEN [keyRec[k] EXCEPT !.active = FALSE] ELSE keyRec[x]
    BY <1>1, <1>3
  <2> QED BY <1>2, <2>1 DEF SamePlans
<1>4. CASE UNCHANGED keyRec
  BY <1>4 DEF SamePlans
<1> QED BY <1>3, <1>4 DEF Deactivate

\* No step changes the plan of a key that is there.
LEMMA PlansKept ==
  ASSUME Typed, NEW h \in Handlers, AccountStep(h) \/ ReceiptStep(h)
  PROVE  SamePlans
<1>1. CASE ActivateKey(h)
  BY <1>1, MintKeepsPlans DEF ActivateKey, SamePlans
<1>2. CASE RotateMint(h)
  <2>1. seen[h].plan \in {"starter", "trial"}
    BY <1>2 DEF RotateMint, Typed, Knows, ReadSteps, KeySteps, Sub
  <2> QED BY <1>2, <2>1, MintKeepsPlans DEF RotateMint, SamePlans
<1>3. CASE RotateOld(h)
  <2>1. /\ OldKey(seen[h], item[h]) \in Keys
        /\ keyRec[OldKey(seen[h], item[h])] # None
    <3>1. /\ seen[h] \in Sub /\ HasKey(seen[h], item[h]) /\ item[h] \in Scopes /\ Recorded(seen[h])
      BY <1>3 DEF RotateOld, Typed, Knows, ReadSteps, KeySteps
    <3>2. ASSUME NEW r \in Sub, NEW s \in Scopes, HasKey(r, s), Recorded(r)
          PROVE  OldKey(r, s) \in Keys /\ keyRec[OldKey(r, s)] # None
      BY <3>2, NoneIsNothing DEF HasKey, OldKey, TrialSignal, LegacyTrialKey, Recorded, Sub
    <3> QED BY <3>1, <3>2
  <2> QED BY <1>3, <2>1, DeactivateKeepsPlans DEF RotateOld
<1>4. CASE TrialKey(h)
  BY <1>4, MintKeepsPlans DEF TrialKey, SamePlans
<1>5. CASE UNCHANGED keyRec
  BY <1>5 DEF SamePlans
<1>6. ActivateKey(h) \/ RotateMint(h) \/ RotateOld(h) \/ TrialKey(h) \/ UNCHANGED keyRec
  BY DEF AccountStep, RelayStart, RelayStep, RelayReadSub, RelayTake, RelaySettle, RelayRefund, RelayWebhook,
         RelayMirror, ActivateStart, ActivateStep, ActivateIntent, ActivateCheckUsed, ActivateClaim,
         ActivateGrant, ActivateCredit, ActivateUndo, ActivateSub, ActivateCommit,
         ActivateClean, ActivateFail, RotateStart, RotateLock, RotateSub,
         RotateUnlock, ProvisionStart, ProvisionWrite, TopupStart, TopupAdd, TopupWrite, TrialStart,
         TrialStep, TrialRead, TrialClaim, TrialGrant, TrialCredit, TrialUndo, TrialSub,
         TrialMark, TrialEnd, Crash, ReceiptStep, InlineReceipt, InlineClaim, InlineBody, Enqueue,
         EnqueueRest, PageReceipt, FillStart, FillStep, FillRead, FillDropOrphan, FillLock, FillClaim,
         FillBody, FillDequeue, FillBump, FillGiveUp, FillUnlock, accountVars, keyVars
<1> QED BY <1>1, <1>2, <1>3, <1>4, <1>5, <1>6

\* A trial that is used stays used, and none is activated after it.
LEMMA OverStays ==
  ASSUME Typed, NEW h \in Handlers, AccountStep(h) \/ ReceiptStep(h), Aside(h), TrialOver
  PROVE  TrialOver'
<1>1. trialUsed /\ pc[h] \notin TrialSteps /\ pc \in [Handlers -> Labels]
  BY DEF TrialOver, Typed, AccountsTypeOK
<1>2. trialUsed' /\ pc'[h] \notin TrialSteps
  <2> USE <1>1 DEF TrialSteps, Goto, End, Begin
  <2>1. CASE RelayStart(h) \/ RelayStep(h)
    BY <2>1 DEF RelayStart, RelayStep, RelayReadSub, RelayTake, RelaySettle, RelayRefund,
                RelayWebhook, RelayMirror, accountVars, activationVars
  <2>2. CASE ActivateStart(h) \/ ActivateStep(h)
    BY <2>2 DEF ActivateStart, ActivateStep, ActivateIntent, ActivateCheckUsed, ActivateClaim,
                ActivateKey, ActivateGrant, ActivateCredit, ActivateUndo, ActivateSub,
                ActivateCommit, ActivateClean, ActivateFail, accountVars, activationVars
  <2>3. CASE RotateStart(h) \/ RotateLock(h) \/ RotateMint(h) \/ RotateSub(h) \/ RotateOld(h)
               \/ RotateUnlock(h)
    BY <2>3 DEF RotateStart, RotateLock, RotateMint, RotateSub, RotateOld, RotateUnlock, accountVars,
                activationVars
  <2>4. CASE ProvisionStart(h) \/ ProvisionWrite(h) \/ TopupStart(h) \/ TopupAdd(h) \/ TopupWrite(h)
    BY <2>4 DEF ProvisionStart, ProvisionWrite, TopupStart, TopupAdd, TopupWrite, accountVars,
                activationVars
  <2>5. CASE TrialStart(h) \/ TrialStep(h)
    BY <2>5 DEF TrialStart, TrialStep, TrialRead, TrialClaim, TrialGrant, TrialCredit, TrialUndo,
                TrialKey, TrialSub, TrialMark, TrialEnd
  <2>6. CASE Crash(h)
    BY <2>6 DEF Crash, accountVars, activationVars
  <2>7. CASE InlineReceipt(h)
    BY <2>7 DEF InlineReceipt, InlineClaim, ClaimReceipt, InlineBody, Enqueue, EnqueueRest, PageReceipt,
                accountVars, activationVars
  <2>8. CASE FillStart(h) \/ FillStep(h)
    BY <2>8 DEF FillStart, FillStep, FillRead, FillDropOrphan, FillLock, FillClaim, ClaimReceipt,
                FillBody, FillDequeue, FillBump, FillGiveUp, FillUnlock, accountVars, activationVars
  <2> QED BY <2>1, <2>2, <2>3, <2>4, <2>5, <2>6, <2>7, <2>8 DEF AccountStep, ReceiptStep
<1> QED BY <1>2 DEF TrialOver, Aside

\* What holds of a record goes on to hold, whoever else does what.
LEMMA SlottedStays ==
  ASSUME NEW r \in Sub \cup {None}, Recorded(r), Slotted(r), SamePlans, TrialOver => TrialOver'
  PROVE  Slotted(r)'
BY DEF Slotted, OldStyle, Recorded, SamePlans, Sub

LEMMA FitsStays ==
  ASSUME NEW l, NEW r \in Sub \cup {None}, NEW k \in Keys \cup {None}, NEW i,
         Recorded(r), k # None => keyRec[k] # None, l \in KeyedSteps => k \in Keys,
         Fits(l, r, k, i), SamePlans, TrialOver => TrialOver'
  PROVE  Fits(l, r, k, i)'
<1>1. Slotted(r)'
  BY SlottedStays DEF Fits
<1>2. l \in PaidKey \cup {"y_sub", "k_sub"} => k \in Keys /\ keyRec'[k].plan = keyRec[k].plan
  BY NoneIsNothing DEF KeyedSteps, PaidKey, SamePlans
<1> QED BY <1>1, <1>2 DEF Fits, OldStyle, MultichainScope

\* The step of one leaves alone what the others hold.
LEMMA OthersFit ==
  ASSUME Typed, SlotInv, NEW h \in Handlers, SamePlans, Aside(h), TrialOver => TrialOver',
         Slotted(sub)', Bears(h)'
  PROVE  SlotInv'
<1>1. ASSUME NEW q \in Handlers \ {h}
      PROVE  Bears(q)'
  <2>1. /\ Knows(q) /\ Bears(q) /\ seen[q] \in Sub \cup {None} /\ key[q] \in Keys \cup {None}
        /\ pc'[q] = pc[q] /\ seen'[q] = seen[q] /\ key'[q] = key[q] /\ item'[q] = item[q]
    BY DEF Typed, AccountsTypeOK, SlotInv, Aside
  <2>2. ASSUME NEW l, l = pc[q], NEW r, r = seen[q], NEW k, k = key[q], NEW i, i = item[q]
        PROVE  Fits(l, r, k, i)'
    BY <2>1, <2>2, FitsStays DEF Bears, Knows
  <2> QED BY <2>1, <2>2 DEF Bears
<1> QED BY <1>1 DEF SlotInv

-----------------------------------------------------------------------------
(* The step of an invocation, for itself *)

\* It ends, or goes on with the record, and the key to a paid plan, it holds.
Moves(h, m) ==
  /\ pc'[h] = m
  /\ \/ m = "done" /\ seen'[h] = None
     \/ /\ seen'[h] = seen[h]
        /\ m \notin {"y_sub", "k_sub"}
        /\ m \in PaymentSteps => pc[h] \in PaymentSteps
        /\ m \in PaidKey => pc[h] \in PaidKey /\ key'[h] = key[h]
        /\ m \in ReadTrial => pc[h] \in ReadTrial

Steady == SamePlans /\ (TrialOver => TrialOver')

LEMMA MovesFit ==
  ASSUME Typed, SlotInv, NEW h \in Handlers, Steady, NEW m, Moves(h, m)
  PROVE  Bears(h)'
<1>1. CASE m = "done" /\ seen'[h] = None
  BY <1>1 DEF Moves, Bears, Fits, Slotted, OldStyle, PaymentSteps, PaidKey, ReadTrial
<1>2. CASE m # "done" \/ seen'[h] # None
  <2>1. /\ Bears(h) /\ Knows(h) /\ seen[h] \in Sub \cup {None} /\ key[h] \in Keys \cup {None}
    BY DEF Typed, AccountsTypeOK, SlotInv
  <2>2. ASSUME NEW r, r = seen[h], NEW k, k = key[h]
        PROVE  Slotted(r)' /\ (m \in PaidKey => keyRec'[k].plan = "starter")
    <3>1. Slotted(r)'
      BY <2>1, <2>2, SlottedStays DEF Bears, Fits, Knows, Steady
    <3>2. m \in PaidKey => k \in Keys /\ keyRec[k] # None /\ keyRec[k].plan = "starter"
      BY <1>2, <2>1, <2>2, NoneIsNothing DEF Moves, Bears, Fits, Knows, KeyedSteps, PaidKey
    <3> QED BY <3>1, <3>2 DEF Steady, SamePlans
  <2> QED BY <1>2, <2>1, <2>2 DEF Moves, Bears, Fits, OldStyle, MultichainScope
<1> QED BY <1>1, <1>2

\* It goes on with the record it has just read.
LEMMA ReadFits ==
  ASSUME Typed, SlotInv, NEW h \in Handlers, Steady, UNCHANGED sub, seen'[h] = sub,
         pc'[h] \notin PaymentSteps \cup {"y_sub", "k_sub"},
         pc'[h] \in ReadTrial => ~MultichainScope(sub)
  PROVE  Bears(h)'
<1>1. sub \in Sub \cup {None} /\ Recorded(sub) /\ Slotted(sub)
  BY DEF Typed, AccountsTypeOK, AccountTypeOK, SlotInv
<1>2. ASSUME NEW r, r = sub
      PROVE  Slotted(r)'
  BY <1>1, <1>2, SlottedStays DEF Steady
<1> QED BY <1>1, <1>2 DEF Bears, Fits, PaymentSteps, PaidKey, MultichainScope

LEMMA SubFits ==
  ASSUME Typed, SlotInv, Steady, UNCHANGED sub
  PROVE  Slotted(sub)'
<1>1. sub \in Sub \cup {None} /\ Recorded(sub) /\ Slotted(sub)
  BY DEF Typed, AccountsTypeOK, AccountTypeOK, SlotInv
<1>2. ASSUME NEW r, r = sub
      PROVE  Slotted(r)'
  BY <1>1, <1>2, SlottedStays DEF Steady
<1> QED BY <1>2

\* The record it read at its start may be written back.
LEMMA WriteBackFits ==
  ASSUME Typed, SlotInv, NEW h \in Handlers, Steady, sub' = seen[h]
  PROVE  Slotted(sub)'
<1>1. seen[h] \in Sub \cup {None} /\ Recorded(seen[h]) /\ Slotted(seen[h])
  BY DEF Typed, AccountsTypeOK, SlotInv, Bears, Fits, Knows
<1>2. ASSUME NEW r, r = seen[h]
      PROVE  Slotted(r)'
  BY <1>1, <1>2, SlottedStays DEF Steady
<1> QED BY <1>2

\* The steps that neither keep nor write a subscription record, nor mint a key.
Quiet(h) ==
  \/ RelayStart(h) \/ RelayTake(h) \/ RelaySettle(h) \/ RelayRefund(h) \/ RelayWebhook(h)
  \/ ActivateIntent(h) \/ ActivateCheckUsed(h) \/ ActivateClaim(h) \/ ActivateGrant(h)
  \/ ActivateCredit(h) \/ ActivateUndo(h) \/ ActivateCommit(h) \/ ActivateClean(h) \/ ActivateFail(h)
  \/ RotateLock(h) \/ RotateOld(h) \/ RotateUnlock(h) \/ TopupAdd(h)
  \/ TrialStart(h) \/ TrialClaim(h) \/ TrialGrant(h) \/ TrialCredit(h) \/ TrialUndo(h)
  \/ TrialMark(h) \/ TrialEnd(h) \/ Crash(h) \/ ReceiptStep(h)

LEMMA QuietMoves ==
  ASSUME Typed, NEW h \in Handlers, Quiet(h)
  PROVE  UNCHANGED sub /\ \E m : Moves(h, m)
<1>1. /\ pc \in [Handlers -> Labels] /\ seen \in [Handlers -> Sub \cup {None}]
      /\ key \in [Handlers -> Keys \cup {None}]
  BY DEF Typed, AccountsTypeOK
<1>2. UNCHANGED sub
  BY DEF Quiet, RelayStart, RelayTake, RelaySettle, RelayRefund, RelayWebhook, ActivateIntent, ActivateCheckUsed,
         ActivateClaim, ActivateGrant, ActivateCredit, ActivateUndo, ActivateCommit, ActivateClean,
         ActivateFail, RotateLock, RotateOld, RotateUnlock, TopupAdd, TrialStart, TrialClaim,
         TrialGrant, TrialCredit, TrialUndo, TrialMark, TrialEnd, Crash, ReceiptStep, InlineReceipt,
         InlineClaim, InlineBody, Enqueue, EnqueueRest, PageReceipt, FillStart, FillStep, FillRead,
         FillDropOrphan, FillLock, FillClaim, FillBody, FillDequeue, FillBump, FillGiveUp, FillUnlock,
         accountVars
<1>3. Moves(h, pc'[h])
  <2> USE <1>1 DEF Moves, Goto, End, Begin, PaymentSteps, PaidKey, ReadTrial
  <2>1. CASE RelayStart(h) \/ RelayTake(h) \/ RelaySettle(h) \/ RelayRefund(h) \/ RelayWebhook(h)
    BY <2>1 DEF RelayStart, RelayTake, RelaySettle, RelayRefund, RelayWebhook
  <2>2. CASE ActivateIntent(h) \/ ActivateCheckUsed(h) \/ ActivateClaim(h) \/ ActivateGrant(h)
    BY <2>2 DEF ActivateIntent, ActivateCheckUsed, ActivateClaim, ActivateGrant
  <2>3. CASE \/ ActivateCredit(h) \/ ActivateUndo(h) \/ ActivateCommit(h) \/ ActivateClean(h)
             \/ ActivateFail(h)
    BY <2>3 DEF ActivateCredit, ActivateUndo, ActivateCommit, ActivateClean, ActivateFail
  <2>4. CASE RotateLock(h) \/ RotateOld(h) \/ RotateUnlock(h) \/ TopupAdd(h) \/ Crash(h)
    BY <2>4 DEF RotateLock, RotateOld, RotateUnlock, TopupAdd, Crash
  <2>5. CASE TrialStart(h) \/ TrialClaim(h) \/ TrialGrant(h) \/ TrialCredit(h)
    BY <2>5 DEF TrialStart, TrialClaim, TrialGrant, TrialCredit
  <2>6. CASE TrialUndo(h) \/ TrialMark(h) \/ TrialEnd(h)
    BY <2>6 DEF TrialUndo, TrialMark, TrialEnd
  <2>7. CASE InlineReceipt(h)
    BY <2>7 DEF InlineReceipt, InlineClaim, ClaimReceipt, InlineBody, Enqueue, EnqueueRest, PageReceipt
  <2>8. CASE FillStart(h) \/ FillStep(h)
    BY <2>8 DEF FillStart, FillStep, FillRead, FillDropOrphan, FillLock, FillClaim, ClaimReceipt,
                FillBody, FillDequeue, FillBump, FillGiveUp, FillUnlock
  <2> QED BY <2>1, <2>2, <2>3, <2>4, <2>5, <2>6, <2>7, <2>8 DEF Quiet, ReceiptStep
<1> QED BY <1>2, <1>3

LEMMA RelayReadSubFits ==
  ASSUME Typed, SlotInv, NEW h \in Handlers, Steady, RelayReadSub(h)
  PROVE  Slotted(sub)' /\ Bears(h)'
<1>1. Slotted(sub)' /\ UNCHANGED sub /\ pc \in [Handlers -> Labels]
      /\ seen \in [Handlers -> Sub \cup {None}]
  BY SubFits DEF RelayReadSub, accountVars, Typed, AccountsTypeOK
<1>2. CASE End(h)
  BY <1>1, <1>2, MovesFit DEF End, Moves
<1>3. CASE pc' = [pc EXCEPT ![h] = "r_take"] /\ seen' = [seen EXCEPT ![h] = sub]
  <2>1. /\ pc'[h] = "r_take" /\ seen'[h] = sub
        /\ "r_take" \notin PaymentSteps \cup {"y_sub", "k_sub"} \cup ReadTrial
    BY <1>1, <1>3 DEF PaymentSteps, ReadTrial
  <2> QED BY <1>1, <2>1, ReadFits
<1> QED BY <1>1, <1>2, <1>3 DEF RelayReadSub

LEMMA RelayMirrorFits ==
  ASSUME Typed, SlotInv, NEW h \in Handlers, Steady, RelayMirror(h)
  PROVE  Slotted(sub)' /\ Bears(h)'
<1>1. Bears(h)'
  BY MovesFit DEF RelayMirror, End, Moves, Typed, AccountsTypeOK
<1> QED BY <1>1, SubFits, WriteBackFits DEF RelayMirror, SetSub

\* A payment moves the trial key of an old account to its own slot first.
LEMMA ActivateStartFits ==
  ASSUME Typed, SlotInv, NEW h \in Handlers, Steady, ActivateStart(h)
  PROVE  Slotted(sub)' /\ Bears(h)'
<1>1. /\ Slotted(sub) /\ sub \in Sub \cup {None} /\ Recorded(sub) /\ UNCHANGED sub
      /\ pc \in [Handlers -> Labels] /\ seen \in [Handlers -> Sub \cup {None}]
  BY DEF ActivateStart, Typed, AccountsTypeOK, AccountTypeOK, SlotInv
<1>2. pc'[h] = "a_intent" /\ seen'[h] = Promoted(sub)
  BY <1>1 DEF ActivateStart
<1>3. ASSUME NEW r, r = Promoted(sub)
      PROVE  r \in Sub \cup {None} /\ Recorded(r) /\ Slotted(r) /\ ~OldStyle(r)
  <2>1. CASE sub = None \/ ~LegacyTrialKey(sub)
    BY <1>1, <1>3, <2>1 DEF Promoted, LegacyTrialKey, Slotted, OldStyle
  <2>2. CASE sub # None /\ LegacyTrialKey(sub)
    <3>1. r = [sub EXCEPT !.trialKey = sub.apiKey, !.apiKey = None, !.sandbox = FALSE]
      BY <1>3, <2>2 DEF Promoted
    <3>2. r \in Sub /\ r.apiKey = None /\ r.trialKey = sub.apiKey /\ r.plan = sub.plan
      BY <1>1, <2>2, <3>1 DEF Sub
    <3>3. keyRec[sub.apiKey] # None /\ keyRec[sub.apiKey].plan = "trial"
      BY <1>1, <2>2 DEF Slotted, Recorded, LegacyTrialKey
    <3> QED BY <3>2, <3>3 DEF Recorded, Slotted, OldStyle
  <2> QED BY <2>1, <2>2
<1>4. ASSUME NEW r, r = Promoted(sub)
      PROVE  Slotted(r)'
  BY <1>3, <1>4, SlottedStays DEF Steady
<1>5. Bears(h)'
  BY <1>2, <1>3, <1>4 DEF Bears, Fits, OldStyle, PaidKey, ReadTrial
<1> QED BY <1>1, <1>5, SubFits

LEMMA ActivateKeyFits ==
  ASSUME Typed, SlotInv, NEW h \in Handlers, Steady, ActivateKey(h)
  PROVE  Slotted(sub)' /\ Bears(h)'
<1>1. /\ Slotted(sub)' /\ Bears(h) /\ Knows(h) /\ seen[h] \in Sub \cup {None} /\ pc[h] = "a_key"
      /\ pc \in [Handlers -> Labels] /\ seen \in [Handlers -> Sub \cup {None}]
      /\ key \in [Handlers -> Keys \cup {None}]
  BY SubFits DEF ActivateKey, Typed, AccountsTypeOK, SlotInv
<1>2. CASE End(h)
  BY <1>1, <1>2, MovesFit DEF End, Moves
<1>3. ASSUME NEW k \in Keys, keyRec'[k].plan = "starter", key' = [key EXCEPT ![h] = k],
             pc' = [pc EXCEPT ![h] = "a_grant"], UNCHANGED <<seen, item>>
      PROVE  Bears(h)'
  <2>1. pc'[h] = "a_grant" /\ key'[h] = k /\ seen'[h] = seen[h]
    BY <1>1, <1>3
  <2>2. ~OldStyle(seen[h]) /\ Slotted(seen[h]) /\ Recorded(seen[h])
    BY <1>1 DEF Bears, Fits, PaymentSteps, Knows
  <2>3. ASSUME NEW r, r = seen[h]
        PROVE  Slotted(r)'
    BY <1>1, <2>2, <2>3, SlottedStays DEF Steady
  <2> QED BY <1>3, <2>1, <2>2, <2>3 DEF Bears, Fits, OldStyle, ReadTrial
<1>4. CASE /\ pc' = [pc EXCEPT ![h] = "a_grant"] /\ UNCHANGED <<seen, item>>
           /\ seen[h] # None /\ seen[h].apiKey # None /\ key' = [key EXCEPT ![h] = seen[h].apiKey]
           /\ UNCHANGED keyRec
  <2>1. seen[h] \in Sub /\ ~OldStyle(seen[h]) /\ Slotted(seen[h])
    BY <1>1, <1>4 DEF Bears, Fits, PaymentSteps
  <2>2. seen[h].apiKey \in Keys /\ keyRec[seen[h].apiKey].plan = "starter"
    BY <1>4, <2>1 DEF Sub, OldStyle, Slotted
  <2>3. PICK k \in Keys : k = seen[h].apiKey
    BY <2>2
  <2>4. keyRec'[k].plan = "starter" /\ key' = [key EXCEPT ![h] = k]
    BY <1>4, <2>2, <2>3
  <2> QED BY <1>1, <1>3, <1>4, <2>4
<1>5. ASSUME NEW k \in Keys, NewKey(k, "starter")
      PROVE  keyRec'[k].plan = "starter"
  BY <1>5, MintKeepsPlans
<1> QED BY <1>1, <1>2, <1>3, <1>4, <1>5 DEF ActivateKey

LEMMA ActivateSubFits ==
  ASSUME Typed, SlotInv, NEW h \in Handlers, Steady, ActivateSub(h)
  PROVE  Slotted(sub)' /\ Bears(h)'
<1>1. /\ Bears(h) /\ Knows(h) /\ pc[h] = "a_sub" /\ seen[h] \in Sub \cup {None} /\ key[h] \in Keys
      /\ pc \in [Handlers -> Labels] /\ seen \in [Handlers -> Sub \cup {None}]
  BY DEF ActivateSub, Typed, AccountsTypeOK, SlotInv, Knows, KeyedSteps
<1>2. Bears(h)'
  BY <1>1, MovesFit DEF ActivateSub, Goto, Moves, PaymentSteps, PaidKey, ReadTrial
<1> DEFINE old == IF seen[h] = None THEN None ELSE seen[h].trialKey
<1>3. ASSUME sub' = [plan |-> "starter", apiKey |-> key[h], sandbox |-> TRUE, cash |-> TRUE,
                     trialKey |-> old, window |-> 1 + IF seen[h] = None THEN 0 ELSE seen[h].window]
      PROVE  Slotted(sub)'
  <2>1. /\ sub'.plan = "starter" /\ sub'.apiKey = key[h] /\ sub'.trialKey = old
    BY <1>3
  <2>2. keyRec[key[h]].plan = "starter" /\ keyRec[key[h]] # None
    BY <1>1, NoneIsNothing DEF Bears, Fits, PaidKey, Knows
  <2>3. old # None => old \in Keys /\ keyRec[old] # None /\ keyRec[old].plan = "trial"
    BY <1>1 DEF Bears, Fits, Slotted, Knows, Recorded, Sub
  <2>4. keyRec'[key[h]].plan = "starter" /\ (old # None => keyRec'[old].plan = "trial")
    BY <1>1, <2>2, <2>3 DEF Steady, SamePlans
  <2> QED BY <2>1, <2>4 DEF Slotted, OldStyle
<1> QED BY <1>2, <1>3, SubFits DEF ActivateSub, SetSub

LEMMA RotateStartFits ==
  ASSUME Typed, SlotInv, NEW h \in Handlers, Steady, RotateStart(h)
  PROVE  Slotted(sub)' /\ Bears(h)'
<1>1. UNCHANGED sub
  BY DEF RotateStart, accountVars
<1>2. /\ pc'[h] = "k_lock" /\ seen'[h] = sub
      /\ "k_lock" \notin PaymentSteps \cup {"y_sub", "k_sub"} \cup ReadTrial
  BY DEF RotateStart, Typed, AccountsTypeOK, PaymentSteps, ReadTrial
<1> QED BY <1>1, <1>2, SubFits, ReadFits

LEMMA RotateMintFits ==
  ASSUME Typed, SlotInv, NEW h \in Handlers, Steady, RotateMint(h)
  PROVE  Slotted(sub)' /\ Bears(h)'
<1>1. /\ Slotted(sub)' /\ Bears(h) /\ Knows(h) /\ seen[h] \in Sub /\ pc[h] = "k_mint"
      /\ pc \in [Handlers -> Labels] /\ seen \in [Handlers -> Sub \cup {None}]
      /\ key \in [Handlers -> Keys \cup {None}]
  BY SubFits DEF RotateMint, Typed, AccountsTypeOK, SlotInv, Knows, ReadSteps, KeySteps
<1>2. CASE Goto(h, "k_unlock")
  <2>1. Moves(h, "k_unlock")
    BY <1>1, <1>2 DEF Goto, Moves, PaymentSteps, PaidKey, ReadTrial
  <2> QED BY <1>1, <2>1, MovesFit
<1> DEFINE plan == IF item[h] = "trial" THEN "trial" ELSE seen[h].plan
<1>3. ASSUME NEW k \in Keys, NewKey(k, plan), key' = [key EXCEPT ![h] = k],
             pc' = [pc EXCEPT ![h] = "k_sub"], UNCHANGED <<seen, item>>
      PROVE  Bears(h)'
  <2>1. plan \in {"starter", "trial"}
    BY <1>1 DEF Sub
  <2>2. keyRec'[k].plan = plan
    BY <1>3, <2>1, MintKeepsPlans
  <2>3. pc'[h] = "k_sub" /\ key'[h] = k /\ seen'[h] = seen[h] /\ item'[h] = item[h]
    BY <1>1, <1>3
  <2>4. ASSUME NEW r, r = seen[h]
        PROVE  Slotted(r)'
    BY <1>1, <2>4, SlottedStays DEF Steady, Bears, Fits, Knows
  <2> QED BY <2>2, <2>3, <2>4 DEF Bears, Fits, PaymentSteps, PaidKey, ReadTrial
<1> QED BY <1>1, <1>2, <1>3 DEF RotateMint

\* The rotated record has the new key in the slot it was minted for.
LEMMA RotateSubFits ==
  ASSUME Typed, SlotInv, NEW h \in Handlers, Steady, RotateSub(h)
  PROVE  Slotted(sub)' /\ Bears(h)'
<1>1. /\ Bears(h) /\ Knows(h) /\ pc[h] = "k_sub" /\ seen[h] \in Sub /\ key[h] \in Keys
      /\ HasKey(seen[h], item[h]) /\ item[h] \in Scopes
      /\ Recorded(seen[h]) /\ Slotted(seen[h])
      /\ pc \in [Handlers -> Labels] /\ seen \in [Handlers -> Sub \cup {None}]
  BY DEF RotateSub, Typed, AccountsTypeOK, SlotInv, Knows, KeyedSteps, ReadSteps, KeySteps, Bears, Fits
<1>2. Bears(h)'
  BY <1>1, MovesFit DEF RotateSub, Goto, Moves, PaymentSteps, PaidKey, ReadTrial
<1>3. /\ keyRec[key[h]] # None
      /\ keyRec[key[h]].plan = IF item[h] = "trial" THEN "trial" ELSE seen[h].plan
  BY <1>1, NoneIsNothing DEF Bears, Fits, Knows
<1>4. ASSUME NEW r, r = seen[h], NEW k, k = key[h], NEW s, s = item[h], NEW n, n = RotatedSub(r, s, k)
      PROVE  n \in Sub /\ Recorded(n) /\ Slotted(n)
  <2>1. CASE s = "paid"
    <3>1. n = [r EXCEPT !.apiKey = k] /\ r.apiKey # None
      BY <1>1, <1>4, <2>1 DEF RotatedSub, HasKey
    <3>2. n \in Sub /\ n.apiKey = k /\ n.trialKey = r.trialKey /\ n.plan = r.plan
      BY <1>1, <1>4, <3>1 DEF Sub
    <3> QED BY <1>1, <1>3, <1>4, <2>1, <3>1, <3>2, NoneIsNothing DEF Recorded, Slotted, OldStyle
  <2>2. CASE s = "trial" /\ LegacyTrialKey(r)
    <3>1. n = [r EXCEPT !.trialKey = k, !.apiKey = None, !.sandbox = FALSE]
      BY <1>4, <2>2 DEF RotatedSub
    <3>2. n \in Sub /\ n.apiKey = None /\ n.trialKey = k /\ n.plan = r.plan
      BY <1>1, <1>4, <3>1 DEF Sub
    <3> QED BY <1>1, <1>3, <1>4, <2>2, <3>2 DEF Recorded, Slotted, OldStyle
  <2>3. CASE s = "trial" /\ ~LegacyTrialKey(r)
    <3>1. n = [r EXCEPT !.trialKey = k]
      BY <1>4, <2>3 DEF RotatedSub
    <3>2. n \in Sub /\ n.apiKey = r.apiKey /\ n.trialKey = k /\ n.plan = r.plan
      BY <1>1, <1>4, <3>1 DEF Sub
    <3>3. r.apiKey # None => r.plan # "trial"
      BY <1>1, <1>4, <2>3, NoneIsNothing DEF Slotted, OldStyle, LegacyTrialKey
    <3> QED BY <1>1, <1>3, <1>4, <2>3, <3>2, <3>3, NoneIsNothing DEF Recorded, Slotted, OldStyle
  <2> QED BY <1>1, <1>4, <2>1, <2>2, <2>3 DEF Scopes
<1>5. ASSUME NEW n, n = RotatedSub(seen[h], item[h], key[h])
      PROVE  Slotted(n)'
  BY <1>4, <1>5, SlottedStays DEF Steady
<1> QED BY <1>2, <1>5, SubFits DEF RotateSub, SetSub

LEMMA ProvisionWriteFits ==
  ASSUME Typed, SlotInv, NEW h \in Handlers, Steady, ProvisionWrite(h)
  PROVE  Slotted(sub)' /\ Bears(h)'
<1>1. Bears(h)'
  BY MovesFit DEF ProvisionWrite, End, Moves, Typed, AccountsTypeOK
<1>2. CASE UNCHANGED sub
  BY <1>1, <1>2, SubFits
<1>3. CASE sub' = Stub
  BY <1>1, <1>3 DEF Stub, Slotted, OldStyle
<1>4. CASE seen[h] # None /\ sub' = [seen[h] EXCEPT !.sandbox = TRUE]
  <2>1. seen[h] \in Sub /\ Recorded(seen[h]) /\ Slotted(seen[h])
    BY <1>4 DEF Typed, AccountsTypeOK, SlotInv, Bears, Fits, Knows
  <2>2. ASSUME NEW n, n = [seen[h] EXCEPT !.sandbox = TRUE]
        PROVE  n \in Sub /\ Recorded(n) /\ Slotted(n)
    <3>1. /\ n \in Sub /\ n.apiKey = seen[h].apiKey /\ n.trialKey = seen[h].trialKey
          /\ n.plan = seen[h].plan
      BY <2>1, <2>2 DEF Sub
    <3> QED BY <1>4, <2>1, <3>1, NoneIsNothing DEF Recorded, Slotted, OldStyle
  <2>3. ASSUME NEW n, n = [seen[h] EXCEPT !.sandbox = TRUE]
        PROVE  Slotted(n)'
    BY <2>2, <2>3, SlottedStays DEF Steady
  <2> QED BY <1>1, <1>4, <2>3
<1> QED BY <1>1, <1>2, <1>3, <1>4 DEF ProvisionWrite, SetSub

LEMMA StartFits ==
  ASSUME Typed, SlotInv, NEW h \in Handlers, Steady, ProvisionStart(h) \/ TopupStart(h)
  PROVE  Slotted(sub)' /\ Bears(h)'
<1>1. UNCHANGED sub
  BY DEF ProvisionStart, TopupStart, accountVars
<1>2. /\ pc'[h] \notin PaymentSteps \cup {"y_sub", "k_sub"} \cup ReadTrial /\ seen'[h] = sub
  BY DEF ProvisionStart, TopupStart, Typed, AccountsTypeOK, PaymentSteps, ReadTrial
<1> QED BY <1>1, <1>2, SubFits, ReadFits

LEMMA TopupWriteFits ==
  ASSUME Typed, SlotInv, NEW h \in Handlers, Steady, TopupWrite(h)
  PROVE  Slotted(sub)' /\ Bears(h)'
<1>1. Bears(h)'
  BY MovesFit DEF TopupWrite, End, Moves, Typed, AccountsTypeOK
<1> QED BY <1>1, SubFits, WriteBackFits DEF TopupWrite, SetSub

LEMMA TrialReadFits ==
  ASSUME Typed, SlotInv, NEW h \in Handlers, Steady, TrialRead(h)
  PROVE  Slotted(sub)' /\ Bears(h)'
<1>1. /\ Slotted(sub)' /\ UNCHANGED sub /\ pc \in [Handlers -> Labels]
      /\ seen \in [Handlers -> Sub \cup {None}]
  BY SubFits DEF TrialRead, accountVars, Typed, AccountsTypeOK
<1>2. CASE End(h)
  BY <1>1, <1>2, MovesFit DEF End, Moves
<1>3. CASE ~MultichainScope(sub) /\ seen' = [seen EXCEPT ![h] = sub] /\ pc' = [pc EXCEPT ![h] = "y_claim"]
  <2>1. /\ pc'[h] = "y_claim" /\ seen'[h] = sub /\ "y_claim" \notin PaymentSteps \cup {"y_sub", "k_sub"}
    BY <1>1, <1>3 DEF PaymentSteps
  <2> QED BY <1>1, <1>3, <2>1, ReadFits
<1> QED BY <1>1, <1>2, <1>3 DEF TrialRead

LEMMA TrialKeyFits ==
  ASSUME Typed, SlotInv, NEW h \in Handlers, Steady, TrialKey(h)
  PROVE  Slotted(sub)' /\ Bears(h)'
<1>1. /\ Slotted(sub)' /\ Bears(h) /\ Knows(h) /\ seen[h] \in Sub \cup {None} /\ pc[h] = "y_key"
      /\ pc \in [Handlers -> Labels] /\ seen \in [Handlers -> Sub \cup {None}]
      /\ key \in [Handlers -> Keys \cup {None}]
      /\ Slotted(seen[h]) /\ ~MultichainScope(seen[h]) /\ Recorded(seen[h])
  BY SubFits DEF TrialKey, Typed, AccountsTypeOK, SlotInv, Bears, Fits, ReadTrial, Knows
<1>2. CASE Goto(h, "y_end")
  <2>1. Moves(h, "y_end")
    BY <1>1, <1>2 DEF Goto, Moves, PaymentSteps, PaidKey, ReadTrial
  <2> QED BY <1>1, <2>1, MovesFit
<1>3. ASSUME NEW k \in Keys, keyRec'[k].plan = "trial", key' = [key EXCEPT ![h] = k],
             pc' = [pc EXCEPT ![h] = "y_sub"], UNCHANGED <<seen, item>>
      PROVE  Bears(h)'
  <2>1. pc'[h] = "y_sub" /\ key'[h] = k /\ seen'[h] = seen[h]
    BY <1>1, <1>3
  <2>2. ASSUME NEW r, r = seen[h]
        PROVE  Slotted(r)'
    BY <1>1, <2>2, SlottedStays DEF Steady
  <2> QED BY <1>1, <1>3, <2>1, <2>2 DEF Bears, Fits, PaymentSteps, PaidKey, MultichainScope
<1>4. CASE /\ pc' = [pc EXCEPT ![h] = "y_sub"] /\ UNCHANGED <<seen, item>>
           /\ seen[h] # None /\ seen[h].trialKey # None /\ key' = [key EXCEPT ![h] = seen[h].trialKey]
           /\ UNCHANGED keyRec
  <2>1. seen[h].trialKey \in Keys /\ keyRec[seen[h].trialKey].plan = "trial"
    BY <1>1, <1>4 DEF Sub, Slotted
  <2>2. PICK k \in Keys : k = seen[h].trialKey
    BY <2>1
  <2>3. keyRec'[k].plan = "trial" /\ key' = [key EXCEPT ![h] = k]
    BY <1>4, <2>1, <2>2
  <2> QED BY <1>1, <1>3, <1>4, <2>3
<1>5. ASSUME NEW k \in Keys, NewKey(k, "trial")
      PROVE  keyRec'[k].plan = "trial"
  BY <1>5, MintKeepsPlans
<1> QED BY <1>1, <1>2, <1>3, <1>4, <1>5 DEF TrialKey

\* The record read had no paid scope, and it is not one of an old account,
\* whose trial is over: so there is no key in its paid slot.
LEMMA TrialSubFits ==
  ASSUME Typed, SlotInv, NEW h \in Handlers, Steady, TrialSub(h)
  PROVE  Slotted(sub)' /\ Bears(h)'
<1>1. /\ Bears(h) /\ Knows(h) /\ pc[h] = "y_sub" /\ seen[h] \in Sub \cup {None} /\ key[h] \in Keys
      /\ Slotted(seen[h]) /\ ~MultichainScope(seen[h])
      /\ keyRec[key[h]] # None /\ keyRec[key[h]].plan = "trial"
      /\ pc \in [Handlers -> Labels] /\ seen \in [Handlers -> Sub \cup {None}]
  BY NoneIsNothing DEF TrialSub, Typed, AccountsTypeOK, SlotInv, Knows, KeyedSteps, Bears, Fits, ReadTrial
<1>2. Bears(h)'
  BY <1>1, MovesFit DEF TrialSub, Goto, Moves, PaymentSteps, PaidKey, ReadTrial
<1>3. (IF seen[h] = None THEN None ELSE seen[h].apiKey) = None
  <2>1. ~TrialOver
    BY <1>1 DEF TrialOver, TrialSteps
  <2>2. ~OldStyle(seen[h])
    BY <1>1, <2>1 DEF Slotted
  <2> QED BY <1>1, <2>2 DEF OldStyle, MultichainScope
<1>4. ASSUME sub'.plan = "trial", sub'.trialKey = key[h],
             sub'.apiKey = IF seen[h] = None THEN None ELSE seen[h].apiKey
      PROVE  Slotted(sub)'
  <2>1. keyRec'[key[h]].plan = "trial"
    BY <1>1 DEF Steady, SamePlans
  <2> QED BY <1>3, <1>4, <2>1 DEF Slotted, OldStyle
<1> QED BY <1>2, <1>4, SubFits DEF TrialSub, SetSub

-----------------------------------------------------------------------------

LEMMA StepFits ==
  ASSUME Typed, SlotInv, NEW h \in Handlers, Steady, AccountStep(h) \/ ReceiptStep(h)
  PROVE  Slotted(sub)' /\ Bears(h)'
<1>1. CASE Quiet(h)
  BY <1>1, QuietMoves, MovesFit, SubFits
<1>2. CASE ~Quiet(h)
  BY <1>2, RelayReadSubFits, RelayMirrorFits, ActivateStartFits, ActivateKeyFits, ActivateSubFits,
     RotateStartFits, RotateMintFits, RotateSubFits, ProvisionWriteFits, StartFits, TopupWriteFits,
     TrialReadFits, TrialKeyFits, TrialSubFits
  DEF Quiet, AccountStep, RelayStep, ActivateStep, TrialStep
<1> QED BY <1>1, <1>2

LEMMA SlotStep ==
  ASSUME Typed, SlotInv, [AccountsNext]_accountsVars
  PROVE  SlotInv'
<1>1. ASSUME NEW h \in Handlers, AccountStep(h) \/ ReceiptStep(h), Aside(h)
      PROVE  SlotInv'
  <2>1. Steady
    BY <1>1, PlansKept, OverStays DEF Steady
  <2> QED BY <1>1, <2>1, StepFits, OthersFit DEF Steady
<1>2. ASSUME NEW h \in Handlers, AccountStep(h), UNCHANGED receiptVars
      PROVE  Aside(h)
  BY <1>2, AccountLocal DEF Local
<1>3. ASSUME NEW h \in Handlers, ReceiptStep(h)
      PROVE  Aside(h)
  BY <1>3, ReceiptLocal DEF Local
<1>4. ASSUME UNCHANGED <<sub, keyRec, trialUsed, pc, seen, key, item>>
      PROVE  SlotInv'
  BY <1>4 DEF SlotInv, Bears, Fits, Slotted, OldStyle, TrialOver, MultichainScope
<1>5. CASE ExpireAccount /\ UNCHANGED <<handlerVars, receiptVars>>
  BY <1>4, <1>5 DEF ExpireAccount, ExpireClaim, ExpireTrialClaim, ExpireRotation, handlerVars, localVars,
     keyVars, poolVars, activationVars
<1>6. CASE (\E t \in Txs : ExpireFill(t)) /\ UNCHANGED <<handlerVars, accountVars>>
  BY <1>4, <1>6 DEF handlerVars, localVars, accountVars, keyVars, activationVars
<1>7. CASE UNCHANGED accountsVars
  BY <1>4, <1>7 DEF accountsVars, handlerVars, localVars, accountVars, keyVars, activationVars
<1> QED BY <1>1, <1>2, <1>3, <1>5, <1>6, <1>7 DEF AccountsNext

LEMMA SlotInit == AccountsInit => SlotInv
<1> SUFFICES ASSUME AccountsInit PROVE SlotInv
  OBVIOUS
<1> DEFINE first == CHOOSE x \in Keys : TRUE
<1>1. first \in Keys
  BY AccountAssumption
<1>2. \A h \in Handlers : pc[h] = "idle" /\ seen[h] = None
  BY DEF AccountsInit, HandlerInit
<1>3. \A h \in Handlers : Bears(h)
  BY <1>2 DEF Bears, Fits, Slotted, OldStyle, PaymentSteps, PaidKey, ReadTrial
<1>4. ASSUME NEW p \in {"starter", "trial"}, sub # None, sub.plan = p, sub.apiKey = first,
             sub.trialKey = None,
             keyRec = [NoKeys EXCEPT ![first] = [plan |-> p, active |-> TRUE]],
             p = "trial" => trialUsed
      PROVE  Slotted(sub)
  <2>1. keyRec[first].plan = p
    BY <1>1, <1>4 DEF NoKeys
  <2> QED BY <1>2, <1>4, <2>1 DEF Slotted, OldStyle, TrialOver, TrialSteps
<1>5. CASE sub = None
  BY <1>3, <1>5 DEF SlotInv, Slotted, OldStyle
<1>6. CASE sub = [plan |-> "trial", apiKey |-> first, trialKey |-> None, sandbox |-> TRUE,
                  cash |-> FALSE, window |-> 1]
           /\ keyRec = [NoKeys EXCEPT ![first] = [plan |-> "trial", active |-> TRUE]] /\ trialUsed
  BY <1>3, <1>4, <1>5, <1>6 DEF SlotInv
<1>7. CASE sub = [plan |-> "starter", apiKey |-> first, trialKey |-> None, sandbox |-> TRUE,
                  cash |-> TRUE, window |-> 1]
           /\ keyRec = [NoKeys EXCEPT ![first] = [plan |-> "starter", active |-> TRUE]]
  BY <1>3, <1>4, <1>5, <1>7 DEF SlotInv
<1> QED BY <1>5, <1>6, <1>7 DEF AccountsInit, AccountInit, InitShape

\* A key the record points to exists and was minted for the slot it is in,
\* whichever stale record was written back last, from any account there was.
THEOREM KeysInTheirSlots == AccountsSpec => []KeyInItsSlot
<1>1. SlotInv /\ Typed /\ [AccountsNext]_accountsVars => SlotInv'
  BY SlotStep
<1>2. SlotInv /\ Typed => KeyInItsSlot
  BY DEF SlotInv, Slotted, Typed, Recorded, KeyInItsSlot
<1> QED BY SlotInit, AlwaysTyped, <1>1, <1>2, PTL DEF AccountsSpec
=============================================================================
