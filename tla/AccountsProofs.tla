--------------------------- MODULE AccountsProofs ---------------------------
(***************************************************************************)
(* Proofs about one account, for any sets of requests, keys, payments and  *)
(* settlements.                                                            *)
(***************************************************************************)
EXTENDS Accounts, TLAPS

-----------------------------------------------------------------------------
(* Type correctness *)

PoolSteps == {"r_sub", "r_take", "r_settle", "r_refund"}
InlineSteps == {"r_webhook", "r_mirror", "c_claim", "c_body", "c_queue", "c_entry", "c_member", "c_page"}
FillSteps == {"g_list", "g_srem", "g_lock", "g_claim", "g_body", "g_member", "g_bump", "g_gone", "g_unlock"}
PaymentSteps == {"a_intent", "a_used", "a_claim", "a_key", "a_grant", "a_credit", "a_undo", "a_sub",
                 "a_commit", "a_clean", "a_fail"}
KeySteps == {"k_lock", "k_mint", "k_sub", "k_old", "k_unlock"}
TrialSteps == {"y_read", "y_claim", "y_grant", "y_credit", "y_undo", "y_key", "y_sub", "y_mark", "y_end"}

\* Steps with a record, and with a key, in hand.
ReadSteps == {"r_take", "r_settle", "r_refund", "b_add", "b_write"} \cup InlineSteps \cup KeySteps
KeyedSteps == {"r_sub", "k_sub", "a_grant", "a_credit", "a_sub", "y_sub"}

\* The keys a record names have a record of their own.
Recorded(r) == r # None => /\ r.apiKey # None => keyRec[r.apiKey] # None
                           /\ r.trialKey # None => keyRec[r.trialKey] # None

\* What an invocation holds at each step.
Knows(h) ==
  /\ pc[h] \in PoolSteps \cup KeySteps => item[h] \in Scopes
  /\ pc[h] \in InlineSteps \cup FillSteps => item[h] \in Txs
  /\ pc[h] \in PaymentSteps => item[h] \in Payments
  /\ pc[h] \in TrialSteps => item[h] = "trial"
  /\ pc[h] \in ReadSteps => seen[h] \in Sub
  /\ pc[h] \in KeySteps => HasKey(seen[h], item[h])
  /\ pc[h] \in KeyedSteps => key[h] \in Keys
  /\ pc[h] \in {"c_body", "g_body"} => rid[h] \in ReceiptIds
  /\ pc[h] \in {"r_settle", "r_refund"} => quota[item[h]] # None
  /\ key[h] # None => keyRec[key[h]] # None
  /\ Recorded(seen[h])

\* A relay makes two attempts at its receipt.
CountsTries == \A h \in Handlers :
  /\ pc[h] \in {"idle", "r_webhook"} \cup PoolSteps => tries[h] = 1
  /\ pc[h] \in {"c_claim", "c_body"} => tries[h] \in {1, 2}

Typed == AccountsTypeOK /\ Recorded(sub) /\ CountsTries /\ \A h \in Handlers : Knows(h)

LocalTypes == /\ pc \in [Handlers -> Labels] /\ seen \in [Handlers -> Sub \cup {None}]
              /\ key \in [Handlers -> Keys \cup {None}]
              /\ item \in [Handlers -> Payments \cup Scopes \cup Txs \cup {None}]

\* A step of h leaves what the others hold alone.
Aside(h) == \A q \in Handlers \ {h} : /\ pc'[q] = pc[q] /\ seen'[q] = seen[q] /\ key'[q] = key[q]
                                      /\ item'[q] = item[q] /\ rid'[q] = rid[q]

Local(h) == LocalTypes' /\ Aside(h) /\ Knows(h)'

\* What an invocation knows at step l is all it needs at step m.
Enough(l, m) ==
  /\ m \in Labels
  /\ m \in PoolSteps \cup KeySteps => l \in PoolSteps \cup KeySteps
  /\ m \in InlineSteps \cup FillSteps => l \in InlineSteps \cup FillSteps
  /\ m \in PaymentSteps => l \in PaymentSteps
  /\ m \in TrialSteps => l \in TrialSteps
  /\ m \in ReadSteps => l \in ReadSteps
  /\ m \in KeySteps => l \in KeySteps
  /\ m \in KeyedSteps => l \in KeyedSteps
  /\ m \in {"r_settle", "r_refund"} => l \in {"r_settle", "r_refund"}

\* Nothing that was there of keys and pools is gone.
Grows == /\ \A k \in Keys : keyRec[k] # None => keyRec'[k] # None
         /\ \A s \in Scopes : quota[s] # None => quota'[s] # None

Store == AccountTypeOK' /\ Recorded(sub)' /\ Grows

\* None is told apart from whatever a record may hold.
LEMMA NoneIsNothing ==
  /\ None \notin Keys /\ None \notin Payments /\ None \notin Txs /\ None \notin Handlers
  /\ None \notin Scopes /\ None \notin Sub /\ None \notin KeyRecord /\ None \notin Nat
BY AccountAssumption

\* Whatever is done to a pool leaves amounts of credits, and a pool.
LEMMA PoolTypes ==
  ASSUME AccountTypeOK, NEW s \in Scopes, NEW x,
         \/ TakeCredit(s) \/ RejectCredit(s) \/ AddCredit(s, x) \/ AddCreditThrows(s)
         \/ RefundCredit(s) /\ quota[s] # None
         \/ UNCHANGED poolVars
  PROVE  /\ quota' \in [Scopes -> Nat \cup {None}] /\ legacy' \in Nat
         /\ credited' \in [Sources -> Nat] /\ added' \in [Scopes -> Nat]
         /\ \A z \in Scopes : quota[z] # None => quota'[z] # None
<1> DEFINE Goal == /\ quota' \in [Scopes -> Nat \cup {None}] /\ legacy' \in Nat
                   /\ credited' \in [Sources -> Nat] /\ added' \in [Scopes -> Nat]
                   /\ \A z \in Scopes : quota[z] # None => quota'[z] # None
<1>1. quota \in [Scopes -> Nat \cup {None}] /\ legacy \in Nat
      /\ credited \in [Sources -> Nat] /\ added \in [Scopes -> Nat] /\ "legacy" \in Sources
  BY DEF AccountTypeOK, Sources
<1>2. LegacyShare(s) \in Nat
  BY <1>1 DEF LegacyShare
<1>3. Seeded(s) \in Nat
  BY <1>1, <1>2 DEF Seeded
<1>4. ASSUME NEW n \in Nat, NEW credits, SeedAnd(s, n, credits)
      PROVE  Goal
  BY <1>1, <1>2, <1>3, <1>4, NoneIsNothing DEF SeedAnd
<1>5. CASE TakeCredit(s)
  BY <1>1, <1>2, <1>3, <1>5, NoneIsNothing DEF TakeCredit
<1>6. CASE RejectCredit(s)
  BY <1>4, <1>6 DEF RejectCredit
<1>7. CASE AddCredit(s, x)
  BY <1>4, <1>7 DEF AddCredit
<1>8. CASE UNCHANGED poolVars
  BY <1>1, <1>8 DEF poolVars
<1>9. CASE AddCreditThrows(s)
  BY <1>4, <1>8, <1>9 DEF AddCreditThrows
<1>10. CASE RefundCredit(s) /\ quota[s] # None
  BY <1>1, <1>10, NoneIsNothing DEF RefundCredit
<1> QED BY <1>5, <1>6, <1>7, <1>8, <1>9, <1>10

\* The step of an invocation to its next await.
LEMMA GotoKnows ==
  ASSUME Typed, Grows, NEW h \in Handlers, NEW l, Goto(h, l), Enough(pc[h], l),
         \A q \in Handlers \ {h} : rid'[q] = rid[q],
         l \in {"c_body", "g_body"} => rid'[h] \in ReceiptIds
  PROVE  Local(h)
<1>1. /\ pc \in [Handlers -> Labels] /\ l \in Labels /\ Knows(h)
      /\ pc' = [pc EXCEPT ![h] = l] /\ UNCHANGED <<seen, key, item>>
  BY DEF Typed, AccountsTypeOK, Enough, Goto
<1>2. LocalTypes' /\ Aside(h) /\ pc'[h] = l
  BY <1>1 DEF Typed, AccountsTypeOK, LocalTypes, Aside
<1>3. Recorded(seen[h])'
  BY <1>1 DEF Typed, Knows, Recorded, AccountsTypeOK, Grows, Sub
<1>4. key'[h] # None => keyRec'[key'[h]] # None
  BY <1>1 DEF Typed, Knows, AccountsTypeOK, Grows
<1>5. l \in {"r_settle", "r_refund"} => quota'[item'[h]] # None
  BY <1>1 DEF Knows, Enough, PoolSteps, Grows
<1>6. Knows(h)'
  BY <1>1, <1>2, <1>3, <1>4, <1>5 DEF Knows, Enough, HasKey, TrialSignal, LegacyTrialKey
<1> QED BY <1>2, <1>6 DEF Local

\* A step that sets what the invocation holds.
LEMMA SetLocals ==
  ASSUME Typed, NEW h \in Handlers, NEW l \in Labels, NEW r \in Sub \cup {None},
         NEW k \in Keys \cup {None}, NEW i \in Payments \cup Scopes \cup Txs \cup {None},
         pc' = [pc EXCEPT ![h] = l],
         seen' = [seen EXCEPT ![h] = r] \/ (UNCHANGED seen /\ r = seen[h]),
         key' = [key EXCEPT ![h] = k] \/ (UNCHANGED key /\ k = key[h]),
         item' = [item EXCEPT ![h] = i] \/ (UNCHANGED item /\ i = item[h]),
         UNCHANGED rid
  PROVE  /\ LocalTypes' /\ Aside(h)
         /\ pc'[h] = l /\ seen'[h] = r /\ key'[h] = k /\ item'[h] = i
BY DEF Typed, AccountsTypeOK, LocalTypes, Aside

\* Its end: it knows nothing any more.
LEMMA EndKnows ==
  ASSUME Typed, NEW h \in Handlers, End(h), \A q \in Handlers \ {h} : rid'[q] = rid[q]
  PROVE  Local(h)
<1>1. "done" \in Labels
  BY DEF Labels
<1>2. LocalTypes' /\ Aside(h) /\ pc'[h] = "done" /\ seen'[h] = None /\ key'[h] = None
  BY <1>1 DEF Typed, AccountsTypeOK, LocalTypes, Aside, End
<1>3. Knows(h)'
  BY <1>2 DEF Knows, Recorded, PoolSteps, InlineSteps, FillSteps, PaymentSteps, KeySteps, TrialSteps,
              ReadSteps, KeyedSteps
<1> QED BY <1>2, <1>3 DEF Local

\* The account's records are left alone.
LEMMA StoreKept ==
  ASSUME Typed, UNCHANGED accountVars
  PROVE  Store /\ keyRec' = keyRec /\ quota' = quota
BY DEF Typed, AccountsTypeOK, AccountTypeOK, Recorded, Grows, Store, accountVars, keyVars, poolVars,
       activationVars

\* Only the subscription record is written, with keys that are there.
LEMMA SubStore ==
  ASSUME Typed, NEW r \in Sub, Recorded(r), SetSub(r),
         UNCHANGED <<keyVars, poolVars, activationVars>>
  PROVE  Store
BY DEF Typed, AccountsTypeOK, AccountTypeOK, Recorded, Grows, Store, SetSub, keyVars, poolVars,
       activationVars

\* Only a pool is written.
LEMMA PoolStore ==
  ASSUME Typed, NEW s \in Scopes, NEW x, UNCHANGED <<sub, keyVars, activationVars>>,
         \/ TakeCredit(s) \/ RejectCredit(s) \/ AddCredit(s, x) \/ AddCreditThrows(s)
         \/ RefundCredit(s) /\ quota[s] # None
         \/ UNCHANGED poolVars
  PROVE  Store
<1>1. /\ quota' \in [Scopes -> Nat \cup {None}] /\ legacy' \in Nat
      /\ credited' \in [Sources -> Nat] /\ added' \in [Scopes -> Nat]
      /\ \A z \in Scopes : quota[z] # None => quota'[z] # None
  BY PoolTypes DEF Typed, AccountsTypeOK
<1> QED BY <1>1 DEF Typed, AccountsTypeOK, AccountTypeOK, Recorded, Grows, Store, keyVars, activationVars

\* Only a key is minted, or deactivated.
LEMMA KeyStore ==
  ASSUME Typed, NEW k \in Keys, UNCHANGED <<sub, rotLock, poolVars, activationVars>>,
         \/ \E p \in {"starter", "trial"} : NewKey(k, p)
         \/ keyRec[k] # None /\ Deactivate(k)
         \/ UNCHANGED keyRec
  PROVE  /\ Store
         /\ (\E p \in {"starter", "trial"} : NewKey(k, p)) => keyRec'[k] # None
<1>1. keyRec \in [Keys -> KeyRecord \cup {None}]
  BY DEF Typed, AccountsTypeOK, AccountTypeOK
<1> DEFINE Kept == /\ keyRec' \in [Keys -> KeyRecord \cup {None}]
                   /\ \A x \in Keys : keyRec[x] # None => keyRec'[x] # None
<1>2. ASSUME NEW p \in {"starter", "trial"}, NewKey(k, p)
      PROVE  Kept /\ keyRec'[k] # None
  <2>1. [plan |-> p, active |-> TRUE] \in KeyRecord
    BY DEF KeyRecord
  <2> QED BY <1>1, <1>2, <2>1, NoneIsNothing DEF NewKey
<1>3. ASSUME keyRec[k] # None, Deactivate(k)
      PROVE  Kept
  <2>1. keyRec[k] \in KeyRecord
    BY <1>1, <1>3
  <2>2. [keyRec[k] EXCEPT !.active = FALSE] \in KeyRecord
    BY <2>1 DEF KeyRecord
  <2>3. keyRec' = [keyRec EXCEPT ![k] = [keyRec[k] EXCEPT !.active = FALSE]] \/ UNCHANGED keyRec
    BY <1>3 DEF Deactivate
  <2> QED BY <1>1, <2>2, <2>3, NoneIsNothing
<1>4. Kept
  BY <1>1, <1>2, <1>3
<1>5. AccountTypeOK' /\ Grows
  BY <1>4 DEF Typed, AccountsTypeOK, AccountTypeOK, Grows, poolVars, activationVars
<1>6. Recorded(sub)'
  BY <1>4 DEF Typed, AccountsTypeOK, AccountTypeOK, Recorded, Sub
<1> QED BY <1>2, <1>5, <1>6 DEF Store

LEMMA RelayStartTypes ==
  ASSUME Typed, NEW h \in Handlers, RelayStart(h), UNCHANGED rid
  PROVE  Store /\ Local(h)
<1>1. Store
  BY StoreKept DEF RelayStart
<1>2. PICK k \in {sub.apiKey, sub.trialKey} \ {None} :
        key' = [key EXCEPT ![h] = k] /\ item' = [item EXCEPT ![h] = ScopeOf(k)]
  BY DEF RelayStart
<1>3. sub \in Sub /\ k \in Keys /\ keyRec[k] # None /\ ScopeOf(k) \in Scopes
  BY DEF RelayStart, Typed, AccountsTypeOK, AccountTypeOK, Sub, Recorded, ScopeOf, Scopes
<1>4. /\ "r_sub" \in Labels /\ seen[h] \in Sub \cup {None}
      /\ pc' = [pc EXCEPT ![h] = "r_sub"] /\ UNCHANGED seen
  BY DEF RelayStart, Labels, Typed, AccountsTypeOK
<1>5. /\ LocalTypes' /\ Aside(h)
      /\ pc'[h] = "r_sub" /\ seen'[h] = seen[h] /\ key'[h] = k /\ item'[h] = ScopeOf(k)
  BY <1>2, <1>3, <1>4, SetLocals
<1>6. keyRec' = keyRec /\ Recorded(seen[h])
  BY DEF RelayStart, accountVars, keyVars, Typed, Knows
<1>7. Knows(h)'
  BY <1>3, <1>5, <1>6 DEF Knows, Recorded, PoolSteps, InlineSteps, FillSteps,
                       PaymentSteps, KeySteps, TrialSteps, ReadSteps, KeyedSteps
<1> QED BY <1>1, <1>5, <1>7 DEF Local

LEMMA RelayReadSubTypes ==
  ASSUME Typed, NEW h \in Handlers, RelayReadSub(h), UNCHANGED rid
  PROVE  Store /\ Local(h)
<1>1. Store
  BY StoreKept DEF RelayReadSub
<1>2. CASE End(h)
  BY <1>1, <1>2, EndKnows
<1>3. CASE /\ sub # None /\ pc' = [pc EXCEPT ![h] = "r_take"] /\ seen' = [seen EXCEPT ![h] = sub]
           /\ UNCHANGED <<key, item>>
  <2>1. /\ sub \in Sub /\ "r_take" \in Labels
        /\ key[h] \in Keys \cup {None} /\ item[h] \in Payments \cup Scopes \cup Txs \cup {None}
    BY <1>3 DEF Typed, AccountsTypeOK, AccountTypeOK, Labels
  <2>2. /\ LocalTypes' /\ Aside(h)
        /\ pc'[h] = "r_take" /\ seen'[h] = sub /\ key'[h] = key[h] /\ item'[h] = item[h]
    BY <1>3, <2>1, SetLocals
  <2>3. /\ keyRec' = keyRec /\ Recorded(sub) /\ item[h] \in Scopes
        /\ key[h] # None => keyRec[key[h]] # None
    BY DEF RelayReadSub, accountVars, keyVars, Typed, Knows, PoolSteps
  <2>4. Knows(h)'
    BY <2>1, <2>2, <2>3 DEF Knows, Recorded, PoolSteps, InlineSteps, FillSteps,
                       PaymentSteps, KeySteps, TrialSteps, ReadSteps, KeyedSteps
  <2> QED BY <1>1, <2>2, <2>4 DEF Local
<1> QED BY <1>1, <1>2, <1>3 DEF RelayReadSub

LEMMA RelayTakeTypes ==
  ASSUME Typed, NEW h \in Handlers, RelayTake(h), UNCHANGED rid
  PROVE  Store /\ Local(h)
<1>1. Store
  BY PoolTypes, NoneIsNothing DEF RelayTake, PaidSignal, TrialSignal, Sources, LegacyTrialKey, Grants, Typed, AccountsTypeOK, AccountTypeOK, Knows, Recorded, Grows,
     Store, keyVars, poolVars, activationVars, PoolSteps
<1>2. CASE End(h)
  BY <1>1, <1>2, EndKnows
<1>3. CASE TakeCredit(item[h]) /\ Goto(h, "r_settle")
  <2>1. /\ item[h] \in Scopes /\ seen[h] \in Sub /\ Recorded(seen[h])
        /\ key[h] # None => keyRec[key[h]] # None
    BY DEF RelayTake, Typed, Knows, PoolSteps, ReadSteps
  <2>2. Seeded(item[h]) \in Nat
    <3>1. quota \in [Scopes -> Nat \cup {None}] /\ legacy \in Nat
      BY DEF Typed, AccountsTypeOK, AccountTypeOK
    <3>2. LegacyShare(item[h]) \in Nat
      BY <3>1 DEF LegacyShare
    <3> QED BY <2>1, <3>1, <3>2 DEF Seeded
  <2>3. quota'[item[h]] = Seeded(item[h]) - 1 /\ Seeded(item[h]) > 0 /\ keyRec' = keyRec
    BY <1>3, <2>1 DEF RelayTake, TakeCredit, Typed, AccountsTypeOK, AccountTypeOK, keyVars
  <2>4. "r_settle" \in Labels /\ key[h] \in Keys \cup {None}
    BY DEF Labels, Typed, AccountsTypeOK
  <2>5. /\ LocalTypes' /\ Aside(h) /\ pc'[h] = "r_settle"
        /\ seen'[h] = seen[h] /\ key'[h] = key[h] /\ item'[h] = item[h]
    BY <1>3, <2>1, <2>4, SetLocals DEF Goto
  <2>6. quota'[item[h]] # None
    BY <2>2, <2>3, NoneIsNothing
  <2>7. Knows(h)'
    BY <2>1, <2>3, <2>5, <2>6 DEF Knows, Recorded, PoolSteps, InlineSteps, FillSteps,
                       PaymentSteps, KeySteps, TrialSteps, ReadSteps, KeyedSteps
  <2> QED BY <1>1, <2>5, <2>7 DEF Local
<1> QED BY <1>1, <1>2, <1>3 DEF RelayTake

LEMMA RelaySettleTypes ==
  ASSUME Typed, NEW h \in Handlers, RelaySettle(h), UNCHANGED rid
  PROVE  Store /\ Local(h)
<1>1. Store
  BY StoreKept DEF RelaySettle
<1>2. Enough("r_settle", "r_refund")
  BY DEF Enough, PoolSteps, InlineSteps, FillSteps, PaymentSteps, KeySteps, TrialSteps, ReadSteps,
         KeyedSteps, Labels
<1>3. CASE Goto(h, "r_refund")
  BY <1>1, <1>2, <1>3, GotoKnows DEF RelaySettle, Store
<1>4. ASSUME NEW t \in Txs, pc' = [pc EXCEPT ![h] = "r_webhook"], item' = [item EXCEPT ![h] = t],
             UNCHANGED <<seen, key>>
      PROVE  Local(h)
  <2>1. "r_webhook" \in Labels /\ seen[h] \in Sub /\ key[h] \in Keys \cup {None}
    BY DEF RelaySettle, Labels, Typed, AccountsTypeOK, Knows, ReadSteps
  <2>2. /\ LocalTypes' /\ Aside(h) /\ pc'[h] = "r_webhook"
        /\ seen'[h] = seen[h] /\ key'[h] = key[h] /\ item'[h] = t
    BY <1>4, <2>1, SetLocals
  <2>3. /\ keyRec' = keyRec /\ Recorded(seen[h]) /\ (key[h] # None => keyRec[key[h]] # None)
    BY DEF RelaySettle, accountVars, keyVars, Typed, Knows
  <2>4. Knows(h)'
    BY <2>1, <2>2, <2>3 DEF Knows, Recorded, PoolSteps, InlineSteps, FillSteps,
                       PaymentSteps, KeySteps, TrialSteps, ReadSteps, KeyedSteps
  <2> QED BY <2>2, <2>4 DEF Local
<1> QED BY <1>1, <1>3, <1>4 DEF RelaySettle

LEMMA RelayRefundTypes ==
  ASSUME Typed, NEW h \in Handlers, RelayRefund(h), UNCHANGED rid
  PROVE  Store /\ Local(h)
<1>1. Store
  BY PoolTypes, NoneIsNothing DEF RelayRefund, Typed, AccountsTypeOK, AccountTypeOK, Knows, Recorded, Grows,
     Store, keyVars, poolVars, activationVars, PoolSteps
<1>3. Local(h)
  BY <1>1, GotoKnows, EndKnows DEF RelayRefund, Store
<1> QED BY <1>1, <1>3

LEMMA RelayWebhookTypes ==
  ASSUME Typed, NEW h \in Handlers, RelayWebhook(h), UNCHANGED rid
  PROVE  Store /\ Local(h)
<1>1. Store
  BY StoreKept DEF RelayWebhook
<1>2. Enough("r_webhook", "c_claim")
  BY DEF Enough, PoolSteps, InlineSteps, FillSteps, PaymentSteps, KeySteps, TrialSteps, ReadSteps, KeyedSteps, Labels
<1>3. Local(h)
  BY <1>1, <1>2, GotoKnows, EndKnows DEF RelayWebhook, Store
<1> QED BY <1>1, <1>3

LEMMA RelayMirrorTypes ==
  ASSUME Typed, NEW h \in Handlers, RelayMirror(h), UNCHANGED rid
  PROVE  Store /\ Local(h)
<1>1. Store
  BY NoneIsNothing DEF RelayMirror, SetSub, Typed, AccountsTypeOK, AccountTypeOK, Knows, Recorded, Grows,
     Store, keyVars, poolVars, activationVars, PaymentSteps, KeySteps
<1>3. Local(h)
  BY <1>1, GotoKnows, EndKnows DEF RelayMirror, Store
<1> QED BY <1>1, <1>3

LEMMA ActivateStartTypes ==
  ASSUME Typed, NEW h \in Handlers, ActivateStart(h), UNCHANGED rid
  PROVE  Store /\ Local(h)
<1>1. Store
  BY NoneIsNothing DEF ActivateStart, Promoted, TrialSignal, PaidSignal, LegacyTrialKey, Typed, AccountsTypeOK, AccountTypeOK, Knows, Recorded, Grows,
     Store, keyVars, poolVars, activationVars, PaymentSteps, KeySteps
<1>2. PICK p \in Payments : item' = [item EXCEPT ![h] = p]
  BY DEF ActivateStart
<1>3. sub \in Sub \cup {None} /\ Recorded(sub)
  BY DEF Typed, AccountsTypeOK, AccountTypeOK
<1>4. Promoted(sub) \in Sub \cup {None} /\ Recorded(Promoted(sub))
  BY <1>3 DEF Promoted, LegacyTrialKey, Sub, Recorded
<1>5. /\ "a_intent" \in Labels /\ key[h] \in Keys \cup {None}
      /\ keyRec' = keyRec /\ (key[h] # None => keyRec[key[h]] # None)
  BY DEF ActivateStart, keyVars, Labels, Typed, AccountsTypeOK, Knows
<1>6. /\ LocalTypes' /\ Aside(h) /\ pc'[h] = "a_intent"
      /\ seen'[h] = Promoted(sub) /\ key'[h] = key[h] /\ item'[h] = p
  BY <1>2, <1>4, <1>5, SetLocals DEF ActivateStart
<1>7. Knows(h)'
  BY <1>4, <1>5, <1>6 DEF Knows, Recorded, PoolSteps, InlineSteps, FillSteps,
                       PaymentSteps, KeySteps, TrialSteps, ReadSteps, KeyedSteps
<1> QED BY <1>1, <1>6, <1>7 DEF Local

LEMMA ActivateIntentTypes ==
  ASSUME Typed, NEW h \in Handlers, ActivateIntent(h), UNCHANGED rid
  PROVE  Store /\ Local(h)
<1>1. Store
  BY StoreKept DEF ActivateIntent
<1>2. Enough("a_intent", "a_used")
  BY DEF Enough, PoolSteps, InlineSteps, FillSteps, PaymentSteps, KeySteps, TrialSteps, ReadSteps, KeyedSteps, Labels
<1>3. Local(h)
  BY <1>1, <1>2, GotoKnows, EndKnows DEF ActivateIntent, Store
<1> QED BY <1>1, <1>3

LEMMA ActivateCheckUsedTypes ==
  ASSUME Typed, NEW h \in Handlers, ActivateCheckUsed(h), UNCHANGED rid
  PROVE  Store /\ Local(h)
<1>1. Store
  BY StoreKept DEF ActivateCheckUsed
<1>2. Enough("a_used", "a_claim")
  BY DEF Enough, PoolSteps, InlineSteps, FillSteps, PaymentSteps, KeySteps, TrialSteps, ReadSteps, KeyedSteps, Labels
<1>3. Local(h)
  BY <1>1, <1>2, GotoKnows, EndKnows DEF ActivateCheckUsed, Store
<1> QED BY <1>1, <1>3

LEMMA ActivateClaimTypes ==
  ASSUME Typed, NEW h \in Handlers, ActivateClaim(h), UNCHANGED rid
  PROVE  Store /\ Local(h)
<1>1. Store
  BY NoneIsNothing DEF ActivateClaim, Typed, AccountsTypeOK, AccountTypeOK, Knows, Recorded, Grows,
     Store, keyVars, poolVars, activationVars, PaymentSteps, KeySteps
<1>2. Enough("a_claim", "a_key")
  BY DEF Enough, PoolSteps, InlineSteps, FillSteps, PaymentSteps, KeySteps, TrialSteps, ReadSteps, KeyedSteps, Labels
<1>3. Local(h)
  BY <1>1, <1>2, GotoKnows, EndKnows DEF ActivateClaim, Store
<1> QED BY <1>1, <1>3

LEMMA ActivateKeyTypes ==
  ASSUME Typed, NEW h \in Handlers, ActivateKey(h), UNCHANGED rid
  PROVE  Store /\ Local(h)
<1>1. Store
  <2>1. CASE UNCHANGED keyRec
    BY <2>1, StoreKept DEF ActivateKey, accountVars, keyVars
  <2>2. ASSUME NEW k \in Keys, NewKey(k, "starter")
        PROVE  Store
    BY <2>2, KeyStore DEF ActivateKey, activationVars
  <2> QED BY <2>1, <2>2 DEF ActivateKey
<1>2. "a_grant" \in Labels
  BY DEF Enough, PoolSteps, InlineSteps, FillSteps, PaymentSteps, KeySteps, TrialSteps, ReadSteps,
         KeyedSteps, Labels
<1>3. ASSUME NEW k \in Keys, keyRec'[k] # None, key' = [key EXCEPT ![h] = k],
             pc' = [pc EXCEPT ![h] = "a_grant"], UNCHANGED <<seen, item>>
      PROVE  Local(h)
  <2>1. /\ seen[h] \in Sub \cup {None} /\ item[h] \in Payments \cup Scopes \cup Txs \cup {None}
        /\ Recorded(seen[h])' /\ Knows(h)
    BY <1>1, <1>3 DEF Typed, AccountsTypeOK, Knows, Recorded, Store, Grows, Sub
  <2>2. /\ LocalTypes' /\ Aside(h) /\ pc'[h] = "a_grant"
        /\ seen'[h] = seen[h] /\ key'[h] = k /\ item'[h] = item[h]
    BY <1>2, <1>3, <2>1, SetLocals
  <2>3. Knows(h)'
    BY <1>3, <2>1, <2>2 DEF ActivateKey, HasKey, TrialSignal, LegacyTrialKey, Knows, Recorded, PoolSteps, InlineSteps, FillSteps,
                       PaymentSteps, KeySteps, TrialSteps, ReadSteps, KeyedSteps
  <2> QED BY <2>2, <2>3 DEF Local
<1>4. CASE End(h)
  BY <1>1, <1>4, EndKnows
<1>5. CASE /\ pc' = [pc EXCEPT ![h] = "a_grant"] /\ UNCHANGED <<seen, item>>
           /\ seen[h] # None /\ seen[h].apiKey # None /\ key' = [key EXCEPT ![h] = seen[h].apiKey]
           /\ UNCHANGED keyRec
  <2>1. seen[h].apiKey \in Keys /\ keyRec'[seen[h].apiKey] # None
    BY <1>5 DEF Typed, AccountsTypeOK, Sub, Knows, Recorded
  <2> QED BY <1>1, <1>3, <1>5, <2>1
<1>6. ASSUME NEW k \in Keys, NewKey(k, "starter")
      PROVE  keyRec'[k] # None
  BY <1>6, KeyStore DEF ActivateKey, activationVars
<1> QED BY <1>1, <1>3, <1>4, <1>5, <1>6 DEF ActivateKey

LEMMA ActivateGrantTypes ==
  ASSUME Typed, NEW h \in Handlers, ActivateGrant(h), UNCHANGED rid
  PROVE  Store /\ Local(h)
<1>1. Store
  <2>1. item[h] \in Grants
    BY DEF ActivateGrant, Typed, Knows, PaymentSteps, Grants
  <2> QED BY <2>1 DEF ActivateGrant, Typed, AccountsTypeOK, AccountTypeOK, Recorded, Grows, Store,
                      keyVars, poolVars
<1>2. Enough("a_grant", "a_credit") /\ Enough("a_grant", "a_fail") /\ Enough("a_grant", "a_sub")
  BY DEF Enough, PoolSteps, InlineSteps, FillSteps, PaymentSteps, KeySteps, TrialSteps, ReadSteps, KeyedSteps, Labels
<1>3. Local(h)
  BY <1>1, <1>2, GotoKnows, EndKnows DEF ActivateGrant, Store
<1> QED BY <1>1, <1>3

LEMMA ActivateCreditTypes ==
  ASSUME Typed, NEW h \in Handlers, ActivateCredit(h), UNCHANGED rid
  PROVE  Store /\ Local(h)
<1>1. Store
  BY PoolStore DEF ActivateCredit, Scopes
<1>2. Enough("a_credit", "a_sub") /\ Enough("a_credit", "a_undo")
  BY DEF Enough, PoolSteps, InlineSteps, FillSteps, PaymentSteps, KeySteps, TrialSteps, ReadSteps, KeyedSteps, Labels
<1>3. Local(h)
  BY <1>1, <1>2, GotoKnows, EndKnows DEF ActivateCredit, Store
<1> QED BY <1>1, <1>3

LEMMA ActivateUndoTypes ==
  ASSUME Typed, NEW h \in Handlers, ActivateUndo(h), UNCHANGED rid
  PROVE  Store /\ Local(h)
<1>1. Store
  BY NoneIsNothing DEF ActivateUndo, Typed, AccountsTypeOK, AccountTypeOK, Knows, Recorded, Grows,
     Store, keyVars, poolVars, activationVars, PaymentSteps, KeySteps
<1>2. Enough("a_undo", "a_fail")
  BY DEF Enough, PoolSteps, InlineSteps, FillSteps, PaymentSteps, KeySteps, TrialSteps, ReadSteps, KeyedSteps, Labels
<1>3. Local(h)
  BY <1>1, <1>2, GotoKnows, EndKnows DEF ActivateUndo, Store
<1> QED BY <1>1, <1>3

LEMMA ActivateSubTypes ==
  ASSUME Typed, NEW h \in Handlers, ActivateSub(h), UNCHANGED rid
  PROVE  Store /\ Local(h)
<1>1. Store
  <2> DEFINE r == [plan |-> "starter", apiKey |-> key[h], sandbox |-> TRUE, cash |-> TRUE,
                   trialKey |-> IF seen[h] = None THEN None ELSE seen[h].trialKey,
                   window |-> 1 + IF seen[h] = None THEN 0 ELSE seen[h].window]
  <2>1. /\ seen[h] \in Sub \cup {None} /\ Recorded(seen[h])
        /\ key[h] \in Keys /\ keyRec[key[h]] # None
    <3>1. pc[h] = "a_sub" /\ Knows(h) /\ seen[h] \in Sub \cup {None}
      BY DEF ActivateSub, Typed, AccountsTypeOK
    <3> QED BY <3>1, NoneIsNothing DEF Knows, KeyedSteps
  <2>2. r \in Sub /\ Recorded(r)
    BY <2>1 DEF Sub, Recorded
  <2> QED BY <2>2, SubStore, StoreKept DEF ActivateSub, accountVars
<1>2. Enough("a_sub", "a_commit") /\ Enough("a_sub", "a_fail")
  BY DEF Enough, PoolSteps, InlineSteps, FillSteps, PaymentSteps, KeySteps, TrialSteps, ReadSteps, KeyedSteps, Labels
<1>3. Local(h)
  BY <1>1, <1>2, GotoKnows, EndKnows DEF ActivateSub, Store
<1> QED BY <1>1, <1>3

LEMMA ActivateCommitTypes ==
  ASSUME Typed, NEW h \in Handlers, ActivateCommit(h), UNCHANGED rid
  PROVE  Store /\ Local(h)
<1>1. Store
  BY NoneIsNothing DEF ActivateCommit, Typed, AccountsTypeOK, AccountTypeOK, Knows, Recorded, Grows,
     Store, keyVars, poolVars, activationVars, PaymentSteps, KeySteps
<1>2. Enough("a_commit", "a_clean") /\ Enough("a_commit", "a_fail")
  BY DEF Enough, PoolSteps, InlineSteps, FillSteps, PaymentSteps, KeySteps, TrialSteps, ReadSteps, KeyedSteps, Labels
<1>3. Local(h)
  BY <1>1, <1>2, GotoKnows, EndKnows DEF ActivateCommit, Store
<1> QED BY <1>1, <1>3

LEMMA ActivateCleanTypes ==
  ASSUME Typed, NEW h \in Handlers, ActivateClean(h), UNCHANGED rid
  PROVE  Store /\ Local(h)
<1>1. Store
  BY NoneIsNothing DEF ActivateClean, DropClaim, Typed, AccountsTypeOK, AccountTypeOK, Knows, Recorded, Grows,
     Store, keyVars, poolVars, activationVars, PaymentSteps, KeySteps
<1>3. Local(h)
  BY <1>1, GotoKnows, EndKnows DEF ActivateClean, Store
<1> QED BY <1>1, <1>3

LEMMA ActivateFailTypes ==
  ASSUME Typed, NEW h \in Handlers, ActivateFail(h), UNCHANGED rid
  PROVE  Store /\ Local(h)
<1>1. Store
  BY NoneIsNothing DEF ActivateFail, DropClaim, Typed, AccountsTypeOK, AccountTypeOK, Knows, Recorded, Grows,
     Store, keyVars, poolVars, activationVars, PaymentSteps, KeySteps
<1>3. Local(h)
  BY <1>1, GotoKnows, EndKnows DEF ActivateFail, Store
<1> QED BY <1>1, <1>3

LEMMA RotateStartTypes ==
  ASSUME Typed, NEW h \in Handlers, RotateStart(h), UNCHANGED rid
  PROVE  Store /\ Local(h)
<1>1. Store
  BY StoreKept DEF RotateStart
<1>2. /\ sub \in Sub \cup {None} /\ Recorded(sub) /\ "k_lock" \in Labels
      /\ key[h] \in Keys \cup {None} /\ item[h] \in Payments \cup Scopes \cup Txs \cup {None}
      /\ keyRec' = keyRec /\ (key[h] # None => keyRec[key[h]] # None)
  BY DEF RotateStart, Typed, AccountsTypeOK, AccountTypeOK, Knows, Labels, accountVars, keyVars
<1>3. PICK s \in Scopes : /\ HasKey(sub, s) /\ item' = [item EXCEPT ![h] = s]
                          /\ pc' = [pc EXCEPT ![h] = "k_lock"] /\ seen' = [seen EXCEPT ![h] = sub]
                          /\ sub # None /\ UNCHANGED key
  BY DEF RotateStart
<1>4. /\ LocalTypes' /\ Aside(h) /\ pc'[h] = "k_lock"
      /\ seen'[h] = sub /\ key'[h] = key[h] /\ item'[h] = s
  BY <1>2, <1>3, SetLocals
<1>5. Knows(h)'
  BY <1>2, <1>3, <1>4 DEF RotateStart, HasKey, TrialSignal, LegacyTrialKey, Knows, Recorded, PoolSteps, InlineSteps, FillSteps,
                       PaymentSteps, KeySteps, TrialSteps, ReadSteps, KeyedSteps
<1> QED BY <1>1, <1>4, <1>5 DEF Local

LEMMA RotateLockTypes ==
  ASSUME Typed, NEW h \in Handlers, RotateLock(h), UNCHANGED rid
  PROVE  Store /\ Local(h)
<1>1. Store
  BY NoneIsNothing DEF RotateLock, Typed, AccountsTypeOK, AccountTypeOK, Knows, Recorded, Grows,
     Store, keyVars, poolVars, activationVars, PaymentSteps, KeySteps
<1>2. Enough("k_lock", "k_mint")
  BY DEF Enough, PoolSteps, InlineSteps, FillSteps, PaymentSteps, KeySteps, TrialSteps, ReadSteps, KeyedSteps, Labels
<1>3. Local(h)
  BY <1>1, <1>2, GotoKnows, EndKnows DEF RotateLock, Store
<1> QED BY <1>1, <1>3

LEMMA RotateMintTypes ==
  ASSUME Typed, NEW h \in Handlers, RotateMint(h), UNCHANGED rid
  PROVE  Store /\ Local(h)
<1>1. Store
  <2>1. seen[h] \in Sub
    BY DEF RotateMint, Typed, Knows, ReadSteps, KeySteps
  <2>2. (IF item[h] = "trial" THEN "trial" ELSE seen[h].plan) \in {"starter", "trial"}
    BY <2>1 DEF Sub
  <2>3. CASE UNCHANGED keyRec
    BY <2>3, StoreKept DEF RotateMint, accountVars, keyVars
  <2>4. ASSUME NEW k \in Keys, NewKey(k, IF item[h] = "trial" THEN "trial" ELSE seen[h].plan)
        PROVE  Store
    BY <2>2, <2>4, KeyStore DEF RotateMint
  <2> QED BY <2>3, <2>4 DEF RotateMint
<1>2. Enough("k_mint", "k_unlock") /\ "k_sub" \in Labels
  BY DEF Enough, PoolSteps, InlineSteps, FillSteps, PaymentSteps, KeySteps, TrialSteps, ReadSteps,
         KeyedSteps, Labels
<1>3. ASSUME NEW k \in Keys, keyRec'[k] # None, key' = [key EXCEPT ![h] = k],
             pc' = [pc EXCEPT ![h] = "k_sub"], UNCHANGED <<seen, item>>
      PROVE  Local(h)
  <2>1. /\ seen[h] \in Sub \cup {None} /\ item[h] \in Payments \cup Scopes \cup Txs \cup {None}
        /\ Recorded(seen[h])' /\ Knows(h)
    BY <1>1, <1>3 DEF Typed, AccountsTypeOK, Knows, Recorded, Store, Grows, Sub
  <2>2. /\ LocalTypes' /\ Aside(h) /\ pc'[h] = "k_sub"
        /\ seen'[h] = seen[h] /\ key'[h] = k /\ item'[h] = item[h]
    BY <1>2, <1>3, <2>1, SetLocals
  <2>3. Knows(h)'
    BY <1>3, <2>1, <2>2 DEF RotateMint, HasKey, TrialSignal, LegacyTrialKey, Knows, Recorded, PoolSteps, InlineSteps, FillSteps,
                       PaymentSteps, KeySteps, TrialSteps, ReadSteps, KeyedSteps
  <2> QED BY <2>2, <2>3 DEF Local
<1>4. CASE Goto(h, "k_unlock")
  BY <1>1, <1>2, <1>4, GotoKnows DEF RotateMint, Store
<1>5. (IF item[h] = "trial" THEN "trial" ELSE seen[h].plan) \in {"starter", "trial"}
  BY DEF RotateMint, Typed, Knows, ReadSteps, KeySteps, Sub
<1>6. ASSUME NEW k \in Keys, NewKey(k, IF item[h] = "trial" THEN "trial" ELSE seen[h].plan)
      PROVE  keyRec'[k] # None
  BY <1>5, <1>6, KeyStore DEF RotateMint
<1> QED BY <1>1, <1>3, <1>4, <1>6 DEF RotateMint

LEMMA RotateSubTypes ==
  ASSUME Typed, NEW h \in Handlers, RotateSub(h), UNCHANGED rid
  PROVE  Store /\ Local(h)
<1>1. Store
  <2>1. seen[h] \in Sub /\ Recorded(seen[h]) /\ key[h] \in Keys /\ keyRec[key[h]] # None
    <3>1. pc[h] = "k_sub" /\ Knows(h)
      BY DEF RotateSub, Typed
    <3> QED BY <3>1, NoneIsNothing DEF Knows, ReadSteps, KeySteps, KeyedSteps
  <2>2. /\ RotatedSub(seen[h], item[h], key[h]) \in Sub
        /\ RotatedSub(seen[h], item[h], key[h]).apiKey \in {seen[h].apiKey, key[h], None}
        /\ RotatedSub(seen[h], item[h], key[h]).trialKey \in {seen[h].trialKey, key[h]}
    BY <2>1 DEF RotatedSub, Sub
  <2>3. Recorded(RotatedSub(seen[h], item[h], key[h]))
    BY <2>1, <2>2, NoneIsNothing DEF Recorded
  <2> QED BY <2>2, <2>3, SubStore, StoreKept DEF RotateSub, accountVars
<1>2. Enough("k_sub", "k_old") /\ Enough("k_sub", "k_unlock")
  BY DEF Enough, PoolSteps, InlineSteps, FillSteps, PaymentSteps, KeySteps, TrialSteps, ReadSteps, KeyedSteps, Labels
<1>3. Local(h)
  BY <1>1, <1>2, GotoKnows, EndKnows DEF RotateSub, Store
<1> QED BY <1>1, <1>3

LEMMA RotateOldTypes ==
  ASSUME Typed, NEW h \in Handlers, RotateOld(h), UNCHANGED rid
  PROVE  Store /\ Local(h)
<1>1. Store
  <2>1. seen[h] \in Sub /\ Recorded(seen[h]) /\ HasKey(seen[h], item[h])
    BY DEF RotateOld, Typed, Knows, ReadSteps, KeySteps
  <2>2. OldKey(seen[h], item[h]) \in Keys /\ keyRec[OldKey(seen[h], item[h])] # None
    BY <2>1, NoneIsNothing DEF OldKey, HasKey, TrialSignal, LegacyTrialKey, Recorded, Sub
  <2> QED BY <2>2, KeyStore DEF RotateOld
<1>2. Enough("k_old", "k_unlock")
  BY DEF Enough, PoolSteps, InlineSteps, FillSteps, PaymentSteps, KeySteps, TrialSteps, ReadSteps, KeyedSteps, Labels
<1>3. Local(h)
  BY <1>1, <1>2, GotoKnows, EndKnows DEF RotateOld, Store
<1> QED BY <1>1, <1>3

LEMMA RotateUnlockTypes ==
  ASSUME Typed, NEW h \in Handlers, RotateUnlock(h), UNCHANGED rid
  PROVE  Store /\ Local(h)
<1>1. Store
  BY NoneIsNothing DEF RotateUnlock, Typed, AccountsTypeOK, AccountTypeOK, Knows, Recorded, Grows,
     Store, keyVars, poolVars, activationVars, PaymentSteps, KeySteps
<1>3. Local(h)
  BY <1>1, GotoKnows, EndKnows DEF RotateUnlock, Store
<1> QED BY <1>1, <1>3

LEMMA ProvisionStartTypes ==
  ASSUME Typed, NEW h \in Handlers, ProvisionStart(h), UNCHANGED rid
  PROVE  Store /\ Local(h)
<1>1. Store
  BY StoreKept DEF ProvisionStart
<1>2. /\ sub \in Sub \cup {None} /\ Recorded(sub) /\ "p_write" \in Labels
      /\ key[h] \in Keys \cup {None} /\ item[h] \in Payments \cup Scopes \cup Txs \cup {None}
      /\ keyRec' = keyRec /\ (key[h] # None => keyRec[key[h]] # None)
  BY DEF ProvisionStart, Typed, AccountsTypeOK, AccountTypeOK, Knows, Labels, accountVars, keyVars
<1>4. /\ LocalTypes' /\ Aside(h) /\ pc'[h] = "p_write"
      /\ seen'[h] = sub /\ key'[h] = key[h] /\ item'[h] = item[h]
  BY <1>2, SetLocals DEF ProvisionStart
<1>5. Knows(h)'
  BY <1>2, <1>4 DEF ProvisionStart, Knows, Recorded, PoolSteps, InlineSteps, FillSteps,
                       PaymentSteps, KeySteps, TrialSteps, ReadSteps, KeyedSteps
<1> QED BY <1>1, <1>4, <1>5 DEF Local

LEMMA ProvisionWriteTypes ==
  ASSUME Typed, NEW h \in Handlers, ProvisionWrite(h), UNCHANGED rid
  PROVE  Store /\ Local(h)
<1>1. Store
  <2> DEFINE r == IF seen[h] = None THEN Stub ELSE [seen[h] EXCEPT !.sandbox = TRUE]
  <2>1. seen[h] \in Sub \cup {None} /\ Recorded(seen[h])
    BY DEF Typed, AccountsTypeOK, Knows
  <2>2. r \in Sub
    BY <2>1 DEF Stub, Sub
  <2>3. Recorded(r)
    BY <2>1 DEF Stub, Recorded, Sub
  <2> QED BY <2>2, <2>3, SubStore, StoreKept DEF ProvisionWrite, accountVars
<1>3. Local(h)
  BY <1>1, GotoKnows, EndKnows DEF ProvisionWrite, Store
<1> QED BY <1>1, <1>3

LEMMA TopupStartTypes ==
  ASSUME Typed, NEW h \in Handlers, TopupStart(h), UNCHANGED rid
  PROVE  Store /\ Local(h)
<1>1. Store
  BY StoreKept DEF TopupStart
<1>2. /\ sub \in Sub \cup {None} /\ Recorded(sub) /\ "b_add" \in Labels
      /\ key[h] \in Keys \cup {None} /\ item[h] \in Payments \cup Scopes \cup Txs \cup {None}
      /\ keyRec' = keyRec /\ (key[h] # None => keyRec[key[h]] # None)
  BY DEF TopupStart, Typed, AccountsTypeOK, AccountTypeOK, Knows, Labels, accountVars, keyVars
<1>4. /\ LocalTypes' /\ Aside(h) /\ pc'[h] = "b_add"
      /\ seen'[h] = sub /\ key'[h] = key[h] /\ item'[h] = item[h]
  BY <1>2, SetLocals DEF TopupStart
<1>5. Knows(h)'
  BY <1>2, <1>4 DEF TopupStart, Knows, Recorded, PoolSteps, InlineSteps, FillSteps,
                       PaymentSteps, KeySteps, TrialSteps, ReadSteps, KeyedSteps
<1> QED BY <1>1, <1>4, <1>5 DEF Local

LEMMA TopupAddTypes ==
  ASSUME Typed, NEW h \in Handlers, TopupAdd(h), UNCHANGED rid
  PROVE  Store /\ Local(h)
<1>1. Store
  BY PoolStore DEF TopupAdd, Scopes
<1>2. Enough("b_add", "b_write")
  BY DEF Enough, PoolSteps, InlineSteps, FillSteps, PaymentSteps, KeySteps, TrialSteps, ReadSteps, KeyedSteps, Labels
<1>3. Local(h)
  BY <1>1, <1>2, GotoKnows, EndKnows DEF TopupAdd, Store
<1> QED BY <1>1, <1>3

LEMMA TopupWriteTypes ==
  ASSUME Typed, NEW h \in Handlers, TopupWrite(h), UNCHANGED rid
  PROVE  Store /\ Local(h)
<1>1. Store
  BY NoneIsNothing DEF TopupWrite, SetSub, Typed, AccountsTypeOK, AccountTypeOK, Knows, Recorded, Grows,
     Store, keyVars, poolVars, activationVars, PaymentSteps, KeySteps
<1>3. Local(h)
  BY <1>1, GotoKnows, EndKnows DEF TopupWrite, Store
<1> QED BY <1>1, <1>3

LEMMA TrialStartTypes ==
  ASSUME Typed, NEW h \in Handlers, TrialStart(h), UNCHANGED rid
  PROVE  Store /\ Local(h)
<1>1. Store
  BY StoreKept DEF TrialStart
<1>2. /\ seen[h] \in Sub \cup {None} /\ Recorded(seen[h]) /\ "y_read" \in Labels
      /\ key[h] \in Keys \cup {None} /\ "trial" \in Scopes
      /\ keyRec' = keyRec /\ (key[h] # None => keyRec[key[h]] # None)
  BY DEF TrialStart, Typed, AccountsTypeOK, Knows, Labels, Scopes, accountVars, keyVars
<1>3. /\ LocalTypes' /\ Aside(h) /\ pc'[h] = "y_read"
      /\ seen'[h] = seen[h] /\ key'[h] = key[h] /\ item'[h] = "trial"
  BY <1>2, SetLocals DEF TrialStart
<1>4. Knows(h)'
  BY <1>2, <1>3 DEF Knows, Recorded, PoolSteps, InlineSteps, FillSteps,
                       PaymentSteps, KeySteps, TrialSteps, ReadSteps, KeyedSteps
<1> QED BY <1>1, <1>3, <1>4 DEF Local

LEMMA TrialReadTypes ==
  ASSUME Typed, NEW h \in Handlers, TrialRead(h), UNCHANGED rid
  PROVE  Store /\ Local(h)
<1>1. Store
  BY StoreKept DEF TrialRead
<1>2. CASE End(h)
  BY <1>1, <1>2, EndKnows
<1>3. CASE /\ seen' = [seen EXCEPT ![h] = sub] /\ pc' = [pc EXCEPT ![h] = "y_claim"]
           /\ UNCHANGED <<key, item>>
  <2>1. /\ sub \in Sub \cup {None} /\ Recorded(sub) /\ "y_claim" \in Labels /\ item[h] = "trial"
        /\ key[h] \in Keys \cup {None} /\ item[h] \in Payments \cup Scopes \cup Txs \cup {None}
        /\ keyRec' = keyRec /\ (key[h] # None => keyRec[key[h]] # None)
    BY DEF TrialRead, Typed, AccountsTypeOK, AccountTypeOK, Knows, TrialSteps, Labels, accountVars, keyVars
  <2>2. /\ LocalTypes' /\ Aside(h) /\ pc'[h] = "y_claim"
        /\ seen'[h] = sub /\ key'[h] = key[h] /\ item'[h] = item[h]
    BY <1>3, <2>1, SetLocals
  <2>3. Knows(h)'
    BY <2>1, <2>2 DEF Knows, Recorded, PoolSteps, InlineSteps, FillSteps,
                       PaymentSteps, KeySteps, TrialSteps, ReadSteps, KeyedSteps
  <2> QED BY <1>1, <2>2, <2>3 DEF Local
<1> QED BY <1>1, <1>2, <1>3 DEF TrialRead

LEMMA TrialClaimTypes ==
  ASSUME Typed, NEW h \in Handlers, TrialClaim(h), UNCHANGED rid
  PROVE  Store /\ Local(h)
<1>1. Store
  BY NoneIsNothing DEF TrialClaim, Typed, AccountsTypeOK, AccountTypeOK, Knows, Recorded, Grows,
     Store, keyVars, poolVars, activationVars, PaymentSteps, KeySteps
<1>2. Enough("y_claim", "y_grant")
  BY DEF Enough, PoolSteps, InlineSteps, FillSteps, PaymentSteps, KeySteps, TrialSteps, ReadSteps, KeyedSteps, Labels
<1>3. Local(h)
  BY <1>1, <1>2, GotoKnows, EndKnows DEF TrialClaim, Store
<1> QED BY <1>1, <1>3

LEMMA TrialGrantTypes ==
  ASSUME Typed, NEW h \in Handlers, TrialGrant(h), UNCHANGED rid
  PROVE  Store /\ Local(h)
<1>1. Store
  <2>1. "trial" \in Grants
    BY DEF Grants
  <2> QED BY <2>1 DEF TrialGrant, Typed, AccountsTypeOK, AccountTypeOK, Recorded, Grows, Store,
                      keyVars, poolVars
<1>2. Enough("y_grant", "y_credit") /\ Enough("y_grant", "y_end") /\ Enough("y_grant", "y_key")
  BY DEF Enough, PoolSteps, InlineSteps, FillSteps, PaymentSteps, KeySteps, TrialSteps, ReadSteps, KeyedSteps, Labels
<1>3. Local(h)
  BY <1>1, <1>2, GotoKnows, EndKnows DEF TrialGrant, Store
<1> QED BY <1>1, <1>3

LEMMA TrialCreditTypes ==
  ASSUME Typed, NEW h \in Handlers, TrialCredit(h), UNCHANGED rid
  PROVE  Store /\ Local(h)
<1>1. Store
  BY PoolStore DEF TrialCredit, Scopes
<1>2. Enough("y_credit", "y_key") /\ Enough("y_credit", "y_undo")
  BY DEF Enough, PoolSteps, InlineSteps, FillSteps, PaymentSteps, KeySteps, TrialSteps, ReadSteps, KeyedSteps, Labels
<1>3. Local(h)
  BY <1>1, <1>2, GotoKnows, EndKnows DEF TrialCredit, Store
<1> QED BY <1>1, <1>3

LEMMA TrialUndoTypes ==
  ASSUME Typed, NEW h \in Handlers, TrialUndo(h), UNCHANGED rid
  PROVE  Store /\ Local(h)
<1>1. Store
  BY NoneIsNothing DEF TrialUndo, Typed, AccountsTypeOK, AccountTypeOK, Knows, Recorded, Grows,
     Store, keyVars, poolVars, activationVars, PaymentSteps, KeySteps
<1>2. Enough("y_undo", "y_end")
  BY DEF Enough, PoolSteps, InlineSteps, FillSteps, PaymentSteps, KeySteps, TrialSteps, ReadSteps, KeyedSteps, Labels
<1>3. Local(h)
  BY <1>1, <1>2, GotoKnows, EndKnows DEF TrialUndo, Store
<1> QED BY <1>1, <1>3

LEMMA TrialKeyTypes ==
  ASSUME Typed, NEW h \in Handlers, TrialKey(h), UNCHANGED rid
  PROVE  Store /\ Local(h)
<1>1. Store
  <2>1. CASE UNCHANGED keyRec
    BY <2>1, StoreKept DEF TrialKey, accountVars, keyVars
  <2>2. ASSUME NEW k \in Keys, NewKey(k, "trial")
        PROVE  Store
    BY <2>2, KeyStore DEF TrialKey, activationVars
  <2> QED BY <2>1, <2>2 DEF TrialKey
<1>2. Enough("y_key", "y_end") /\ "y_sub" \in Labels
  BY DEF Enough, PoolSteps, InlineSteps, FillSteps, PaymentSteps, KeySteps, TrialSteps, ReadSteps,
         KeyedSteps, Labels
<1>3. ASSUME NEW k \in Keys, keyRec'[k] # None, key' = [key EXCEPT ![h] = k],
             pc' = [pc EXCEPT ![h] = "y_sub"], UNCHANGED <<seen, item>>
      PROVE  Local(h)
  <2>1. /\ seen[h] \in Sub \cup {None} /\ item[h] \in Payments \cup Scopes \cup Txs \cup {None}
        /\ Recorded(seen[h])' /\ Knows(h)
    BY <1>1, <1>3 DEF Typed, AccountsTypeOK, Knows, Recorded, Store, Grows, Sub
  <2>2. /\ LocalTypes' /\ Aside(h) /\ pc'[h] = "y_sub"
        /\ seen'[h] = seen[h] /\ key'[h] = k /\ item'[h] = item[h]
    BY <1>2, <1>3, <2>1, SetLocals
  <2>3. Knows(h)'
    BY <1>3, <2>1, <2>2 DEF TrialKey, HasKey, TrialSignal, LegacyTrialKey, Knows, Recorded, PoolSteps, InlineSteps, FillSteps,
                       PaymentSteps, KeySteps, TrialSteps, ReadSteps, KeyedSteps
  <2> QED BY <2>2, <2>3 DEF Local
<1>4. CASE Goto(h, "y_end")
  BY <1>1, <1>2, <1>4, GotoKnows DEF TrialKey, Store
<1>5. CASE /\ pc' = [pc EXCEPT ![h] = "y_sub"] /\ UNCHANGED <<seen, item>>
           /\ seen[h] # None /\ seen[h].trialKey # None /\ key' = [key EXCEPT ![h] = seen[h].trialKey]
           /\ UNCHANGED keyRec
  <2>1. seen[h].trialKey \in Keys /\ keyRec'[seen[h].trialKey] # None
    BY <1>5 DEF Typed, AccountsTypeOK, Sub, Knows, Recorded
  <2> QED BY <1>1, <1>3, <1>5, <2>1
<1>6. ASSUME NEW k \in Keys, NewKey(k, "trial")
      PROVE  keyRec'[k] # None
  BY <1>6, KeyStore DEF TrialKey, activationVars
<1> QED BY <1>1, <1>3, <1>4, <1>5, <1>6 DEF TrialKey

LEMMA TrialSubTypes ==
  ASSUME Typed, NEW h \in Handlers, TrialSub(h), UNCHANGED rid
  PROVE  Store /\ Local(h)
<1>1. Store
  <2> DEFINE r == [plan |-> "trial", trialKey |-> key[h], cash |-> FALSE, window |-> 1,
                   apiKey |-> IF seen[h] = None THEN None ELSE seen[h].apiKey,
                   sandbox |-> seen[h] # None /\ seen[h].sandbox]
  <2>1. /\ seen[h] \in Sub \cup {None} /\ Recorded(seen[h])
        /\ key[h] \in Keys /\ keyRec[key[h]] # None
    <3>1. pc[h] = "y_sub" /\ Knows(h) /\ seen[h] \in Sub \cup {None}
      BY DEF TrialSub, Typed, AccountsTypeOK
    <3> QED BY <3>1, NoneIsNothing DEF Knows, KeyedSteps
  <2>2. r \in Sub
    <3>1. CASE seen[h] = None
      BY <2>1, <3>1 DEF Sub
    <3>2. CASE seen[h] # None
      BY <2>1, <3>2, ZenonT(20) DEF Sub
    <3> QED BY <3>1, <3>2
  <2>3. Recorded(r)
    BY <2>1 DEF Recorded
  <2> QED BY <2>2, <2>3, SubStore, StoreKept DEF TrialSub, accountVars
<1>2. Enough("y_sub", "y_end") /\ Enough("y_sub", "y_mark")
  BY DEF Enough, PoolSteps, InlineSteps, FillSteps, PaymentSteps, KeySteps, TrialSteps, ReadSteps, KeyedSteps, Labels
<1>3. Local(h)
  BY <1>1, <1>2, GotoKnows, EndKnows DEF TrialSub, Store
<1> QED BY <1>1, <1>3

LEMMA TrialMarkTypes ==
  ASSUME Typed, NEW h \in Handlers, TrialMark(h), UNCHANGED rid
  PROVE  Store /\ Local(h)
<1>1. Store
  BY NoneIsNothing DEF TrialMark, Typed, AccountsTypeOK, AccountTypeOK, Knows, Recorded, Grows,
     Store, keyVars, poolVars, activationVars, PaymentSteps, KeySteps
<1>2. Enough("y_mark", "y_end")
  BY DEF Enough, PoolSteps, InlineSteps, FillSteps, PaymentSteps, KeySteps, TrialSteps, ReadSteps, KeyedSteps, Labels
<1>3. Local(h)
  BY <1>1, <1>2, GotoKnows, EndKnows DEF TrialMark, Store
<1> QED BY <1>1, <1>3

LEMMA TrialEndTypes ==
  ASSUME Typed, NEW h \in Handlers, TrialEnd(h), UNCHANGED rid
  PROVE  Store /\ Local(h)
<1>1. Store
  BY NoneIsNothing DEF TrialEnd, Typed, AccountsTypeOK, AccountTypeOK, Knows, Recorded, Grows,
     Store, keyVars, poolVars, activationVars, PaymentSteps, KeySteps
<1>3. Local(h)
  BY <1>1, GotoKnows, EndKnows DEF TrialEnd, Store
<1> QED BY <1>1, <1>3

LEMMA CrashTypes ==
  ASSUME Typed, NEW h \in Handlers, Crash(h), UNCHANGED rid
  PROVE  Store /\ Local(h)
<1>1. Store
  BY StoreKept DEF Crash
<1>3. Local(h)
  BY <1>1, GotoKnows, EndKnows DEF Crash, Store
<1> QED BY <1>1, <1>3

LEMMA InlineClaimTypes ==
  ASSUME Typed, NEW h \in Handlers, InlineClaim(h)
  PROVE  Store /\ Local(h)
<1>1. Store
  BY StoreKept DEF InlineClaim
<1>2. Enough("c_claim", "c_body") /\ Enough("c_claim", "r_mirror") /\ Enough("c_claim", "c_claim") /\ Enough("c_claim", "c_queue")
  BY DEF Enough, PoolSteps, InlineSteps, FillSteps, PaymentSteps, KeySteps, TrialSteps, ReadSteps,
         KeyedSteps, Labels
<1>3. /\ pc[h] = "c_claim" /\ receiptOf \in [Txs -> ReceiptIds \cup {None}] /\ item[h] \in Txs
      /\ rid \in [Handlers -> ReceiptIds \cup {None}]
  BY DEF InlineClaim, Typed, AccountsTypeOK, ReceiptTypeOK, Knows, InlineSteps, FillSteps
<1>4. ASSUME ClaimReceipt(h, <<h, tries[h]>>, "c_body", "r_mirror")
      PROVE  Local(h)
  <2>1. CASE UNCHANGED rid /\ Goto(h, "r_mirror")
    BY <1>1, <1>2, <1>3, <2>1, GotoKnows DEF Store
  <2>2. ASSUME NEW x \in ReceiptIds, rid' = [rid EXCEPT ![h] = x], Goto(h, "c_body")
        PROVE  Local(h)
    BY <1>1, <1>2, <1>3, <2>2, GotoKnows DEF Store
  <2> QED BY <1>3, <1>4, <2>1, <2>2 DEF ClaimReceipt, ReceiptIds, Typed, CountsTries, InlineClaim
<1> QED BY <1>1, <1>2, <1>3, <1>4, GotoKnows DEF InlineClaim, Store

LEMMA InlineBodyTypes ==
  ASSUME Typed, NEW h \in Handlers, InlineBody(h)
  PROVE  Store /\ Local(h)
<1>1. Store
  BY StoreKept DEF InlineBody
<1>2. Enough("c_body", "c_claim") /\ Enough("c_body", "c_queue") /\ Enough("c_body", "r_mirror")
  BY DEF Enough, PoolSteps, InlineSteps, FillSteps, PaymentSteps, KeySteps, TrialSteps, ReadSteps, KeyedSteps, Labels
<1>3. Local(h)
  BY <1>1, <1>2, GotoKnows, EndKnows DEF InlineBody, Store
<1> QED BY <1>1, <1>3

LEMMA EnqueueTypes ==
  ASSUME Typed, NEW h \in Handlers, Enqueue(h)
  PROVE  Store /\ Local(h)
<1>1. Store
  BY StoreKept DEF Enqueue
<1>2. Enough("c_queue", "c_entry") /\ Enough("c_queue", "c_member") /\ Enough("c_queue", "c_page")
  BY DEF Enough, PoolSteps, InlineSteps, FillSteps, PaymentSteps, KeySteps, TrialSteps, ReadSteps, KeyedSteps, Labels
<1>3. Local(h)
  BY <1>1, <1>2, GotoKnows, EndKnows DEF Enqueue, Store
<1> QED BY <1>1, <1>3

LEMMA EnqueueRestTypes ==
  ASSUME Typed, NEW h \in Handlers, EnqueueRest(h)
  PROVE  Store /\ Local(h)
<1>1. Store
  BY StoreKept DEF EnqueueRest
<1>2. Enough("c_entry", "c_page") /\ Enough("c_entry", "r_mirror") /\ Enough("c_member", "c_page") /\ Enough("c_member", "r_mirror")
  BY DEF Enough, PoolSteps, InlineSteps, FillSteps, PaymentSteps, KeySteps, TrialSteps, ReadSteps, KeyedSteps, Labels
<1>3. Local(h)
  BY <1>1, <1>2, GotoKnows, EndKnows DEF EnqueueRest, Store
<1> QED BY <1>1, <1>3

LEMMA PageReceiptTypes ==
  ASSUME Typed, NEW h \in Handlers, PageReceipt(h)
  PROVE  Store /\ Local(h)
<1>1. Store
  BY StoreKept DEF PageReceipt
<1>2. Enough("c_page", "r_mirror")
  BY DEF Enough, PoolSteps, InlineSteps, FillSteps, PaymentSteps, KeySteps, TrialSteps, ReadSteps, KeyedSteps, Labels
<1>3. Local(h)
  BY <1>1, <1>2, GotoKnows, EndKnows DEF PageReceipt, Store
<1> QED BY <1>1, <1>3

LEMMA FillStartTypes ==
  ASSUME Typed, NEW h \in Handlers, FillStart(h)
  PROVE  Store /\ Local(h)
<1>1. Store
  BY StoreKept DEF FillStart
<1>2. PICK t \in queue : item' = [item EXCEPT ![h] = t]
  BY DEF FillStart
<1>3. /\ seen[h] \in Sub \cup {None} /\ Recorded(seen[h]) /\ "g_list" \in Labels
      /\ key[h] \in Keys \cup {None} /\ t \in Txs
      /\ keyRec' = keyRec /\ (key[h] # None => keyRec[key[h]] # None)
  BY DEF FillStart, Typed, AccountsTypeOK, ReceiptTypeOK, Knows, Labels, accountVars, keyVars
<1>4. /\ LocalTypes' /\ Aside(h) /\ pc'[h] = "g_list"
      /\ seen'[h] = seen[h] /\ key'[h] = key[h] /\ item'[h] = t
  BY <1>2, <1>3, SetLocals DEF FillStart, receiptVars
<1>5. Knows(h)'
  BY <1>3, <1>4 DEF Knows, Recorded, PoolSteps, InlineSteps, FillSteps,
                       PaymentSteps, KeySteps, TrialSteps, ReadSteps, KeyedSteps
<1> QED BY <1>1, <1>4, <1>5 DEF Local

LEMMA FillReadTypes ==
  ASSUME Typed, NEW h \in Handlers, FillRead(h)
  PROVE  Store /\ Local(h)
<1>1. Store
  BY StoreKept DEF FillRead
<1>2. Enough("g_list", "g_lock") /\ Enough("g_list", "g_srem")
  BY DEF Enough, PoolSteps, InlineSteps, FillSteps, PaymentSteps, KeySteps, TrialSteps, ReadSteps, KeyedSteps, Labels
<1>3. Local(h)
  BY <1>1, <1>2, GotoKnows, EndKnows DEF FillRead, Store
<1> QED BY <1>1, <1>3

LEMMA FillDropOrphanTypes ==
  ASSUME Typed, NEW h \in Handlers, FillDropOrphan(h)
  PROVE  Store /\ Local(h)
<1>1. Store
  BY StoreKept DEF FillDropOrphan
<1>3. Local(h)
  BY <1>1, GotoKnows, EndKnows DEF FillDropOrphan, Store
<1> QED BY <1>1, <1>3

LEMMA FillLockTypes ==
  ASSUME Typed, NEW h \in Handlers, FillLock(h)
  PROVE  Store /\ Local(h)
<1>1. Store
  BY StoreKept DEF FillLock
<1>2. Enough("g_lock", "g_claim")
  BY DEF Enough, PoolSteps, InlineSteps, FillSteps, PaymentSteps, KeySteps, TrialSteps, ReadSteps, KeyedSteps, Labels
<1>3. Local(h)
  BY <1>1, <1>2, GotoKnows, EndKnows DEF FillLock, Store
<1> QED BY <1>1, <1>3

LEMMA FillClaimTypes ==
  ASSUME Typed, NEW h \in Handlers, FillClaim(h)
  PROVE  Store /\ Local(h)
<1>1. Store
  BY StoreKept DEF FillClaim
<1>2. Enough("g_claim", "g_body") /\ Enough("g_claim", "g_member") /\ Enough("g_claim", "g_bump")
  BY DEF Enough, PoolSteps, InlineSteps, FillSteps, PaymentSteps, KeySteps, TrialSteps, ReadSteps,
         KeyedSteps, Labels
<1>3. /\ pc[h] = "g_claim" /\ receiptOf \in [Txs -> ReceiptIds \cup {None}] /\ item[h] \in Txs
      /\ rid \in [Handlers -> ReceiptIds \cup {None}]
  BY DEF FillClaim, Typed, AccountsTypeOK, ReceiptTypeOK, Knows, InlineSteps, FillSteps
<1>4. ASSUME ClaimReceipt(h, <<h, 1>>, "g_body", "g_member")
      PROVE  Local(h)
  <2>1. CASE UNCHANGED rid /\ Goto(h, "g_member")
    BY <1>1, <1>2, <1>3, <2>1, GotoKnows DEF Store
  <2>2. ASSUME NEW x \in ReceiptIds, rid' = [rid EXCEPT ![h] = x], Goto(h, "g_body")
        PROVE  Local(h)
    BY <1>1, <1>2, <1>3, <2>2, GotoKnows DEF Store
  <2> QED BY <1>3, <1>4, <2>1, <2>2 DEF ClaimReceipt, ReceiptIds
<1> QED BY <1>1, <1>2, <1>3, <1>4, GotoKnows DEF FillClaim, Store

LEMMA FillBodyTypes ==
  ASSUME Typed, NEW h \in Handlers, FillBody(h)
  PROVE  Store /\ Local(h)
<1>1. Store
  BY StoreKept DEF FillBody
<1>2. Enough("g_body", "g_bump") /\ Enough("g_body", "g_member")
  BY DEF Enough, PoolSteps, InlineSteps, FillSteps, PaymentSteps, KeySteps, TrialSteps, ReadSteps, KeyedSteps, Labels
<1>3. Local(h)
  BY <1>1, <1>2, GotoKnows, EndKnows DEF FillBody, Store
<1> QED BY <1>1, <1>3

LEMMA FillDequeueTypes ==
  ASSUME Typed, NEW h \in Handlers, FillDequeue(h)
  PROVE  Store /\ Local(h)
<1>1. Store
  BY StoreKept DEF FillDequeue
<1>2. Enough("g_member", "g_bump") /\ Enough("g_member", "g_unlock")
  BY DEF Enough, PoolSteps, InlineSteps, FillSteps, PaymentSteps, KeySteps, TrialSteps, ReadSteps, KeyedSteps, Labels
<1>3. Local(h)
  BY <1>1, <1>2, GotoKnows, EndKnows DEF FillDequeue, Store
<1> QED BY <1>1, <1>3

LEMMA FillGiveUpTypes ==
  ASSUME Typed, NEW h \in Handlers, FillGiveUp(h)
  PROVE  Store /\ Local(h)
<1>1. Store
  BY StoreKept DEF FillGiveUp
<1>2. Enough("g_gone", "g_unlock")
  BY DEF Enough, PoolSteps, InlineSteps, FillSteps, PaymentSteps, KeySteps, TrialSteps, ReadSteps, KeyedSteps, Labels
<1>3. Local(h)
  BY <1>1, <1>2, GotoKnows, EndKnows DEF FillGiveUp, Store
<1> QED BY <1>1, <1>3

LEMMA FillBumpTypes ==
  ASSUME Typed, NEW h \in Handlers, FillBump(h)
  PROVE  Store /\ Local(h)
<1>1. Store
  BY StoreKept DEF FillBump
<1>2. Enough("g_bump", "g_gone") /\ Enough("g_bump", "g_unlock")
  BY DEF Enough, PoolSteps, InlineSteps, FillSteps, PaymentSteps, KeySteps, TrialSteps, ReadSteps, KeyedSteps, Labels
<1>3. Local(h)
  BY <1>1, <1>2, GotoKnows, EndKnows DEF FillBump, Store
<1> QED BY <1>1, <1>3

LEMMA FillUnlockTypes ==
  ASSUME Typed, NEW h \in Handlers, FillUnlock(h)
  PROVE  Store /\ Local(h)
<1>1. Store
  BY StoreKept DEF FillUnlock
<1>3. Local(h)
  BY <1>1, GotoKnows, EndKnows DEF FillUnlock, Store
<1> QED BY <1>1, <1>3

-----------------------------------------------------------------------------

\* Only a relay gets to its receipt, and it has made no attempt before.
Fresh == {"idle", "r_webhook"} \cup PoolSteps

LEMMA AccountMoves ==
  ASSUME Typed, NEW h \in Handlers, AccountStep(h)
  PROVE  /\ pc'[h] \in Fresh \cup {"c_claim"} => pc[h] \in Fresh
         /\ pc'[h] \notin {"c_body"} \cup FillSteps
<1>1. pc \in [Handlers -> Labels]
  BY DEF Typed, AccountsTypeOK
<1> USE <1>1 DEF Fresh, PoolSteps, FillSteps, Goto, End, Begin
<1>2. CASE RelayStart(h) \/ RelayStep(h)
  BY <1>2 DEF RelayStart, RelayStep, RelayReadSub, RelayTake, RelaySettle, RelayRefund,
              RelayWebhook, RelayMirror
<1>3. CASE ActivateStart(h) \/ ActivateStep(h)
  BY <1>3 DEF ActivateStart, ActivateStep, ActivateIntent, ActivateCheckUsed, ActivateClaim,
              ActivateKey, ActivateGrant, ActivateCredit, ActivateUndo, ActivateSub,
              ActivateCommit, ActivateClean, ActivateFail
<1>4. CASE RotateStart(h) \/ RotateLock(h) \/ RotateMint(h) \/ RotateSub(h) \/ RotateOld(h)
             \/ RotateUnlock(h)
  BY <1>4 DEF RotateStart, RotateLock, RotateMint, RotateSub, RotateOld, RotateUnlock
<1>5. CASE ProvisionStart(h) \/ ProvisionWrite(h) \/ TopupStart(h) \/ TopupAdd(h) \/ TopupWrite(h)
  BY <1>5 DEF ProvisionStart, ProvisionWrite, TopupStart, TopupAdd, TopupWrite
<1>6. CASE TrialStart(h) \/ TrialStep(h)
  BY <1>6 DEF TrialStart, TrialStep, TrialRead, TrialClaim, TrialGrant, TrialCredit, TrialUndo,
              TrialKey, TrialSub, TrialMark, TrialEnd
<1>7. CASE Crash(h)
  BY <1>7 DEF Crash
<1> QED BY <1>2, <1>3, <1>4, <1>5, <1>6, <1>7 DEF AccountStep

LEMMA AccountTries ==
  ASSUME Typed, NEW h \in Handlers, AccountStep(h), Local(h), UNCHANGED tries
  PROVE  CountsTries'
<1>1. CountsTries /\ \A q \in Handlers \ {h} : pc'[q] = pc[q]
  BY DEF Typed, Local, Aside
<1> QED BY <1>1, AccountMoves DEF CountsTries, Fresh

\* Receipts stay well typed, and so do the attempts at them.
LEMMA ReceiptTypes ==
  ASSUME Typed, NEW h \in Handlers, ReceiptStep(h), Local(h)
  PROVE  ReceiptTypeOK' /\ CountsTries'
<1>1. /\ ReceiptTypeOK /\ CountsTries /\ Knows(h) /\ pc \in [Handlers -> Labels]
      /\ \A q \in Handlers \ {h} : pc'[q] = pc[q]
      /\ <<h, 1>> \in ReceiptIds /\ <<h, 2>> \in ReceiptIds
  BY DEF Typed, AccountsTypeOK, Local, Aside, ReceiptIds
<1>2. /\ pc[h] \in InlineSteps \cup FillSteps => item[h] \in Txs
      /\ pc[h] \in {"c_body", "g_body"} => rid[h] \in ReceiptIds
  BY <1>1 DEF Knows
<1> USE <1>1, <1>2, ReceiptAssumption DEF ReceiptTypeOK, CountsTries, PoolSteps, InlineSteps, FillSteps,
        Goto, End, fillVars
<1>3. CASE InlineClaim(h)
  BY <1>3 DEF InlineClaim, ClaimReceipt
<1>4. CASE InlineBody(h)
  BY <1>4 DEF InlineBody, WriteReceipt, WriteReceiptThrows, WriteBody
<1>5. CASE Enqueue(h)
  BY <1>5 DEF Enqueue, Forget
<1>6. CASE EnqueueRest(h)
  BY <1>6 DEF EnqueueRest
<1>7. CASE PageReceipt(h)
  BY <1>7 DEF PageReceipt
<1>8. CASE FillStart(h)
  BY <1>8 DEF FillStart, Begin, receiptVars
<1>9. CASE FillRead(h)
  BY <1>9 DEF FillRead
<1>10. CASE FillDropOrphan(h)
  BY <1>10 DEF FillDropOrphan
<1>11. CASE FillLock(h)
  BY <1>11 DEF FillLock
<1>12. CASE FillClaim(h)
  BY <1>12 DEF FillClaim, ClaimReceipt
<1>13. CASE FillBody(h)
  BY <1>13 DEF FillBody, WriteReceipt, WriteReceiptThrows, WriteBody
<1>14. CASE FillDequeue(h)
  BY <1>14 DEF FillDequeue, Dequeue, DequeueThrows
<1>15. CASE FillBump(h)
  BY <1>15 DEF FillBump
<1>16. CASE FillGiveUp(h)
  BY <1>16 DEF FillGiveUp, Dequeue, DequeueThrows
<1>17. CASE FillUnlock(h)
  BY <1>17 DEF FillUnlock, Forget
<1> QED BY <1>3, <1>4, <1>5, <1>6, <1>7, <1>8, <1>9, <1>10, <1>11, <1>12, <1>13, <1>14, <1>15, <1>16,
           <1>17 DEF ReceiptStep, InlineReceipt, FillStep

\* The pool a settlement is paid from is one of the two.
LEMMA SettledTypes ==
  ASSUME Typed, NEW h \in Handlers, AccountStep(h) \/ ReceiptStep(h)
  PROVE  txScope' \in [Txs -> Scopes \cup {None}]
<1>1. txScope \in [Txs -> Scopes \cup {None}]
  BY DEF Typed, AccountsTypeOK
<1>2. CASE RelaySettle(h)
  <2>1. item[h] \in Scopes
    BY <1>2 DEF RelaySettle, Typed, Knows, PoolSteps
  <2> QED BY <1>1, <1>2, <2>1 DEF RelaySettle
<1>3. CASE UNCHANGED txScope
  BY <1>1, <1>3
<1>4. RelaySettle(h) \/ UNCHANGED txScope
  BY DEF AccountStep, RelayStart, RelayStep, RelayReadSub, RelayTake, RelayRefund, RelayWebhook,
         RelayMirror, ActivateStart, ActivateStep, ActivateIntent, ActivateCheckUsed, ActivateClaim,
         ActivateKey, ActivateGrant, ActivateCredit, ActivateUndo, ActivateSub, ActivateCommit,
         ActivateClean, ActivateFail, RotateStart, RotateLock, RotateMint, RotateSub, RotateOld,
         RotateUnlock, ProvisionStart, ProvisionWrite, TopupStart, TopupAdd, TopupWrite, TrialStart,
         TrialStep, TrialRead, TrialClaim, TrialGrant, TrialCredit, TrialUndo, TrialKey, TrialSub,
         TrialMark, TrialEnd, Crash, ReceiptStep, InlineReceipt, InlineClaim, InlineBody, Enqueue,
         EnqueueRest, PageReceipt, FillStart, FillStep, FillRead, FillDropOrphan, FillLock, FillClaim,
         FillBody, FillDequeue, FillBump, FillGiveUp, FillUnlock
<1> QED BY <1>2, <1>3, <1>4

\* What the others know survives the step of one.
LEMMA OthersKnow ==
  ASSUME Typed, NEW h \in Handlers, Store, Local(h)
  PROVE  \A q \in Handlers : Knows(q)'
<1>1. Knows(h)'
  BY DEF Local
<1>2. ASSUME NEW q \in Handlers \ {h}
      PROVE  Knows(q)'
  <2>1. /\ pc'[q] = pc[q] /\ seen'[q] = seen[q] /\ key'[q] = key[q]
        /\ item'[q] = item[q] /\ rid'[q] = rid[q]
    BY DEF Local, Aside
  <2>2. /\ Knows(q) /\ seen[q] \in Sub \cup {None} /\ key[q] \in Keys \cup {None}
    BY DEF Typed, AccountsTypeOK
  <2>3. Recorded(seen[q])'
    BY <2>1, <2>2 DEF Knows, Recorded, Store, Grows, Sub
  <2>4. key'[q] # None => keyRec'[key'[q]] # None
    BY <2>1, <2>2 DEF Knows, Store, Grows
  <2>5. pc'[q] \in {"r_settle", "r_refund"} => quota'[item'[q]] # None
    BY <2>1, <2>2 DEF Knows, PoolSteps, Store, Grows
  <2> QED BY <2>1, <2>2, <2>3, <2>4, <2>5 DEF Knows, HasKey, TrialSignal, LegacyTrialKey
<1> QED BY <1>1, <1>2

LEMMA TypedInit == AccountsInit => Typed
<1> SUFFICES ASSUME AccountsInit PROVE Typed
  OBVIOUS
<1>1. (CHOOSE x \in Keys : TRUE) \in Keys
  BY AccountAssumption
<1> DEFINE first == CHOOSE x \in Keys : TRUE
<1>8. /\ legacy \in Nat /\ trialUsed \in BOOLEAN
      /\ \A s \in Scopes : quota[s] = None
      /\ quota \in [Scopes -> Nat \cup {None}]
  <2>1. legacy \in {0, 1}
    BY DEF AccountsInit, AccountInit, InitShape
  <2>2. quota = [s \in Scopes |-> None]
    BY Zenon DEF AccountsInit, AccountInit, InitShape
  <2>3. trialUsed \in BOOLEAN
    BY Zenon DEF AccountsInit, AccountInit, InitShape
  <2> QED BY <2>1, <2>2, <2>3
<1>2. sub \in Sub \cup {None} /\ keyRec \in [Keys -> KeyRecord \cup {None}] /\ Recorded(sub)
  <2>1. CASE sub = None /\ keyRec = NoKeys
    BY <2>1 DEF AccountsInit, AccountInit, InitShape, NoKeys, Recorded
  <2>2. ASSUME NEW p \in {"starter", "trial"}, NEW c \in BOOLEAN,
               sub = [plan |-> p, apiKey |-> first, trialKey |-> None, sandbox |-> TRUE,
                      cash |-> c, window |-> 1],
               keyRec = [NoKeys EXCEPT ![first] = [plan |-> p, active |-> TRUE]]
        PROVE  sub \in Sub /\ keyRec \in [Keys -> KeyRecord \cup {None}] /\ Recorded(sub)
    <3>1. sub \in Sub
      BY <1>1, <2>2 DEF Sub
    <3>2. [plan |-> p, active |-> TRUE] \in KeyRecord
      BY DEF KeyRecord
    <3>3. keyRec \in [Keys -> KeyRecord \cup {None}] /\ keyRec[first] # None
      BY <1>1, <2>2, <3>2, NoneIsNothing DEF NoKeys
    <3> QED BY <2>2, <3>1, <3>3 DEF Recorded
  <2> QED BY <2>1, <2>2 DEF AccountsInit, AccountInit, InitShape
<1>7. AccountTypeOK
  BY <1>2, <1>8 DEF AccountsInit, AccountInit, AccountTypeOK, Sources
<1>3. ReceiptTypeOK
  BY DEF AccountsInit, ReceiptInit, ReceiptTypeOK
<1>4. /\ pc \in [Handlers -> Labels] /\ seen \in [Handlers -> Sub \cup {None}]
      /\ key \in [Handlers -> Keys \cup {None}]
      /\ item \in [Handlers -> Payments \cup Scopes \cup Txs \cup {None}]
      /\ txScope \in [Txs -> Scopes \cup {None}]
  BY DEF AccountsInit, HandlerInit, Labels
<1>5. CountsTries
  BY DEF AccountsInit, HandlerInit, ReceiptInit, CountsTries
<1>6. \A h \in Handlers : Knows(h)
  BY DEF AccountsInit, HandlerInit, Knows, Recorded, PoolSteps, InlineSteps, FillSteps, PaymentSteps,
         KeySteps, TrialSteps, ReadSteps, KeyedSteps
<1> QED BY <1>2, <1>3, <1>4, <1>5, <1>6, <1>7 DEF Typed, AccountsTypeOK

\* What a step does to the account's records and to what the invocations hold.
LEMMA AccountLocal ==
  ASSUME Typed, NEW h \in Handlers, AccountStep(h), UNCHANGED receiptVars
  PROVE  Store /\ Local(h)
BY RelayStartTypes, RelayReadSubTypes, RelayTakeTypes, RelaySettleTypes, RelayRefundTypes,
       RelayWebhookTypes, RelayMirrorTypes, ActivateStartTypes, ActivateIntentTypes,
       ActivateCheckUsedTypes, ActivateClaimTypes, ActivateKeyTypes, ActivateGrantTypes,
       ActivateCreditTypes, ActivateUndoTypes, ActivateSubTypes, ActivateCommitTypes,
       ActivateCleanTypes, ActivateFailTypes, RotateStartTypes, RotateLockTypes,
       RotateMintTypes, RotateSubTypes, RotateOldTypes, RotateUnlockTypes,
       ProvisionStartTypes, ProvisionWriteTypes, TopupStartTypes, TopupAddTypes,
       TopupWriteTypes, TrialStartTypes, TrialReadTypes, TrialClaimTypes,
       TrialGrantTypes, TrialCreditTypes, TrialUndoTypes, TrialKeyTypes, TrialSubTypes,
       TrialMarkTypes, TrialEndTypes, CrashTypes
   DEF AccountStep, RelayStep, ActivateStep, TrialStep, receiptVars

LEMMA ReceiptLocal ==
  ASSUME Typed, NEW h \in Handlers, ReceiptStep(h)
  PROVE  Store /\ Local(h)
BY InlineClaimTypes, InlineBodyTypes, EnqueueTypes, EnqueueRestTypes, PageReceiptTypes,
       FillStartTypes, FillReadTypes, FillDropOrphanTypes, FillLockTypes,
       FillClaimTypes, FillBodyTypes, FillDequeueTypes, FillGiveUpTypes, FillBumpTypes,
       FillUnlockTypes
   DEF ReceiptStep, InlineReceipt, FillStep

LEMMA TypedStep ==
  ASSUME Typed, [AccountsNext]_accountsVars
  PROVE  Typed'
<1>1. ASSUME NEW h \in Handlers, AccountStep(h), UNCHANGED receiptVars
      PROVE  Typed'
  <2>1. Store /\ Local(h)
    BY <1>1, AccountLocal
  <2>2. CountsTries' /\ ReceiptTypeOK'
    BY <1>1, <2>1, AccountTries DEF receiptVars, fillVars, Typed, AccountsTypeOK, ReceiptTypeOK
  <2> QED BY <1>1, <2>1, <2>2, OthersKnow, SettledTypes
          DEF Typed, AccountsTypeOK, Store, Local, LocalTypes
<1>2. ASSUME NEW h \in Handlers, ReceiptStep(h)
      PROVE  Typed'
  <2>1. Store /\ Local(h)
    BY <1>2, ReceiptLocal
  <2> QED BY <1>2, <2>1, ReceiptTypes, OthersKnow, SettledTypes
          DEF Typed, AccountsTypeOK, Store, Local, LocalTypes
<1>3. CASE ExpireAccount /\ UNCHANGED <<handlerVars, receiptVars>>
  <2>1. AccountTypeOK'
    BY <1>3 DEF ExpireAccount, ExpireClaim, ExpireTrialClaim, ExpireRotation, Typed, AccountsTypeOK,
       AccountTypeOK, keyVars, poolVars, activationVars
  <2>2. UNCHANGED <<sub, keyRec, quota, pc, seen, key, item, txScope, receiptVars>>
    BY <1>3 DEF ExpireAccount, ExpireClaim, ExpireTrialClaim, ExpireRotation, handlerVars, localVars,
       keyVars, poolVars, activationVars
  <2> QED BY <2>1, <2>2 DEF Typed, AccountsTypeOK, ReceiptTypeOK, receiptVars, fillVars, Recorded,
          CountsTries, Knows, HasKey, TrialSignal, LegacyTrialKey
<1>4. CASE (\E t \in Txs : ExpireFill(t)) /\ UNCHANGED <<handlerVars, accountVars>>
  BY <1>4 DEF ExpireFill, Typed, AccountsTypeOK, AccountTypeOK, ReceiptTypeOK, Recorded, CountsTries,
     Knows, HasKey, TrialSignal, LegacyTrialKey, handlerVars, localVars, accountVars, keyVars,
     poolVars, activationVars
<1>5. CASE UNCHANGED accountsVars
  BY <1>5 DEF Typed, AccountsTypeOK, AccountTypeOK, ReceiptTypeOK, Recorded, CountsTries, Knows, HasKey,
     TrialSignal, LegacyTrialKey, accountsVars, handlerVars, localVars, accountVars, keyVars, poolVars,
     activationVars, receiptVars, fillVars
<1> QED BY <1>1, <1>2, <1>3, <1>4, <1>5 DEF AccountsNext

LEMMA AlwaysTyped == AccountsSpec => []Typed
<1>1. Typed /\ [AccountsNext]_accountsVars => Typed'
  BY TypedStep
<1> QED BY TypedInit, <1>1, PTL DEF AccountsSpec

\* Every record and every invocation stays well typed, whatever routes are run
\* at once and whatever fails.
THEOREM AccountsTypeCorrect == AccountsSpec => []AccountsTypeOK
<1>1. Typed => AccountsTypeOK
  BY DEF Typed
<1> QED BY AlwaysTyped, <1>1, PTL

=============================================================================
