--------------------------- MODULE WalletsProofs ---------------------------
(***************************************************************************)
(* Proofs about the wallets of one owner, for any sets of invocations,     *)
(* wallets and payments, any limits, and under every fault.                *)
(***************************************************************************)
EXTENDS Wallets, TLAPS

-----------------------------------------------------------------------------
(* What an invocation holds at each step *)

SendSteps == {"s_wallet", "s_guard", "s_claim", "s_charge", "s_lane", "s_relay",
              "s_fail", "s_mark", "s_refund", "s_free"}
WalletSteps == {"d_read", "d_write", "e_read", "e_write", "l_read", "l_write",
                "n_lock", "n_cap", "n_new", "n_list", "n_add", "n_unlock"} \cup GcLabels

\* Before its first call of the relay.
Unpaid == {"idle", "s_wallet", "s_guard", "s_claim", "s_charge", "s_lane", "s_relay",
           "t_pull", "t_rule", "t_charge", "t_marker", "t_claim", "t_fresh", "t_lane", "t_last"}

Knows(h) ==
  /\ pc[h] \in HoldsRule => seen[h] \in Rule
  /\ pc[h] = "l_write" => seen[h] \in {"active", "archived"}
  /\ pc[h] \in {"n_add", "g_drop"} => seen[h] \in SUBSET Wallets
  /\ pc[h] \in SendSteps => item[h] \in Intents
  /\ pc[h] \in WalletSteps => item[h] \in Wallets
  /\ pc[h] = "u_read" => item[h] \in {"pause", "resume", "skip", "cancel"}
  /\ pay[h].ok <= pay[h].won /\ pay[h].won <= pay[h].row
  /\ pc[h] \in Unpaid => pay[h].row = 0
  /\ pc[h] = "t_row" => pay[h].ok > 0 \/ pay[h].row = 0

LocalTypes == /\ pc \in [Handlers -> Labels] /\ at \in [Handlers -> Days] /\ pay \in [Handlers -> Payment]
              /\ seen = [q \in Handlers |-> seen[q]] /\ item = [q \in Handlers |-> item[q]]

Typed == WalletStoreTypeOK /\ LocalTypes /\ \A h \in Handlers : Knows(h)

\* A step of h leaves what the others hold alone.
Others(h) == \A q \in Handlers \ {h} :
  pc'[q] = pc[q] /\ seen'[q] = seen[q] /\ item'[q] = item[q] /\ pay'[q] = pay[q]

Local(h) == LocalTypes' /\ Others(h) /\ Knows(h)'

\* What an invocation knows at step l is all it needs at step m.
Enough(l, m) ==
  /\ m \in Labels \ {"l_write", "n_add", "g_drop", "u_read"}
  /\ m \in HoldsRule => l \in HoldsRule
  /\ m \in SendSteps => l \in SendSteps
  /\ m \in WalletSteps => l \in WalletSteps
  /\ m \in Unpaid => l \in Unpaid
  /\ m = "t_row" => l \in Unpaid

LEMMA NoneIsNothing ==
  /\ None \notin Handlers /\ None \notin Wallets /\ None \notin Intents /\ None \notin Nat
  /\ Rows \in Nat \ {0} /\ MaxClock \in Nat \ {0} /\ Limit \in Nat /\ Window \in {0, 1} /\ Main \in Wallets
  /\ Keyed \subseteq Intents /\ 0 \in Days /\ Days \subseteq Nat /\ Slots \subseteq Nat \ {0}
BY WalletAssumption DEF Days, Slots

LEMMA GotoLocal ==
  ASSUME Typed, NEW h \in Handlers, NEW l, Goto(h, l), Enough(pc[h], l)
  PROVE  Local(h) /\ pc'[h] = l
<1>1. pc' = [pc EXCEPT ![h] = l] /\ UNCHANGED <<seen, item, at, pay>> /\ l \in Labels
  BY DEF Goto, Enough
<1>2. LocalTypes' /\ Others(h) /\ pc'[h] = l
  BY <1>1 DEF Typed, LocalTypes, Others
<1>3. Knows(h)'
  BY <1>1, <1>2 DEF Typed, Knows, Enough
<1> QED BY <1>2, <1>3 DEF Local

LEMMA TakeLocal ==
  ASSUME Typed, NEW h \in Handlers, NEW l \in Labels, NEW x, Take(h, l, x),
         l \in HoldsRule => x \in Rule,
         l = "l_write" => x \in {"active", "archived"},
         l \in {"n_add", "g_drop"} => x \in SUBSET Wallets,
         l \in WalletSteps => pc[h] \in WalletSteps,
         l \in Unpaid => pc[h] \in Unpaid,
         l \notin SendSteps \cup {"t_row", "u_read"}
  PROVE  Local(h) /\ pc'[h] = l
<1>1. pc' = [pc EXCEPT ![h] = l] /\ seen' = [seen EXCEPT ![h] = x] /\ UNCHANGED <<item, at, pay>>
  BY DEF Take
<1>2. LocalTypes' /\ Others(h) /\ pc'[h] = l /\ seen'[h] = x
  BY <1>1 DEF Typed, LocalTypes, Others
<1>3. Knows(h)'
  BY <1>1, <1>2 DEF Typed, Knows
<1> QED BY <1>2, <1>3 DEF Local

LEMMA EndLocal ==
  ASSUME Typed, NEW h \in Handlers, End(h)
  PROVE  Local(h) /\ pc'[h] = "done"
<1>1. NoPayment \in Payment /\ 0 \in Days /\ "done" \in Labels
  BY NoneIsNothing DEF NoPayment, Payment, Labels
<1>2. LocalTypes' /\ Others(h) /\ pc'[h] = "done" /\ pay'[h] = NoPayment
  BY <1>1 DEF End, Typed, LocalTypes, Others
<1>3. Knows(h)'
  BY <1>2 DEF Knows, NoPayment, HoldsRule, SendSteps, WalletSteps, GcLabels, Unpaid
<1> QED BY <1>2, <1>3 DEF Local

LEMMA BeginLocal ==
  ASSUME Typed, NEW h \in Handlers, NEW job, NEW l \in Labels, NEW x, Begin(h, job, l, x),
         l \in SendSteps => x \in Intents,
         l \in WalletSteps => x \in Wallets,
         l = "u_read" => x \in {"pause", "resume", "skip", "cancel"},
         l \notin HoldsRule \cup {"l_write", "n_add", "g_drop", "t_row"}
  PROVE  Local(h) /\ pc'[h] = l /\ pc[h] = "idle"
<1>1. /\ pc[h] = "idle" /\ pc' = [pc EXCEPT ![h] = l] /\ item' = [item EXCEPT ![h] = x]
      /\ at' = [at EXCEPT ![h] = clock] /\ UNCHANGED <<seen, pay>> /\ clock \in Days
  BY DEF Begin, Typed, WalletStoreTypeOK
<1>2. LocalTypes' /\ Others(h) /\ pc'[h] = l /\ item'[h] = x
  BY <1>1 DEF Typed, LocalTypes, Others
<1>3. pay[h].row = 0 /\ Knows(h)
  BY <1>1 DEF Typed, Knows, Unpaid
<1>4. Knows(h)'
  BY <1>1, <1>2, <1>3 DEF Knows
<1> QED BY <1>1, <1>2, <1>4 DEF Local

LEMMA StoreKept == Typed /\ UNCHANGED storeVars => WalletStoreTypeOK'
BY DEF Typed, WalletStoreTypeOK, storeVars, walletVars, budgetVars, sendVars, ruleVars

\* The records that a step writes, when the others are UNCHANGED.
BudgetTypes == spent' \in [Days -> Int] /\ slack' \in [Days -> Nat]

LEMMA Budget ==
  ASSUME Typed, NEW n \in Nat,
         \/ Charge(n) \/ RejectCharge(n)
         \/ \E day, unpaid \in Int : n - unpaid \in Nat /\ Refund(n, day, unpaid)
         \/ UNCHANGED budgetVars
  PROVE  BudgetTypes
<1>1. spent \in [Days -> Int] /\ slack \in [Days -> Nat] /\ clock \in Days
  BY DEF Typed, WalletStoreTypeOK
<1> QED BY <1>1 DEF BudgetTypes, Charge, RejectCharge, Refund, budgetVars

LEMMA PayTypes ==
  ASSUME Typed, NEW h \in Handlers
  PROVE  /\ pay[h].day \in Days /\ pay[h].row \in 0..Rows /\ pay[h].ok \in 0..Rows /\ pay[h].won \in 0..Rows
         /\ pay[h].ok <= pay[h].won /\ pay[h].won <= pay[h].row /\ pay[h] \in Payment
BY DEF Typed, LocalTypes, Knows, Payment

\* One more call of the relay.
LEMMA TallyLocal ==
  ASSUME Typed, NEW h \in Handlers, NEW a \in Answers, Tally(h, a), pay[h].row < Rows,
         NEW l \in Labels \ (Unpaid \cup {"l_write", "n_add", "g_drop", "u_read"}),
         pc' = [pc EXCEPT ![h] = l], UNCHANGED <<seen, item, at>>,
         l \in HoldsRule => pc[h] \in HoldsRule, l \in SendSteps => pc[h] \in SendSteps,
         l \notin WalletSteps,
         l = "t_row" => pay[h].ok > 0 \/ a.says = "yes"
  PROVE  /\ Local(h) /\ pc'[h] = l
         /\ pay'[h].row = pay[h].row + 1 /\ pay'[h].day = pay[h].day
         /\ pay'[h].won = pay[h].won + Count(a.settles)
         /\ pay'[h].ok = pay[h].ok + Count(a.says = "yes")
<1> DEFINE w == Count(a.settles)
           y == Count(a.says = "yes")
<1>1. w \in {0, 1} /\ y \in {0, 1} /\ y <= w /\ (a.says = "yes" => y = 1)
  BY DEF Answers, Count
<1>2. /\ pay' = [pay EXCEPT ![h] = pay'[h]]
      /\ pay'[h] = [day |-> pay[h].day, row |-> pay[h].row + 1, ok |-> pay[h].ok + y, won |-> pay[h].won + w]
  BY PayTypes DEF Tally, Typed, LocalTypes, Payment
<1> HIDE DEF w, y
<1>3. /\ pay[h].row \in 0..Rows /\ pay[h].ok \in 0..Rows /\ pay[h].won \in 0..Rows /\ pay[h].day \in Days
      /\ pay[h].ok <= pay[h].won /\ pay[h].won <= pay[h].row /\ Rows \in Nat
  BY PayTypes, NoneIsNothing
<1>4. /\ pay[h].row + 1 \in 0..Rows /\ pay[h].ok + y \in 0..Rows /\ pay[h].won + w \in 0..Rows
      /\ pay[h].ok + y <= pay[h].won + w /\ pay[h].won + w <= pay[h].row + 1
      /\ pay[h].ok > 0 \/ y = 1 => pay[h].ok + y > 0
  BY <1>1, <1>3
<1>5. pay'[h] \in Payment
  BY <1>2, <1>3, <1>4 DEF Payment
<1>6. LocalTypes' /\ Others(h) /\ pc'[h] = l
  BY <1>2, <1>5 DEF Typed, LocalTypes, Others
<1>7. Knows(h)'
  <2>1. Knows(h) /\ UNCHANGED <<seen, item>>
    BY DEF Typed
  <2>2. l = "t_row" => pay'[h].ok > 0
    BY <1>1, <1>2, <1>4
  <2> QED BY <1>2, <1>4, <1>6, <2>1, <2>2 DEF Knows, Rule
<1> QED BY <1>2, <1>6, <1>7 DEF Local, w, y

LEMMA SettleTypes ==
  ASSUME Typed, NEW h \in Handlers, Settle(h) \/ UNCHANGED onDay
  PROVE  onDay' \in [Days -> Nat]
BY PayTypes DEF Settle, Typed, WalletStoreTypeOK

LEMMA SendTyped ==
  ASSUME Typed, NEW h \in Handlers, SendStart(h) \/ SendStep(h) \/ Unlane(h, "t_unlane") \/ Crash(h)
  PROVE  Local(h) /\ WalletStoreTypeOK'
<1> USE NoneIsNothing
<1>1. CASE SendStart(h)
  <2>1. Local(h)
    BY <1>1, BeginLocal DEF SendStart, Labels, HoldsRule, SendSteps, WalletSteps, GcLabels
  <2> QED BY <1>1, <2>1, StoreKept DEF SendStart
<1>2. pc[h] \in SendSteps => item[h] \in Intents
  BY DEF Typed, Knows
<1>3. /\ Enough("s_wallet", "s_guard") /\ Enough("s_wallet", "s_claim") /\ Enough("s_guard", "s_claim")
      /\ Enough("s_claim", "s_charge") /\ Enough("s_charge", "s_free") /\ Enough("s_lane", "s_relay")
      /\ Enough("s_lane", "s_refund") /\ Enough("s_relay", "s_refund") /\ Enough("s_fail", "s_unlane")
      /\ Enough("s_mark", "s_unlane") /\ Enough("s_refund", "s_free") /\ Enough("s_free", "s_unlane")
  BY DEF Enough, Labels, HoldsRule, SendSteps, WalletSteps, GcLabels, Unpaid
<1>4. CASE SendWallet(h) \/ SendGuard(h) \/ SendGate(h)
  <2>1. Local(h)
    BY <1>3, <1>4, GotoLocal, EndLocal DEF SendWallet, SendGuard, SendGate
  <2> QED BY <1>4, <2>1, StoreKept DEF SendWallet, SendGuard, SendGate
<1>5. CASE SendClaim(h)
  <2>1. Local(h)
    BY <1>3, <1>5, GotoLocal, EndLocal DEF SendClaim
  <2>2. claim \in [Intents -> Handlers \cup {None}]
    BY DEF Typed, WalletStoreTypeOK
  <2>3. claim' \in [Intents -> Handlers \cup {None}]
    BY <1>5, <2>2 DEF SendClaim
  <2> QED BY <1>5, <2>1, <2>3 DEF SendClaim, Typed, WalletStoreTypeOK, walletVars, budgetVars, ruleVars
<1>6. CASE SendCharge(h)
  <2>1. CASE Goto(h, "s_free") /\ RejectCharge(1)
    <3>1. Local(h) /\ BudgetTypes
      BY <1>3, <1>6, <2>1, GotoLocal, Budget DEF SendCharge
    <3> QED BY <1>6, <3>1 DEF SendCharge, Typed, WalletStoreTypeOK, walletVars, sendVars, ruleVars, BudgetTypes
  <2>2. CASE /\ Charge(1) /\ pc' = [pc EXCEPT ![h] = "s_lane"]
             /\ pay' = [pay EXCEPT ![h].day = clock] /\ UNCHANGED <<seen, item, at>>
    <3>1. pay' = [pay EXCEPT ![h] = pay'[h]] /\ pay'[h] = [pay[h] EXCEPT !.day = clock] /\ clock \in Days
      BY <2>2 DEF Typed, LocalTypes, WalletStoreTypeOK
    <3>2. pay'[h] \in Payment /\ pay'[h].row = pay[h].row /\ pay'[h].won = pay[h].won /\ pay'[h].ok = pay[h].ok
      BY <3>1, PayTypes DEF Payment
    <3>3. LocalTypes' /\ Others(h) /\ pc'[h] = "s_lane"
      BY <2>2, <3>1, <3>2 DEF Typed, LocalTypes, Others, Labels
    <3>4. Knows(h)'
      BY <1>6, <2>2, <3>2, <3>3 DEF SendCharge, Typed, Knows, HoldsRule, SendSteps, WalletSteps, GcLabels, Unpaid
    <3>5. BudgetTypes
      BY <2>2, Budget
    <3> QED BY <1>6, <3>3, <3>4, <3>5 DEF SendCharge, Local, Typed, WalletStoreTypeOK, walletVars, sendVars, ruleVars,
       BudgetTypes
  <2> QED BY <1>6, <2>1, <2>2 DEF SendCharge
<1>7. CASE SendLane(h)
  <2>1. Local(h)
    BY <1>3, <1>7, GotoLocal, EndLocal DEF SendLane
  <2> QED BY <1>7, <2>1 DEF SendLane, TakeLane, Typed, WalletStoreTypeOK, walletVars, budgetVars, sendVars, ruleVars
<1>8. CASE SendRelay(h)
  <2>1. PICK a \in Answers :
          /\ Tally(h, a)
          /\ pc' = [pc EXCEPT ![h] = IF a.says = "yes" THEN "s_mark" ELSE "s_fail"]
          /\ IF a.settles THEN sent' = [sent EXCEPT ![item[h]] = @ + 1] /\ Settle(h) ELSE UNCHANGED <<sent, onDay>>
          /\ IF a.settles /\ a.says # "yes" THEN Lapse(item[h]) ELSE UNCHANGED lapsed
    BY <1>8 DEF SendRelay
  <2>2. pc[h] = "s_relay" /\ pay[h].row = 0 /\ item[h] \in Intents
    BY <1>2, <1>8 DEF SendRelay, SendSteps, Typed, Knows, Unpaid
  <2>3. Local(h)
    <3>1. /\ {"s_mark", "s_fail"} \subseteq Labels \ (Unpaid \cup {"l_write", "n_add", "g_drop", "u_read"})
          /\ {"s_mark", "s_fail", "s_relay"} \subseteq SendSteps
          /\ {"s_mark", "s_fail"} \cap (HoldsRule \cup WalletSteps \cup {"t_row"}) = {}
      BY DEF Labels, HoldsRule, SendSteps, WalletSteps, GcLabels, Unpaid
    <3>2. pay[h].row < Rows /\ UNCHANGED <<seen, item, at>>
      BY <1>8, <2>2 DEF SendRelay
    <3>3. PICK l \in {"s_mark", "s_fail"} : pc' = [pc EXCEPT ![h] = l]
      BY <2>1
    <3>4. /\ l \in Labels \ (Unpaid \cup {"l_write", "n_add", "g_drop", "u_read"})
          /\ l \notin HoldsRule /\ l \notin WalletSteps /\ l # "t_row" /\ pc[h] \in SendSteps
      BY <2>2, <3>1
    <3> QED BY <2>1, <3>2, <3>3, <3>4, TallyLocal
  <2>4. onDay' \in [Days -> Nat]
    BY <2>1, SettleTypes
  <2>5. sent' \in [Intents -> Nat]
    BY <2>1, <2>2 DEF Typed, WalletStoreTypeOK
  <2>6. lapsed' \in SUBSET (Slots \cup Intents)
    <3>1. lapsed' \in {lapsed, lapsed \cup {item[h]}} /\ lapsed \in SUBSET (Slots \cup Intents)
      BY <2>1 DEF Typed, WalletStoreTypeOK, Lapse
    <3> QED BY <2>2, <3>1
  <2> QED BY <1>8, <2>3, <2>4, <2>5, <2>6 DEF SendRelay, Typed, WalletStoreTypeOK, walletVars, budgetVars, ruleVars
<1>9. CASE SendFail(h)
  <2>1. 1 - (1 - pay[h].won) \in Nat /\ 1 - pay[h].won \in Int
    BY PayTypes
  <2>2. pay[h].day \in Int /\ 1 \in Nat
    BY PayTypes DEF Days
  <2>3. Local(h) /\ BudgetTypes
    BY <1>3, <1>9, <2>1, <2>2, GotoLocal, Budget DEF SendFail
  <2> QED BY <1>9, <2>3 DEF SendFail, Typed, WalletStoreTypeOK, walletVars, sendVars, ruleVars, BudgetTypes
<1>10. CASE SendMark(h)
  <2>1. Local(h)
    BY <1>3, <1>10, GotoLocal DEF SendMark
  <2> QED BY <1>2, <1>10, <2>1 DEF SendMark, Lapse, SendSteps, Typed, WalletStoreTypeOK, walletVars, budgetVars, ruleVars
<1>11. CASE SendRefund(h)
  <2>1. pay[h].day \in Int /\ 1 - 1 \in Nat /\ 1 \in Nat
    BY PayTypes DEF Days
  <2>2. Local(h) /\ BudgetTypes
    BY <1>3, <1>11, <2>1, GotoLocal, Budget DEF SendRefund
  <2> QED BY <1>11, <2>2 DEF SendRefund, Typed, WalletStoreTypeOK, walletVars, sendVars, ruleVars, BudgetTypes
<1>12. CASE SendFree(h)
  <2>1. Local(h)
    BY <1>3, <1>12, GotoLocal DEF SendFree
  <2> QED BY <1>12, <2>1 DEF SendFree, Typed, WalletStoreTypeOK, walletVars, budgetVars, ruleVars
<1>13. CASE Unlane(h, "s_unlane") \/ Unlane(h, "t_unlane")
  <2>1. Local(h)
    BY <1>13, EndLocal DEF Unlane
  <2> QED BY <1>13, <2>1 DEF Unlane, ReleaseLane, Typed, WalletStoreTypeOK, walletVars, budgetVars, sendVars, ruleVars
<1>14. CASE Crash(h)
  <2>1. Local(h)
    BY <1>14, EndLocal DEF Crash
  <2>2. pc[h] \in {"t_row", "t_fired", "t_mark", "t_doubt"} => seen[h].next \in Slots
    BY DEF Typed, Knows, HoldsRule, Rule
  <2>3. lapsed' \in SUBSET (Slots \cup Intents)
    BY <1>2, <1>14, <2>2 DEF Crash, Lapse, SendSteps, Typed, WalletStoreTypeOK
  <2> QED BY <1>14, <2>1, <2>3 DEF Crash, Typed, WalletStoreTypeOK, walletVars, budgetVars, sendVars, ruleVars
<1> QED BY <1>1, <1>4, <1>5, <1>6, <1>7, <1>8, <1>9, <1>10, <1>11, <1>12, <1>13, <1>14 DEF SendStep

LEMMA PutTyped ==
  ASSUME Typed, NEW h \in Handlers, NEW l \in HoldsRule, NEW m, PutRule(h, l, m), Enough(l, m)
  PROVE  Local(h) /\ WalletStoreTypeOK'
<1>1. Local(h)
  BY GotoLocal, EndLocal DEF PutRule
<1>2. rule' \in Rule \cup {None}
  BY DEF PutRule, Typed, WalletStoreTypeOK, Knows
<1> QED BY <1>1, <1>2 DEF PutRule, Typed, WalletStoreTypeOK, walletVars, budgetVars, sendVars

LEMMA QueueTyped ==
  ASSUME Typed, NEW h, NEW score \in Nat \cup {None}, Queue(h, score)
  PROVE  WalletStoreTypeOK'
BY DEF Queue, Typed, WalletStoreTypeOK, walletVars, budgetVars, sendVars

LEMMA RuleTypes ==
  /\ "active" \in Statuses /\ "paused" \in Statuses /\ "paused-by-archive" \in Statuses
  /\ "cancelled" \in Statuses /\ "fired-cap-exceeded" \in Statuses
  /\ \A r \in Rule, p \in BOOLEAN, t \in Statuses, n \in Slots :
       /\ [r EXCEPT !.pending = p] \in Rule /\ [r EXCEPT !.pending = p, !.next = n] \in Rule
       /\ [r EXCEPT !.status = t, !.pending = p] \in Rule /\ [r EXCEPT !.pending = p, !.status = t] \in Rule
       /\ [r EXCEPT !.status = t, !.pending = p, !.next = n] \in Rule
       /\ [r EXCEPT !.next = n, !.pending = p] \in Rule
  /\ \A r \in Rule : NextAction(r) \in Nat /\ r.next \in Slots
<1>1. \A r \in Rule : r.next \in Slots /\ r.next \in Nat \ {0}
  BY NoneIsNothing DEF Rule
<1>2. \A r \in Rule : NextAction(r) \in Nat
  BY <1>1, NoneIsNothing DEF NextAction
<1>3. \A r \in Rule, p \in BOOLEAN, t \in Statuses, n \in Slots :
        /\ [r EXCEPT !.pending = p] \in Rule /\ [r EXCEPT !.pending = p, !.next = n] \in Rule
        /\ [r EXCEPT !.status = t, !.pending = p] \in Rule /\ [r EXCEPT !.pending = p, !.status = t] \in Rule
        /\ [r EXCEPT !.status = t, !.pending = p, !.next = n] \in Rule
        /\ [r EXCEPT !.next = n, !.pending = p] \in Rule
  BY DEF Rule
<1>4. /\ "active" \in Statuses /\ "paused" \in Statuses /\ "paused-by-archive" \in Statuses
      /\ "cancelled" \in Statuses /\ "fired-cap-exceeded" \in Statuses
  BY DEF Statuses
<1> QED BY <1>1, <1>2, <1>3, <1>4

LEMMA Clock == Typed => clock \in Days /\ clock + Window + 1 \in Slots
BY NoneIsNothing DEF Typed, WalletStoreTypeOK, Days, Slots

\* The requests that change the rule.
LEMMA UserTyped ==
  ASSUME Typed, NEW h \in Handlers, UserStart(h) \/ UserStep(h)
  PROVE  Local(h) /\ WalletStoreTypeOK'
<1>1. CASE UserStart(h)
  <2>1. Local(h)
    <3>1. "u_read" \in Labels \ (HoldsRule \cup SendSteps \cup WalletSteps)
      BY DEF Labels, HoldsRule, SendSteps, WalletSteps, GcLabels
    <3> QED BY <1>1, <3>1, BeginLocal DEF UserStart
  <2> QED BY <1>1, <2>1, StoreKept DEF UserStart
<1>2. CASE UserRead(h)
  <2>1. ASSUME Allowed(item[h]) PROVE AfterAction(rule, item[h]) \in Rule
    <3>1. rule \in Rule /\ item[h] \in {"pause", "resume", "skip", "cancel"}
      BY <1>2, <2>1 DEF Allowed, UserRead, Typed, WalletStoreTypeOK, Knows
    <3>2. item[h] = "skip" => rule.next + 1 \in Slots
      BY <2>1 DEF Allowed
    <3>3. CASE item[h] = "pause" \/ item[h] = "cancel"
      BY <3>1, <3>3, RuleTypes DEF AfterAction
    <3>4. CASE item[h] = "skip"
      <4>1. AfterAction(rule, item[h]) = [rule EXCEPT !.next = rule.next + 1, !.pending = FALSE]
        BY <3>1, <3>4 DEF AfterAction
      <4> QED BY <3>1, <3>2, <3>4, <4>1, RuleTypes
    <3>5. CASE item[h] = "resume"
      <4>1. AfterAction(rule, item[h]) =
              [rule EXCEPT !.status = "active", !.pending = FALSE,
                           !.next = IF rule.next < clock + Window THEN FirstFire ELSE rule.next]
        BY <3>1, <3>5 DEF AfterAction
      <4>2. (IF rule.next < clock + Window THEN FirstFire ELSE rule.next) \in Slots
        BY <3>1, Clock, RuleTypes DEF FirstFire
      <4> DEFINE n == IF rule.next < clock + Window THEN FirstFire ELSE rule.next
      <4>3. [rule EXCEPT !.status = "active", !.pending = FALSE, !.next = n] \in Rule
        <5> HIDE DEF n
        <5> QED BY <3>1, <4>2, RuleTypes DEF n
      <4> QED BY <4>1, <4>3
    <3> QED BY <3>1, <3>3, <3>4, <3>5
  <2>2. Local(h)
    <3>1. /\ {"u_lease", "u_put"} \subseteq Labels \ (SendSteps \cup WalletSteps \cup Unpaid)
          /\ {"u_lease", "u_put"} \cap {"l_write", "n_add", "g_drop", "t_row", "u_read"} = {}
      BY DEF Labels, SendSteps, WalletSteps, GcLabels, Unpaid
    <3>2. CASE Take(h, "u_lease", AfterAction(rule, item[h])) /\ Allowed(item[h])
      BY <2>1, <3>1, <3>2, TakeLocal
    <3>3. CASE Take(h, "u_put", AfterAction(rule, item[h])) /\ Allowed(item[h])
      BY <2>1, <3>1, <3>3, TakeLocal
    <3>4. CASE End(h)
      BY <3>4, EndLocal
    <3> QED BY <1>2, <3>2, <3>3, <3>4 DEF UserRead, WriteBack
  <2> QED BY <1>2, <2>2, StoreKept DEF UserRead
<1>3. CASE UserLease(h)
  <2>1. Local(h)
    BY <1>3, GotoLocal DEF UserLease, Enough, Labels, HoldsRule, SendSteps, WalletSteps, GcLabels, Unpaid
  <2>2. fireLock' \in [Slots -> Handlers \cup {None}]
    BY <1>3 DEF UserLease, Typed, WalletStoreTypeOK
  <2> QED BY <1>3, <2>1, <2>2 DEF UserLease, Typed, WalletStoreTypeOK, walletVars, budgetVars, sendVars
<1>4. CASE PutRule(h, "u_put", "u_queue")
  BY <1>4, PutTyped DEF Enough, Labels, HoldsRule, SendSteps, WalletSteps, GcLabels, Unpaid
<1>5. CASE UserQueue(h)
  <2>1. seen[h] \in Rule
    BY <1>5 DEF UserQueue, Typed, Knows, HoldsRule
  <2>2. NextAction(seen[h]) \in Nat /\ Local(h)
    BY <1>5, <2>1, RuleTypes, EndLocal DEF UserQueue
  <2> QED BY <1>5, <2>2, QueueTyped DEF UserQueue
<1> QED BY <1>1, <1>2, <1>3, <1>4, <1>5 DEF UserStep

LEMMA TickTyped ==
  ASSUME Typed, NEW h \in Handlers, TickStart(h) \/ TickStep(h)
  PROVE  Local(h) /\ WalletStoreTypeOK'
<1> USE NoneIsNothing
<1>1. at[h] \in Nat /\ (pc[h] \in HoldsRule => seen[h] \in Rule /\ seen[h].next \in Slots)
  BY RuleTypes DEF Typed, LocalTypes, Knows
<1>2. rule \in Rule \cup {None}
  BY DEF Typed, WalletStoreTypeOK
<1>3. /\ Enough("t_pull", "t_rem") /\ Enough("t_rule", "t_rem") /\ Enough("t_rule", "t_charge")
      /\ Enough("t_charge", "t_retry") /\ Enough("t_marker", "t_again") /\ Enough("t_marker", "t_claim")
      /\ Enough("t_marker", "t_lapsed") /\ Enough("t_claim", "t_fresh") /\ Enough("t_claim", "t_back")
      /\ Enough("t_fresh", "t_lane") /\ Enough("t_fresh", "t_free") /\ Enough("t_lane", "t_last")
      /\ Enough("t_lane", "t_undo") /\ Enough("t_last", "t_row") /\ Enough("t_last", "t_free")
      /\ Enough("t_free", "t_back") /\ Enough("t_undo", "t_unpay") /\ Enough("t_unpay", "t_retry")
      /\ Enough("t_fired", "t_mark") /\ Enough("t_mark", "t_read") /\ Enough("t_doubt", "t_retry")
      /\ Enough("t_read", "t_unlane") /\ Enough("t_put", "t_add") /\ Enough("t_retry", "t_soon")
      /\ Enough("t_stop", "t_rem") /\ Enough("t_keep", "t_unlane") /\ Enough("t_add", "t_unlane")
      /\ Enough("t_soon", "t_unlane")
  BY DEF Enough, Labels, HoldsRule, SendSteps, WalletSteps, GcLabels, Unpaid
<1>4. /\ {"t_rule", "t_put", "t_stop", "t_keep"} \subseteq Labels \ (SendSteps \cup WalletSteps)
      /\ {"t_put", "t_stop", "t_keep", "t_rule"} \cap {"l_write", "n_add", "g_drop", "t_row", "u_read"} = {}
      /\ {"t_put", "t_stop", "t_keep", "t_rule"} \cap Unpaid = {"t_rule"} /\ "t_pull" \in Unpaid
  BY DEF Labels, SendSteps, WalletSteps, GcLabels, Unpaid
<1>5. ASSUME NEW l \in {"t_put", "t_stop", "t_keep"}, NEW x \in Rule, Take(h, l, x) PROVE Local(h)
  BY <1>4, <1>5, TakeLocal
<1>6. ASSUME End(h) PROVE Local(h)
  BY <1>6, EndLocal
<1>7. ASSUME NEW l, NEW m, pc[h] = l, Goto(h, m), Enough(l, m) PROVE Local(h)
  BY <1>7, GotoLocal
<1>8. CASE TickStart(h)
  <2>1. Local(h)
    <3>1. PICK l \in {"t_rem", "t_pull"} : Begin(h, "tick", l, None)
      BY <1>8 DEF TickStart
    <3>2. l \in Labels \ (HoldsRule \cup SendSteps \cup WalletSteps)
      BY DEF Labels, HoldsRule, SendSteps, WalletSteps, GcLabels
    <3> QED BY <3>1, <3>2, BeginLocal
  <2> QED BY <1>8, <2>1, StoreKept DEF TickStart
<1>9. CASE TickPull(h)
  <2>1. Local(h)
    BY <1>2, <1>3, <1>4, <1>6, <1>7, <1>9, TakeLocal DEF TickPull
  <2> QED BY <1>9, <2>1, StoreKept DEF TickPull
<1>10. CASE TickRule(h)
  <2>1. pc[h] = "t_rule" /\ seen[h] \in Rule
    BY <1>1, <1>10 DEF TickRule, HoldsRule
  <2>2. ASSUME at[h] + 1 \in Slots,
               Take(h, "t_put", [seen[h] EXCEPT !.pending = FALSE, !.next = at[h] + 1])
        PROVE  Local(h)
    <3>1. [seen[h] EXCEPT !.pending = FALSE, !.next = at[h] + 1] \in Rule
      BY <2>1, <2>2, RuleTypes
    <3> QED BY <1>5, <2>2, <3>1
  <2>3. ASSUME Take(h, "t_put", [seen[h] EXCEPT !.pending = TRUE]) PROVE Local(h)
    <3>1. [seen[h] EXCEPT !.pending = TRUE] \in Rule
      BY <2>1, RuleTypes
    <3> QED BY <1>5, <2>3, <3>1
  <2>4. ASSUME Take(h, "t_stop", [seen[h] EXCEPT !.pending = FALSE, !.status = "fired-cap-exceeded"])
        PROVE  Local(h)
    <3>1. [seen[h] EXCEPT !.pending = FALSE, !.status = "fired-cap-exceeded"] \in Rule
      BY <2>1, RuleTypes
    <3> QED BY <1>5, <2>4, <3>1
  <2>5. ASSUME Goto(h, "t_charge") \/ Goto(h, "t_rem") PROVE Local(h)
    <3>1. ASSUME NEW l \in {"t_charge", "t_rem"}, Goto(h, l) PROVE Local(h)
      BY <1>3, <2>1, <3>1, GotoLocal
    <3> QED BY <2>5, <3>1
  <2>6. Local(h)
    BY <1>6, <1>10, <2>2, <2>3, <2>4, <2>5 DEF TickRule
  <2> QED BY <1>10, <2>6, StoreKept DEF TickRule
<1>11. CASE TickCharge(h)
  <2>1. CASE Goto(h, "t_retry") /\ RejectCharge(Rows)
    <3>1. Local(h) /\ BudgetTypes
      BY <1>3, <1>7, <1>11, <2>1, Budget DEF TickCharge
    <3> QED BY <1>11, <3>1 DEF TickCharge, Typed, WalletStoreTypeOK, walletVars, sendVars, ruleVars, BudgetTypes
  <2>2. CASE /\ Charge(Rows) /\ pc' = [pc EXCEPT ![h] = "t_marker"]
             /\ pay' = [pay EXCEPT ![h].day = clock] /\ UNCHANGED <<seen, item, at>>
    <3>1. pay' = [pay EXCEPT ![h] = pay'[h]] /\ pay'[h] = [pay[h] EXCEPT !.day = clock] /\ clock \in Days
      BY <2>2 DEF Typed, LocalTypes, WalletStoreTypeOK
    <3>2. pay'[h] \in Payment /\ pay'[h].row = pay[h].row /\ pay'[h].won = pay[h].won /\ pay'[h].ok = pay[h].ok
      BY <3>1, PayTypes DEF Payment
    <3>3. LocalTypes' /\ Others(h) /\ pc'[h] = "t_marker"
      BY <2>2, <3>1, <3>2 DEF Typed, LocalTypes, Others, Labels
    <3>4. Knows(h)'
      BY <1>11, <2>2, <3>2, <3>3 DEF TickCharge, Typed, Knows, HoldsRule, SendSteps, WalletSteps, GcLabels, Unpaid, Rule
    <3>5. BudgetTypes
      BY <2>2, Budget
    <3> QED BY <1>11, <3>3, <3>4, <3>5 DEF TickCharge, Local, Typed, WalletStoreTypeOK, walletVars, sendVars, ruleVars,
       BudgetTypes
  <2> QED BY <1>11, <2>1, <2>2 DEF TickCharge
<1>12. CASE TickMarker(h) \/ TickFresh(h) \/ TickLast(h)
  <2>1. Local(h)
    BY <1>3, <1>6, <1>7, <1>12 DEF TickMarker, TickFresh, TickLast
  <2> QED BY <1>12, <2>1, StoreKept DEF TickMarker, TickFresh, TickLast
<1>13. CASE TickClaim(h) \/ TickFree(h, "t_free", "t_back") \/ TickFree(h, "t_undo", "t_unpay")
  <2>1. Local(h)
    BY <1>3, <1>6, <1>7, <1>13 DEF TickClaim, TickFree
  <2>2. fireLock' \in [Slots -> Handlers \cup {None}]
    BY <1>13 DEF TickClaim, TickFree, FreeSlot, Typed, WalletStoreTypeOK
  <2> QED BY <1>13, <2>1, <2>2 DEF TickClaim, TickFree, Typed, WalletStoreTypeOK, walletVars, budgetVars, sendVars
<1>14. CASE TickLane(h)
  <2>1. Local(h)
    BY <1>3, <1>6, <1>7, <1>14 DEF TickLane
  <2> QED BY <1>14, <2>1 DEF TickLane, TakeLane, Typed, WalletStoreTypeOK, walletVars, budgetVars, sendVars, ruleVars
<1>15. CASE TickRow(h)
  <2>1. pc[h] = "t_row" /\ Slot(h) \in Slots /\ pay[h].row + 1 \in 1..Rows
    BY <1>1, <1>15, PayTypes DEF TickRow, HoldsRule, Slot
  <2>2. PICK a \in Answers, l \in {"t_undo", "t_doubt", "t_fired", "t_row"} :
          /\ Tally(h, a) /\ pc' = [pc EXCEPT ![h] = l] /\ (l = "t_row" => pay[h].ok # 0 \/ a.says = "yes")
          /\ \/ /\ paid' = [paid EXCEPT ![Slot(h)][pay[h].row + 1] = @ + 1]
                /\ Settle(h)
             \/ UNCHANGED <<paid, onDay>>
          /\ lapsed' \in {lapsed, lapsed \cup {Slot(h)}}
    BY <1>15 DEF TickRow, Lapse
  <2>3. Local(h)
    <3>1. /\ l \in Labels \ (Unpaid \cup {"l_write", "n_add", "g_drop", "u_read"})
          /\ l \notin SendSteps /\ l \notin WalletSteps /\ pc[h] \in HoldsRule
      BY <2>1 DEF Labels, HoldsRule, SendSteps, WalletSteps, GcLabels, Unpaid
    <3>2. pay[h].ok # 0 => pay[h].ok > 0
      BY PayTypes
    <3> QED BY <1>15, <2>2, <3>1, <3>2, TallyLocal DEF TickRow
  <2>4. onDay' \in [Days -> Nat] /\ lapsed' \in SUBSET (Slots \cup Intents)
    BY <2>1, <2>2, SettleTypes DEF Typed, WalletStoreTypeOK
  <2>5. paid' \in [Slots -> [1..Rows -> Nat]]
    <3>1. paid \in [Slots -> [1..Rows -> Nat]]
      BY DEF Typed, WalletStoreTypeOK
    <3>2. CASE paid' = [paid EXCEPT ![Slot(h)][pay[h].row + 1] = @ + 1]
      <4>1. ASSUME NEW f \in [1..Rows -> Nat], NEW k \in 1..Rows PROVE [f EXCEPT ![k] = @ + 1] \in [1..Rows -> Nat]
        BY <4>1
      <4>2. [paid[Slot(h)] EXCEPT ![pay[h].row + 1] = @ + 1] \in [1..Rows -> Nat]
        BY <2>1, <3>1, <4>1
      <4> QED BY <3>1, <3>2, <4>2
    <3> QED BY <2>2, <3>1, <3>2
  <2> QED BY <1>15, <2>3, <2>4, <2>5 DEF TickRow, Typed, WalletStoreTypeOK, walletVars, budgetVars, sendVars
<1>16. CASE TickRefund(h) \/ TickFired(h)
  <2>1. CASE TickRefund(h)
    <3>1. Rows - (Rows - pay[h].won) \in Nat /\ Rows - pay[h].won \in Int /\ pay[h].day \in Int /\ Rows \in Nat
      BY PayTypes DEF Days
    <3>2. BudgetTypes
      BY <2>1, <3>1, Budget DEF TickRefund, RefundAll
    <3>3. pc[h] \in HoldsRule => seen[h] \in Rule
      BY <1>1
    <3>4. ASSUME Take(h, "t_stop", [seen[h] EXCEPT !.pending = FALSE, !.status = "fired-cap-exceeded"]),
                 pc[h] = "t_lapsed"
          PROVE  Local(h)
      BY <1>1, <1>5, <3>4, RuleTypes DEF HoldsRule
    <3>5. ASSUME Take(h, "t_put", Advanced(seen[h], h)), Advanced(seen[h], h).next \in Slots, pc[h] = "t_again"
          PROVE  Local(h)
      <4>1. seen[h] \in Rule
        BY <1>1, <3>5 DEF HoldsRule
      <4>2. Advanced(seen[h], h).next = NextFire(Slot(h), at[h])
        BY <4>1 DEF Advanced, Rule
      <4> QED BY <1>5, <3>5, <4>1, <4>2, RuleTypes DEF Advanced
    <3>6. Local(h)
      BY <1>3, <1>6, <1>7, <2>1, <3>4, <3>5 DEF TickRefund
    <3> QED BY <2>1, <3>2, <3>6 DEF TickRefund, RefundKeeps, Typed, WalletStoreTypeOK, walletVars, sendVars, ruleVars,
       BudgetTypes
  <2>2. CASE TickFired(h)
    <3>1. /\ Rows - pay[h].ok \in Nat /\ Rows - pay[h].ok - (Rows - pay[h].won) \in Nat
          /\ Rows - pay[h].won \in Int /\ pay[h].day \in Int
      BY PayTypes DEF Days
    <3>2. BudgetTypes /\ Local(h)
      BY <1>3, <1>7, <2>2, <3>1, Budget DEF TickFired
    <3> QED BY <2>2, <3>2 DEF TickFired, RefundKeeps, Typed, WalletStoreTypeOK, walletVars, sendVars, ruleVars, BudgetTypes
  <2> QED BY <1>16, <2>1, <2>2
<1>17. CASE TickMark(h, "t_mark", "t_read") \/ TickMark(h, "t_doubt", "t_retry")
  <2>1. Local(h)
    BY <1>3, <1>6, <1>7, <1>17 DEF TickMark
  <2>2. Slot(h) \in Slots
    BY <1>1, <1>17 DEF TickMark, HoldsRule, Slot
  <2>3. fired' \in SUBSET Slots /\ lapsed' \in SUBSET (Slots \cup Intents)
    BY <1>17, <2>2 DEF TickMark, Lapse, Typed, WalletStoreTypeOK
  <2> QED BY <1>17, <2>1, <2>3 DEF TickMark, Typed, WalletStoreTypeOK, walletVars, budgetVars, sendVars
<1>18. CASE TickRead(h)
  <2>1. ASSUME RuleIs("active"), Advanced(seen[h], h).next \in Slots,
               Take(h, "t_put", [rule EXCEPT !.pending = FALSE, !.next = Advanced(seen[h], h).next])
        PROVE  Local(h)
    BY <1>2, <1>5, <2>1, RuleTypes DEF RuleIs
  <2>2. ASSUME rule # None, Take(h, "t_keep", [rule EXCEPT !.pending = FALSE]) PROVE Local(h)
    BY <1>2, <1>5, <2>2, RuleTypes
  <2>3. Local(h)
    BY <1>3, <1>6, <1>7, <1>18, <2>1, <2>2 DEF TickRead
  <2> QED BY <1>18, <2>3, StoreKept DEF TickRead
<1>19. CASE PutRule(h, "t_put", "t_add") \/ PutRule(h, "t_retry", "t_soon") \/ PutRule(h, "t_stop", "t_rem")
            \/ PutRule(h, "t_keep", "t_unlane")
  BY <1>3, <1>19, PutTyped DEF HoldsRule
<1>20. CASE TickAdd(h)
  <2>1. Local(h)
    BY <1>3, <1>6, <1>7, <1>20 DEF TickAdd
  <2>2. pc[h] = "t_add" => NextAction(seen[h]) \in Nat
    BY <1>1, RuleTypes DEF HoldsRule
  <2> QED BY <1>1, <1>20, <2>1, <2>2, QueueTyped DEF TickAdd
<1>21. CASE Unlane(h, "t_unlane")
  BY <1>21, SendTyped
<1> QED BY <1>8, <1>9, <1>10, <1>11, <1>12, <1>13, <1>14, <1>15, <1>16, <1>17, <1>18, <1>19, <1>20, <1>21 DEF TickStep

LEMMA LifeStarts ==
  ASSUME Typed, NEW h \in Handlers,
         ArchiveStart(h) \/ RestoreStart(h) \/ LimitsStart(h) \/ CreateStart(h) \/ GcStart(h)
  PROVE  /\ Local(h) /\ WalletStoreTypeOK' /\ UNCHANGED storeVars
         /\ pc[h] = "idle" /\ pc'[h] \in {"d_read", "e_read", "l_read", "n_lock", "g_read"}
<1>1. UNCHANGED storeVars
  BY DEF ArchiveStart, RestoreStart, LimitsStart, CreateStart, GcStart
<1>2. PICK l \in {"d_read", "e_read", "l_read", "n_lock", "g_read"}, w \in Wallets : \E job : Begin(h, job, l, w)
  BY NoneIsNothing DEF ArchiveStart, RestoreStart, LimitsStart, CreateStart, GcStart, Typed, WalletStoreTypeOK
<1>3. PICK job : Begin(h, job, l, w)
  BY <1>2
<1>4. l \in Labels /\ l \notin HoldsRule \cup SendSteps
  BY DEF Labels, HoldsRule, SendSteps
<1>5. Local(h) /\ pc'[h] = l /\ pc[h] = "idle"
  BY <1>3, <1>4, BeginLocal
<1> QED BY <1>1, <1>5, StoreKept

\* The steps of the lifecycle that write nothing.
LifeReads(h) == ArchiveRead(h) \/ ArchiveRule(h) \/ RestoreRead(h) \/ RestoreRule(h) \/ LimitsRead(h)
                \/ CreateCap(h) \/ CreateReadList(h) \/ GcRead(h) \/ GcReadList(h)

\* Where a step of the lifecycle may lead.
LifeNext(l) ==
  CASE l \in {"d_read", "d_write"} -> {"d_write", "d_rule", "done"}
    [] l \in {"e_read", "e_write"} -> {"e_write", "e_rule", "done"}
    [] l \in {"d_rule", "e_rule"} -> {"u_put", "done"}
    [] l \in {"l_read", "l_write"} -> {"l_write", "done"}
    [] l \in GcLabels -> GcLabels \cup {"done"}
    [] OTHER -> {"n_lock", "n_cap", "n_new", "n_list", "n_add", "n_unlock", "done"}

LEMMA LifeLocal ==
  ASSUME Typed, NEW h \in Handlers, LifecycleStep(h)
  PROVE  Local(h) /\ pc'[h] \in LifeNext(pc[h])
<1> USE NoneIsNothing
<1>1. /\ Enough("d_read", "d_write") /\ Enough("d_write", "d_rule") /\ Enough("e_read", "e_write")
      /\ Enough("e_write", "e_rule") /\ Enough("n_lock", "n_cap") /\ Enough("n_cap", "n_new")
      /\ Enough("n_cap", "n_unlock") /\ Enough("n_new", "n_list") /\ Enough("n_new", "n_unlock")
      /\ Enough("n_list", "n_unlock") /\ Enough("n_add", "n_unlock") /\ Enough("g_read", "g_rule")
      /\ Enough("g_rule", "g_rem") /\ Enough("g_rule", "g_record") /\ Enough("g_rem", "g_record")
      /\ Enough("g_record", "g_swept") /\ Enough("g_swept", "g_list")
  BY DEF Enough, Labels, HoldsRule, SendSteps, WalletSteps, GcLabels, Unpaid
<1>2. ASSUME NEW l, NEW m, pc[h] = l, Goto(h, m), Enough(l, m) PROVE Local(h) /\ pc'[h] = m
  BY <1>2, GotoLocal
<1>3. ASSUME End(h) PROVE Local(h) /\ pc'[h] = "done"
  BY <1>3, EndLocal
<1>4. rule \in Rule \cup {None} /\ list \in SUBSET Wallets /\ wallet \in [Wallets -> {"none", "active", "archived"}]
  BY DEF Typed, WalletStoreTypeOK
<1>5. pc[h] \in WalletSteps => item[h] \in Wallets
  BY DEF Typed, Knows
<1>6. /\ {"u_put", "l_write", "n_add", "g_drop"} \subseteq Labels \ (SendSteps \cup Unpaid)
      /\ "u_put" \notin WalletSteps /\ {"l_read", "l_write", "n_list", "n_add", "g_list", "g_drop"} \subseteq WalletSteps
      /\ {"l_write", "n_add", "g_drop"} \cap HoldsRule = {}
  BY DEF Labels, HoldsRule, SendSteps, WalletSteps, GcLabels, Unpaid
<1>7. CASE ArchiveRead(h) \/ RestoreRead(h) \/ PutWallet(h, "d_write", "archived", "d_rule")
           \/ PutWallet(h, "e_write", "active", "e_rule")
  <2>1. CASE ArchiveRead(h)
    BY <1>1, <1>2, <1>3, <2>1 DEF ArchiveRead, LifeNext, GcLabels
  <2>2. CASE RestoreRead(h)
    BY <1>1, <1>2, <1>3, <2>2 DEF RestoreRead, LifeNext, GcLabels
  <2>3. CASE PutWallet(h, "d_write", "archived", "d_rule")
    BY <1>1, <1>2, <1>3, <2>3 DEF PutWallet, LifeNext, GcLabels
  <2>4. CASE PutWallet(h, "e_write", "active", "e_rule")
    BY <1>1, <1>2, <1>3, <2>4 DEF PutWallet, LifeNext, GcLabels
  <2> QED BY <1>7, <2>1, <2>2, <2>3, <2>4
<1>8. CASE ArchiveRule(h) \/ RestoreRule(h)
  <2>1. ASSUME NEW x \in Rule, Take(h, "u_put", x) PROVE Local(h) /\ pc'[h] = "u_put"
    BY <1>6, <2>1, TakeLocal
  <2>2. LifeNext(pc[h]) = {"u_put", "done"}
    BY <1>8 DEF ArchiveRule, RestoreRule, LifeNext, GcLabels
  <2>3. CASE End(h)
    BY <1>3, <2>2, <2>3
  <2>4. CASE RuleIs("active") /\ Take(h, "u_put", [rule EXCEPT !.status = "paused-by-archive", !.pending = FALSE])
    <3>1. [rule EXCEPT !.status = "paused-by-archive", !.pending = FALSE] \in Rule
      BY <1>4, <2>4, RuleTypes DEF RuleIs
    <3> QED BY <2>1, <2>2, <2>4, <3>1
  <2>5. CASE /\ RuleIs("paused-by-archive")
             /\ Take(h, "u_put", [rule EXCEPT !.status = "active", !.pending = FALSE, !.next = FirstFire])
    <3>1. rule \in Rule /\ FirstFire \in Slots
      BY <1>4, <2>5, Clock DEF RuleIs, FirstFire
    <3>2. [rule EXCEPT !.status = "active", !.pending = FALSE, !.next = FirstFire] \in Rule
      BY <3>1, RuleTypes
    <3> QED BY <2>1, <2>2, <2>5, <3>2
  <2> QED BY <1>8, <2>3, <2>4, <2>5 DEF ArchiveRule, RestoreRule, WriteBack
<1>9. CASE LimitsRead(h) \/ PutWallet(h, "l_write", seen[h], "done")
  <2>1. ASSUME wallet[item[h]] # "none", pc[h] = "l_read", Take(h, "l_write", wallet[item[h]])
        PROVE  Local(h) /\ pc'[h] = "l_write"
    <3>1. wallet[item[h]] \in {"active", "archived"}
      BY <1>4, <1>5, <1>6, <2>1
    <3> QED BY <1>6, <2>1, <3>1, TakeLocal
  <2> QED BY <1>3, <1>9, <2>1 DEF LimitsRead, PutWallet, LifeNext, GcLabels
<1>10. CASE CreateLock(h) \/ CreateCap(h) \/ CreateRecord(h) \/ CreateAppend(h) \/ CreateUnlock(h)
  BY <1>1, <1>2, <1>3, <1>10 DEF CreateLock, CreateCap, CreateRecord, CreateAppend, CreateUnlock, LifeNext, GcLabels
<1>11. CASE CreateReadList(h) \/ GcReadList(h)
  <2>1. ASSUME NEW l \in {"n_add", "g_drop"}, Take(h, l, list), pc[h] \in WalletSteps PROVE Local(h) /\ pc'[h] = l
    BY <1>4, <1>6, <2>1, TakeLocal
  <2> QED BY <1>1, <1>2, <1>3, <1>6, <1>11, <2>1 DEF CreateReadList, GcReadList, LifeNext, GcLabels
<1>12. CASE GcRead(h) \/ GcRule(h) \/ GcRemove(h) \/ PutWallet(h, "g_record", "none", "g_swept") \/ GcDerived(h)
            \/ GcDrop(h)
  BY <1>1, <1>2, <1>3, <1>12 DEF GcRead, GcRule, GcRemove, PutWallet, GcDerived, GcDrop, LifeNext, GcLabels
<1> QED BY <1>7, <1>8, <1>9, <1>10, <1>11, <1>12 DEF LifecycleStep

LEMMA LifeTyped ==
  ASSUME Typed, NEW h \in Handlers, LifecycleStep(h)
  PROVE  WalletStoreTypeOK'
<1> USE NoneIsNothing
<1>1. pc[h] \in WalletSteps => item[h] \in Wallets
  BY DEF Typed, Knows
<1>2. CASE LifeReads(h)
  BY <1>2, StoreKept DEF LifeReads, ArchiveRead, ArchiveRule, RestoreRead, RestoreRule, LimitsRead,
     CreateCap, CreateReadList, GcRead, GcReadList
<1>3. ASSUME NEW l, NEW x \in {"none", "active", "archived"}, NEW m, PutWallet(h, l, x, m) PROVE WalletStoreTypeOK'
  <2>1. wallet' \in [Wallets -> {"none", "active", "archived"}] /\ expired' \in SUBSET Wallets
    BY <1>3 DEF PutWallet, Typed, WalletStoreTypeOK
  <2> QED BY <1>3, <2>1 DEF PutWallet, LifecycleKeeps, Typed, WalletStoreTypeOK, budgetVars, sendVars, ruleVars
<1>4. PutWallet(h, "l_write", seen[h], "done") => seen[h] \in {"active", "archived"}
  BY DEF PutWallet, Typed, Knows
<1>5. CASE CreateLock(h) \/ CreateRecord(h) \/ CreateAppend(h) \/ CreateUnlock(h) \/ GcDrop(h)
  <2>1. wallet' \in [Wallets -> {"none", "active", "archived"}]
    BY <1>5 DEF CreateLock, CreateRecord, CreateAppend, CreateUnlock, GcDrop, Typed, WalletStoreTypeOK
  <2>2. createLock' \in Handlers \cup {None}
    BY <1>5 DEF CreateLock, CreateRecord, CreateAppend, CreateUnlock, GcDrop, Typed, WalletStoreTypeOK
  <2>3. list' \in SUBSET Wallets
    BY <1>1, <1>5 DEF CreateLock, CreateRecord, CreateAppend, CreateUnlock, GcDrop, Typed, WalletStoreTypeOK, Knows,
       WalletSteps
  <2>4. expired' = expired /\ UNCHANGED LifecycleKeeps
    BY <1>5 DEF CreateLock, CreateRecord, CreateAppend, CreateUnlock, GcDrop
  <2> QED BY <2>1, <2>2, <2>3, <2>4 DEF LifecycleKeeps, Typed, WalletStoreTypeOK, budgetVars, sendVars, ruleVars
<1>6. CASE GcRule(h)
  BY <1>6 DEF GcRule, Typed, WalletStoreTypeOK, walletVars, budgetVars, sendVars
<1>7. CASE GcRemove(h)
  BY <1>7, QueueTyped DEF GcRemove
<1>8. CASE GcDerived(h)
  <2>1. spent' \in [Days -> Int] /\ slack' \in [Days -> Nat] /\ lane' \in Handlers \cup {None}
    BY <1>8 DEF GcDerived, Typed, WalletStoreTypeOK, budgetVars
  <2> QED BY <1>8, <2>1 DEF GcDerived, Typed, WalletStoreTypeOK, walletVars, sendVars, ruleVars
<1> QED BY <1>2, <1>3, <1>4, <1>5, <1>6, <1>7, <1>8 DEF LifecycleStep, LifeReads

LEMMA TimeTyped ==
  ASSUME Typed, WalletsTime
  PROVE  WalletStoreTypeOK'
<1> USE NoneIsNothing
<1>1. CASE ExpireLane
  BY <1>1 DEF ExpireLane, Typed, WalletStoreTypeOK, walletVars, budgetVars, sendVars, ruleVars
<1>2. CASE ExpireCreateLock
  BY <1>2 DEF ExpireCreateLock, LifecycleKeeps, Typed, WalletStoreTypeOK, budgetVars, sendVars, ruleVars
<1>3. CASE NextDay
  <2>1. clock' \in Days
    BY <1>3 DEF NextDay, Days, Typed, WalletStoreTypeOK
  <2> QED BY <1>3, <2>1 DEF NextDay, Typed, WalletStoreTypeOK, walletVars, budgetVars, sendVars, ruleVars
<1>4. ASSUME NEW i \in Intents, ExpireClaim(i) PROVE WalletStoreTypeOK'
  BY <1>4 DEF ExpireClaim, Typed, WalletStoreTypeOK, walletVars, budgetVars, ruleVars
<1>5. ASSUME NEW z \in Slots, ExpireFireLock(z) PROVE WalletStoreTypeOK'
  BY <1>5 DEF ExpireFireLock, Typed, WalletStoreTypeOK, walletVars, budgetVars, sendVars
<1>6. ASSUME NEW w \in Wallets, GraceEnds(w) PROVE WalletStoreTypeOK'
  BY <1>6 DEF GraceEnds, LifecycleKeeps, Typed, WalletStoreTypeOK, budgetVars, sendVars, ruleVars
<1> QED BY <1>1, <1>2, <1>3, <1>4, <1>5, <1>6 DEF WalletsTime

LEMMA TypedInit == WalletsInit => Typed
<1> SUFFICES ASSUME WalletsInit PROVE Typed
  OBVIOUS
<1> USE NoneIsNothing DEF WalletsInit
<1>1. rule \in Rule /\ zset \in Nat
  <2>1. 1 \in Slots /\ "active" \in Statuses
    BY DEF Slots, Statuses
  <2>2. rule = [status |-> "active", next |-> 1, pending |-> TRUE]
    BY DEF StoreInit
  <2>3. rule \in Rule
    BY <2>1, <2>2 DEF Rule
  <2> QED BY <2>3, RuleTypes DEF StoreInit
<1>2. paid \in [Slots -> [1..Rows -> Nat]]
  BY DEF StoreInit
<1>3. 1 \in Days
  BY DEF Days
<1>4. WalletStoreTypeOK
  BY <1>1, <1>2, <1>3 DEF StoreInit, WalletStoreTypeOK
<1>5. "idle" \in Labels /\ NoPayment \in Payment
  BY DEF Labels, NoPayment, Payment
<1>6. LocalTypes
  BY <1>5 DEF HandlerInit, LocalTypes
<1>7. \A h \in Handlers : Knows(h)
  BY DEF HandlerInit, Knows, NoPayment, HoldsRule, SendSteps, WalletSteps, GcLabels
<1> QED BY <1>4, <1>6, <1>7 DEF Typed

LEMMA TypedStep ==
  ASSUME Typed, NEW h \in Handlers, WalletsStep(h)
  PROVE  Local(h) /\ Typed'
<1>1. Local(h) /\ WalletStoreTypeOK'
  BY SendTyped, UserTyped, TickTyped, LifeStarts, LifeLocal, LifeTyped DEF WalletsStep
<1>2. ASSUME NEW q \in Handlers PROVE Knows(q)'
  BY <1>1 DEF Local, Others, Typed, Knows
<1> QED BY <1>1, <1>2 DEF Typed, Local

LEMMA TypedNext == Typed /\ [WalletsNext]_walletsVars => Typed'
<1> SUFFICES ASSUME Typed, [WalletsNext]_walletsVars PROVE Typed'
  OBVIOUS
<1>1. ASSUME WalletsTime, UNCHANGED localVars PROVE Typed'
  BY <1>1, TimeTyped DEF Typed, LocalTypes, Knows, localVars
<1>2. CASE UNCHANGED walletsVars
  BY <1>2, StoreKept DEF Typed, LocalTypes, Knows, localVars, walletsVars
<1> QED BY <1>1, <1>2, TypedStep DEF WalletsNext

\* The records of the wallets and what the invocations hold of them have
\* their types.
THEOREM WalletsTypeCorrect == WalletsSpec => []WalletsTypeOK
<1>1. Typed => WalletsTypeOK
  BY DEF Typed, WalletsTypeOK, LocalTypes, Knows
<1> QED BY <1>1, TypedInit, TypedNext, PTL DEF WalletsSpec

-----------------------------------------------------------------------------
(* Slots *)

\* The steps of a tick that has taken the fire lock of its slot.
Firing == {"t_fresh", "t_lane", "t_last", "t_row", "t_free", "t_undo", "t_doubt", "t_fired", "t_mark"}

FireLocked == \A h \in Handlers : pc[h] \in Firing => fireLock[Slot(h)] = h

\* No tick may pay the slot any more, and none that is about to take its lock
\* without having seen the marker will find it free.
Over(s) == s \in fired /\ \A h \in Handlers :
             /\ pc[h] \in Firing => Slot(h) # s
             /\ pc[h] = "t_claim" /\ Slot(h) = s => fireLock[s] # None

PayingRow(h, s) ==
  /\ pc[h] \in {"t_row", "t_doubt", "t_fired", "t_mark"} /\ Slot(h) = s /\ pay[h].won > 0
  /\ pc[h] = "t_row" => \A i \in 1..Rows : i > pay[h].row => paid[s][i] = 0

SlotSafe(s) ==
  \/ s \in lapsed
  \/ \A i \in 1..Rows : paid[s][i] = 0
  \/ /\ \A i \in 1..Rows : paid[s][i] <= 1
     /\ Over(s) \/ \E h \in Handlers : PayingRow(h, s)

SlotInv == FireLocked /\ \A s \in Slots : SlotSafe(s)

-----------------------------------------------------------------------------
(* Client keys *)

Claiming == {"s_charge", "s_lane", "s_relay", "s_fail", "s_mark", "s_refund", "s_free"}

ClaimHeld == \A h \in Handlers : pc[h] \in Claiming => claim[item[h]] = h

Replayed(i) == i \in settled /\ \A h \in Handlers :
                 /\ pc[h] \in Claiming => item[h] # i
                 /\ pc[h] = "s_claim" /\ item[h] = i => claim[i] # None

Marking(h, i) == pc[h] = "s_mark" /\ item[h] = i /\ pay[h].won > 0

KeySafe(i) ==
  \/ i \in lapsed
  \/ sent[i] = 0
  \/ sent[i] = 1 /\ (Replayed(i) \/ \E h \in Handlers : Marking(h, i))

KeyInv == ClaimHeld /\ \A i \in Keyed : KeySafe(i)

-----------------------------------------------------------------------------
(* The lease *)

Laned == {"s_relay", "t_last", "t_row"}
LaneInv == \A h \in Handlers : /\ pc[h] \in Laned => lane = h
                               /\ pc[h] \notin GcLabels

-----------------------------------------------------------------------------
(* Which steps the three arguments are about *)

\* Where a lock of its own, or the lack of a marker, lets an invocation pay.
Hot == Firing \cup Claiming \cup {"t_claim", "s_claim"}

ColdStep(h) ==
  \/ SendStart(h) \/ UserStart(h) \/ UserRead(h) \/ PutRule(h, "u_put", "u_queue") \/ UserQueue(h)
  \/ TickStart(h) \/ TickPull(h) \/ TickRule(h) \/ TickCharge(h) \/ TickRefund(h) \/ TickRead(h) \/ TickAdd(h)
  \/ PutRule(h, "t_put", "t_add") \/ PutRule(h, "t_retry", "t_soon")
  \/ PutRule(h, "t_stop", "t_rem") \/ PutRule(h, "t_keep", "t_unlane")
  \/ ArchiveStart(h) \/ RestoreStart(h) \/ LimitsStart(h) \/ CreateStart(h) \/ GcStart(h)
  \/ LifecycleStep(h)

SendHot(h) == \/ SendWallet(h) \/ SendGuard(h) \/ SendClaim(h) \/ SendCharge(h) \/ SendLane(h) \/ SendGate(h)
              \/ SendRelay(h) \/ SendFail(h) \/ SendMark(h) \/ SendRefund(h) \/ SendFree(h)
TickHot(h) == \/ TickMarker(h) \/ TickClaim(h) \/ TickFresh(h) \/ TickLane(h) \/ TickLast(h) \/ TickRow(h)
              \/ TickFree(h, "t_free", "t_back") \/ TickFree(h, "t_undo", "t_unpay") \/ TickFired(h)
              \/ TickMark(h, "t_mark", "t_read") \/ TickMark(h, "t_doubt", "t_retry")
Unlanes(h) == Unlane(h, "s_unlane") \/ Unlane(h, "t_unlane")

LEMMA Steps ==
  ASSUME NEW h \in Handlers, WalletsStep(h)
  PROVE  ColdStep(h) \/ SendHot(h) \/ TickHot(h) \/ UserLease(h) \/ Unlanes(h) \/ Crash(h)
BY DEF WalletsStep, ColdStep, SendHot, TickHot, Unlanes, SendStep, UserStep, TickStep

LEMMA ColdMoves ==
  ASSUME Typed, NEW h \in Handlers, ColdStep(h)
  PROVE  /\ pc[h] \notin Hot \cup Laned /\ pc'[h] \notin Hot \cup Laned
         /\ UNCHANGED <<sendVars, fireLock, fired, paid, lapsed>>
         /\ lane' = lane \/ pc[h] \in GcLabels
         /\ pc'[h] \in GcLabels => GcStart(h) \/ pc[h] \in GcLabels
<1>1. pc \in [Handlers -> Labels]
  BY DEF Typed, LocalTypes
<1>3. CASE SendStart(h) \/ UserStart(h) \/ TickStart(h)
  BY <1>1, <1>3 DEF SendStart, UserStart, TickStart, Begin, Hot, Firing, Claiming, Laned, GcLabels,
     storeVars, sendVars, ruleVars
<1>4. CASE UserRead(h) \/ UserQueue(h) \/ TickPull(h) \/ TickRead(h) \/ TickAdd(h)
  BY <1>1, <1>4 DEF UserRead, UserQueue, TickPull, TickRead, TickAdd, Queue, WriteBack, Goto, Take, End, Hot, Firing,
     Claiming, Laned, GcLabels, storeVars, sendVars, ruleVars
<1>5. CASE TickRule(h) \/ TickCharge(h)
  BY <1>1, <1>5 DEF TickRule, TickCharge, Goto, Take, End, Hot, Firing, Claiming, Laned, GcLabels, storeVars, sendVars,
     ruleVars
<1>6. CASE TickRefund(h)
  BY <1>1, <1>6 DEF TickRefund, RefundKeeps, Goto, Take, End, Hot, Firing, Claiming, Laned, GcLabels, sendVars,
     ruleVars
<1>7. ASSUME NEW l \in {"u_put", "t_put", "t_retry", "t_stop", "t_keep"},
             NEW m \in {"u_queue", "t_add", "t_soon", "t_rem", "t_unlane"}, PutRule(h, l, m)
      PROVE  /\ pc[h] \notin Hot \cup Laned /\ pc'[h] \notin Hot \cup Laned \cup GcLabels
             /\ UNCHANGED <<sendVars, fireLock, fired, paid, lapsed, lane>>
  BY <1>1, <1>7 DEF PutRule, Goto, End, Hot, Firing, Claiming, Laned, GcLabels, sendVars
<1>8. CASE ArchiveStart(h) \/ RestoreStart(h) \/ LimitsStart(h) \/ CreateStart(h) \/ GcStart(h)
  <2>1. /\ UNCHANGED storeVars /\ pc[h] = "idle"
        /\ pc'[h] \in {"d_read", "e_read", "l_read", "n_lock", "g_read"}
    BY <1>8, LifeStarts
  <2>2. pc'[h] = "g_read" => GcStart(h)
    <3>1. ASSUME NEW job, NEW l, NEW x, Begin(h, job, l, x) PROVE pc'[h] = l
      BY <1>1, <3>1 DEF Begin
    <3> QED BY <1>8, <3>1 DEF ArchiveStart, RestoreStart, LimitsStart, CreateStart
  <2> QED BY <2>1, <2>2 DEF Hot, Firing, Claiming, Laned, GcLabels, storeVars, sendVars, ruleVars
<1>9. CASE LifecycleStep(h)
  <2>1. pc'[h] \in LifeNext(pc[h])
    BY <1>9, LifeLocal
  <2>2. pc[h] \in WalletSteps \cup {"d_rule", "e_rule"}
    BY <1>9 DEF LifecycleStep, ArchiveRead, ArchiveRule, RestoreRead, RestoreRule, LimitsRead, PutWallet, CreateLock,
       CreateCap, CreateRecord, CreateReadList, CreateAppend, CreateUnlock, GcRead, GcRule, GcRemove, GcDerived,
       GcReadList, GcDrop, WalletSteps, GcLabels
  <2>3. /\ pc[h] \notin Hot \cup Laned /\ pc'[h] \notin Hot \cup Laned
        /\ pc'[h] \in GcLabels => pc[h] \in GcLabels
    BY <2>1, <2>2 DEF LifeNext, WalletSteps, Hot, Firing, Claiming, Laned, GcLabels
  <2>4. UNCHANGED <<sendVars, fireLock, fired, paid, lapsed>> /\ (lane' = lane \/ GcDerived(h))
    <3>1. CASE LifeReads(h)
      BY <3>1 DEF LifeReads, ArchiveRead, ArchiveRule, RestoreRead, RestoreRule, LimitsRead,
         CreateCap, CreateReadList, GcRead, GcReadList, storeVars, sendVars, ruleVars
    <3>2. CASE CreateLock(h) \/ CreateRecord(h) \/ CreateAppend(h) \/ CreateUnlock(h) \/ GcDrop(h)
      BY <3>2 DEF CreateLock, CreateRecord, CreateAppend, CreateUnlock, GcDrop, LifecycleKeeps, sendVars, ruleVars
    <3>3. ASSUME NEW l, NEW x, NEW m, PutWallet(h, l, x, m)
          PROVE  UNCHANGED <<sendVars, fireLock, fired, paid, lapsed>> /\ lane' = lane
      BY <3>3 DEF PutWallet, LifecycleKeeps, sendVars, ruleVars
    <3>4. CASE GcRule(h) \/ GcRemove(h) \/ GcDerived(h)
      BY <3>4 DEF GcRule, GcRemove, GcDerived, Queue, sendVars, ruleVars
    <3> QED BY <1>9, <3>1, <3>2, <3>3, <3>4 DEF LifecycleStep, LifeReads
  <2> QED BY <2>3, <2>4 DEF GcDerived, GcLabels
<1> QED BY <1>3, <1>4, <1>5, <1>6, <1>7, <1>8, <1>9 DEF ColdStep

\* What every other step does: where it leads, and what it leaves alone.
LEMMA SendMoves ==
  ASSUME Typed, NEW h \in Handlers, SendHot(h)
  PROVE  /\ pc[h] \in SendSteps
         /\ pc'[h] \in SendSteps \cup {"s_unlane", "done"}
         /\ UNCHANGED <<fireLock, fired, paid>> /\ lapsed \subseteq lapsed'
         /\ SendLane(h) \/ (lane' = lane /\ pc'[h] # "s_relay")
<1>1. pc \in [Handlers -> Labels]
  BY DEF Typed, LocalTypes
<1>2. CASE SendWallet(h) \/ SendGuard(h) \/ SendGate(h)
  BY <1>1, <1>2 DEF SendWallet, SendGuard, SendGate, Goto, End, SendSteps, storeVars, ruleVars
<1>3. CASE SendClaim(h) \/ SendCharge(h)
  BY <1>1, <1>3 DEF SendClaim, SendCharge, Goto, End, SendSteps, ruleVars
<1>4. CASE SendRelay(h)
  BY <1>1, <1>4 DEF SendRelay, SendSteps, ruleVars, Lapse
<1>5. CASE SendFail(h) \/ SendMark(h)
  BY <1>1, <1>5 DEF SendFail, SendMark, Goto, End, SendSteps, ruleVars, Lapse
<1>6. CASE SendRefund(h) \/ SendFree(h)
  BY <1>1, <1>6 DEF SendRefund, SendFree, Goto, End, SendSteps, ruleVars
<1>7. CASE SendLane(h)
  BY <1>1, <1>7 DEF SendLane, Goto, End, SendSteps, ruleVars
<1> QED BY <1>2, <1>3, <1>4, <1>5, <1>6, <1>7 DEF SendHot

LEMMA TickMoves ==
  ASSUME Typed, NEW h \in Handlers, TickHot(h)
  PROVE  /\ pc[h] \in Firing \cup {"t_marker", "t_claim"}
         /\ pc'[h] \notin SendSteps \cup GcLabels
         /\ pc'[h] \in Laned => pc[h] \in Laned \/ TickLane(h)
         /\ UNCHANGED sendVars /\ lapsed \subseteq lapsed'
         /\ TickLane(h) \/ lane' = lane
<1>1. pc \in [Handlers -> Labels]
  BY DEF Typed, LocalTypes
<1>2. CASE TickMarker(h) \/ TickFresh(h) \/ TickLast(h)
  BY <1>1, <1>2 DEF TickMarker, TickFresh, TickLast, Goto, End, SendSteps, GcLabels, Laned, Firing, storeVars
<1>3. CASE TickClaim(h) \/ TickLane(h) \/ TickFree(h, "t_free", "t_back") \/ TickFree(h, "t_undo", "t_unpay")
  BY <1>1, <1>3 DEF TickClaim, TickLane, TickFree, Goto, End, SendSteps, GcLabels, Laned, Firing
<1>4. CASE TickRow(h)
  BY <1>1, <1>4 DEF TickRow, SendSteps, GcLabels, Laned, Firing, Lapse
<1>5. CASE TickFired(h)
  BY <1>1, <1>5 DEF TickFired, RefundKeeps, Goto, SendSteps, GcLabels, Laned, Firing
<1>6. CASE TickMark(h, "t_mark", "t_read") \/ TickMark(h, "t_doubt", "t_retry")
  BY <1>1, <1>6 DEF TickMark, Goto, End, SendSteps, GcLabels, Laned, Firing, Lapse
<1> QED BY <1>2, <1>3, <1>4, <1>5, <1>6 DEF TickHot

LEMMA OtherMoves ==
  ASSUME Typed, NEW h \in Handlers, UserLease(h) \/ Unlanes(h) \/ Crash(h)
  PROVE  /\ pc'[h] \in {"u_put", "done"} /\ UNCHANGED <<sendVars, fired, paid>> /\ lapsed \subseteq lapsed'
         /\ lane' = lane \/ lane' = IF lane = h THEN None ELSE lane
         /\ UserLease(h) \/ fireLock' = fireLock
<1>1. pc \in [Handlers -> Labels]
  BY DEF Typed, LocalTypes
<1>2. CASE UserLease(h)
  BY <1>1, <1>2 DEF UserLease, Goto, sendVars
<1>3. CASE Unlanes(h)
  BY <1>1, <1>3 DEF Unlanes, Unlane, ReleaseLane, End, ruleVars
<1>4. CASE Crash(h)
  BY <1>1, <1>4 DEF Crash, End, Lapse, ruleVars
<1> QED BY <1>2, <1>3, <1>4

-----------------------------------------------------------------------------
(* The lease on the wallet *)

LEMMA LaneStep ==
  ASSUME Typed, LaneInv, "gc" \notin Jobs, NEW h \in Handlers, WalletsStep(h)
  PROVE  LaneInv'
<1>1. Others(h)
  BY TypedStep DEF Local
<1>2. Laned \subseteq Firing \cup SendSteps /\ GcLabels \cap (Firing \cup SendSteps) = {}
      /\ {"u_put", "done", "s_unlane"} \cap (Laned \cup GcLabels) = {}
  BY DEF Laned, Firing, SendSteps, GcLabels
<1>3. ASSUME pc'[h] \notin GcLabels,
             \/ lane' = lane /\ (pc'[h] \in Laned => pc[h] \in Laned)
             \/ lane = None /\ lane' = h
             \/ pc'[h] \notin Laned /\ lane' = IF lane = h THEN None ELSE lane
      PROVE  LaneInv'
  BY <1>1, <1>3, NoneIsNothing DEF LaneInv, Others
<1>4. CASE ColdStep(h)
  <2>1. ~GcStart(h)
    BY DEF GcStart, Begin
  <2> QED BY <1>3, <1>4, <2>1, ColdMoves DEF LaneInv
<1>5. CASE SendHot(h)
  <2>1. pc'[h] \notin GcLabels /\ (pc'[h] \in Laned => pc'[h] = "s_relay")
    BY <1>5, SendMoves DEF SendSteps, GcLabels, Laned
  <2>2. CASE SendLane(h)
    <3>1. TakeLane(h) \/ (lane' = lane /\ pc'[h] # "s_relay")
      BY <2>2 DEF SendLane, Goto, End, Typed, LocalTypes
    <3> QED BY <1>3, <2>1, <3>1 DEF TakeLane
  <2> QED BY <1>3, <1>5, <2>1, <2>2, SendMoves
<1>6. CASE TickHot(h)
  <2>1. CASE TickLane(h)
    <3>1. TakeLane(h) \/ (lane' = lane /\ pc'[h] \notin Laned)
      BY <2>1 DEF TickLane, Goto, End, Typed, LocalTypes, Laned
    <3> QED BY <1>3, <1>6, <3>1, TickMoves DEF TakeLane
  <2> QED BY <1>3, <1>6, <2>1, TickMoves
<1>7. CASE UserLease(h) \/ Unlanes(h) \/ Crash(h)
  BY <1>2, <1>3, <1>7, OtherMoves
<1> QED BY <1>4, <1>5, <1>6, <1>7, Steps

\* A wallet's lease is held by one payment from before it is signed until the
\* relay has answered, whatever fails and whoever dies, as long as the record
\* of the lease is not swept with a wallet that is destroyed.
THEOREM OnePaymentInTheLane == "gc" \notin Jobs => (WalletsSpec => []LaneExclusive)
<1> SUFFICES ASSUME "gc" \notin Jobs PROVE WalletsSpec => []LaneExclusive
  OBVIOUS
<1>1. WalletsInit => LaneInv
  BY DEF WalletsInit, HandlerInit, LaneInv, Laned, GcLabels
<1>2. Typed /\ LaneInv /\ [WalletsNext]_walletsVars => LaneInv'
  <2> SUFFICES ASSUME Typed, LaneInv, [WalletsNext]_walletsVars PROVE LaneInv'
    OBVIOUS
  <2>1. CASE WalletsTime /\ UNCHANGED localVars
    <3>1. lane' = lane \/ ExpireLane
      BY <2>1 DEF WalletsTime, ExpireCreateLock, ExpireClaim, ExpireFireLock, GraceEnds, NextDay, LifecycleKeeps
    <3>2. \A h \in Handlers : pc[h] \in Laned => Running(h)
      BY DEF Laned, Running
    <3> QED BY <2>1, <3>1, <3>2, NoneIsNothing DEF LaneInv, localVars, ExpireLane, Holds
  <2>2. CASE UNCHANGED walletsVars
    BY <2>2 DEF LaneInv, walletsVars, localVars, storeVars
  <2> QED BY <2>1, <2>2, LaneStep DEF WalletsNext
<1>3. LaneInv => LaneExclusive
  BY DEF LaneInv, LaneExclusive, Laned
<1> QED BY <1>1, <1>2, <1>3, TypedInit, TypedNext, PTL DEF WalletsSpec

-----------------------------------------------------------------------------
(* A slot is paid once *)

LEMMA OverStays ==
  ASSUME NEW s, NEW h \in Handlers, Others(h), Over(s), s \in fired',
         fireLock'[s] = fireLock[s] \/ fireLock'[s] # None,
         pc'[h] \in Firing => seen'[h].next # s,
         pc'[h] = "t_claim" /\ seen'[h].next = s => pc[h] = "t_claim" /\ Slot(h) = s
  PROVE  Over(s)'
BY DEF Over, Others, Slot

LEMMA StaysSafe ==
  ASSUME Typed, NEW s \in Slots, NEW h \in Handlers, Others(h), SlotSafe(s), paid' = paid, lapsed \subseteq lapsed',
         Over(s) => Over(s)', PayingRow(h, s) => PayingRow(h, s)' \/ Over(s)' \/ s \in lapsed'
  PROVE  SlotSafe(s)'
<1>1. ASSUME NEW g \in Handlers \ {h}, PayingRow(g, s) PROVE PayingRow(g, s)'
  BY <1>1 DEF PayingRow, Others, Slot
<1> QED BY <1>1 DEF SlotSafe

LEMMA LockStays ==
  ASSUME FireLocked, NEW h \in Handlers, Others(h), fireLock' = fireLock,
         pc'[h] \in Firing => pc[h] \in Firing /\ seen'[h].next = Slot(h)
  PROVE  FireLocked'
BY DEF FireLocked, Others, Slot

\* Whatever is not about slots.
LEMMA SlotFrame ==
  ASSUME Typed, SlotInv, NEW h \in Handlers, Others(h),
         pc[h] \notin Firing \cup {"t_claim"}, pc'[h] \notin Firing \cup {"t_claim"},
         UNCHANGED <<fireLock, fired, paid>>, lapsed \subseteq lapsed'
  PROVE  SlotInv'
<1>1. FireLocked'
  BY LockStays DEF SlotInv
<1>2. ASSUME NEW s \in Slots PROVE SlotSafe(s)'
  <2>1. ~PayingRow(h, s)
    BY DEF PayingRow, Firing
  <2>2. Over(s) => Over(s)'
    BY OverStays DEF Over
  <2> QED BY <2>1, <2>2, StaysSafe DEF SlotInv
<1> QED BY <1>1, <1>2 DEF SlotInv

LEMMA RowPaid ==
  ASSUME Typed, SlotInv, NEW h \in Handlers, Others(h), TickRow(h)
  PROVE  SlotInv'
<1>1. /\ pc[h] = "t_row" /\ fireLock' = fireLock /\ fired' = fired /\ seen' = seen
      /\ pay[h].row < Rows /\ Slot(h) \in Slots
      /\ (pay[h].ok > 0 \/ pay[h].won = 0)
      /\ pay[h].row \in Nat /\ pay[h].won \in Nat /\ pay[h].ok \in Nat
  <2>1. pc[h] = "t_row" /\ fireLock' = fireLock /\ fired' = fired /\ seen' = seen /\ pay[h].row < Rows
    BY DEF TickRow
  <2>2. seen[h] \in Rule /\ (pay[h].ok > 0 \/ pay[h].row = 0)
    BY <2>1 DEF Typed, Knows, HoldsRule
  <2>3. pay[h].row \in 0..Rows /\ pay[h].ok \in 0..Rows /\ pay[h].won \in 0..Rows
        /\ pay[h].won <= pay[h].row
    BY PayTypes
  <2>4. Slot(h) \in Slots
    BY <2>2, RuleTypes DEF Slot
  <2> QED BY <2>1, <2>2, <2>3, <2>4
<1>2. PICK a \in Answers :
        /\ Tally(h, a)
        /\ pc' = [pc EXCEPT ![h] = IF pay[h].ok = 0 /\ a.says # "yes" /\ a.says = "no" THEN "t_undo"
                                   ELSE IF pay[h].ok = 0 /\ a.says # "yes" THEN "t_doubt"
                                   ELSE IF pay[h].row + 1 = Rows THEN "t_fired" ELSE "t_row"]
        /\ IF a.settles
           THEN paid' = [paid EXCEPT ![Slot(h)][pay[h].row + 1] = @ + 1] /\ Settle(h)
           ELSE UNCHANGED <<paid, onDay>>
        /\ IF a.settles /\ (pay[h].ok = 0 /\ a.says # "yes") /\ a.says = "no" THEN Lapse(Slot(h)) ELSE UNCHANGED lapsed
  BY DEF TickRow
<1>3. /\ pay'[h].row = pay[h].row + 1 /\ pay'[h].won = pay[h].won + (IF a.settles THEN 1 ELSE 0)
      /\ a.says = "yes" => a.settles
  BY <1>2 DEF Tally, Typed, LocalTypes, Payment, Count, Answers
<1>4. pc'[h] \in {"t_undo", "t_doubt", "t_fired", "t_row"}
  BY <1>2 DEF Typed, LocalTypes
<1>5. FireLocked'
  BY <1>1, <1>4, LockStays DEF SlotInv, Firing, Slot
<1>6. ASSUME NEW s \in Slots, s # Slot(h) PROVE SlotSafe(s)'
  <2>1. paid'[s] = paid[s] /\ lapsed \subseteq lapsed'
    BY <1>2, <1>6 DEF Typed, WalletStoreTypeOK, Lapse
  <2>2. Over(s) => Over(s)'
    BY <1>1, <1>4, <1>6, OverStays DEF Over, Slot
  <2>3. ASSUME NEW g \in Handlers, PayingRow(g, s) PROVE g # h /\ PayingRow(g, s)'
    BY <1>6, <2>1, <2>3 DEF PayingRow, Others, Slot
  <2> QED BY <2>1, <2>2, <2>3 DEF SlotInv, SlotSafe
<1>7. ASSUME NEW s \in Slots, s = Slot(h) PROVE SlotSafe(s)'
  <2>1. s = Slot(h) /\ s = Slot(h)'
    BY <1>1, <1>7 DEF Slot
  <2>2. paid \in [Slots -> [1..Rows -> Nat]] /\ lapsed \subseteq lapsed' /\ pay[h].row + 1 \in 1..Rows
    <3>1. pay[h].row + 1 \in 1..Rows
      BY <1>1, NoneIsNothing
    <3>2. paid \in [Slots -> [1..Rows -> Nat]]
      BY DEF Typed, WalletStoreTypeOK
    <3> QED BY <1>2, <3>1, <3>2 DEF Lapse
  <2>3. ~Over(s)
    BY <1>1, <2>1 DEF Over, Firing
  <2>4. ASSUME NEW g \in Handlers, PayingRow(g, s) PROVE g = h
    BY <1>1, <2>1, <2>4 DEF PayingRow, SlotInv, FireLocked, Firing
  <2>5. CASE s \in lapsed
    BY <2>1, <2>2, <2>5 DEF SlotSafe
  <2>6. CASE /\ \A i \in 1..Rows : paid[s][i] <= 1
             /\ \A i \in 1..Rows : i > pay[h].row => paid[s][i] = 0
             /\ s \notin lapsed
             /\ pay[h].won > 0 \/ \A i \in 1..Rows : paid[s][i] = 0
    <3>1. CASE ~a.settles
      <4>1. paid' = paid /\ pay'[h].won = pay[h].won
        BY <1>1, <1>2, <1>3, <3>1
      <4>2. CASE \A i \in 1..Rows : paid[s][i] = 0
        BY <2>1, <4>1, <4>2 DEF SlotSafe
      <4>3. CASE pay[h].won > 0
        <5>1. pc'[h] \in {"t_doubt", "t_fired", "t_row"}
          BY <1>1, <1>2, <4>3 DEF Typed, LocalTypes
        <5>2. PayingRow(h, s)'
          BY <1>1, <1>3, <2>1, <2>6, <4>1, <4>3, <5>1 DEF PayingRow
        <5> QED BY <2>1, <2>6, <4>1, <5>2 DEF SlotSafe
      <4> QED BY <2>6, <4>2, <4>3
    <3>2. CASE a.settles
      <4>1. paid'[s] = [paid[s] EXCEPT ![pay[h].row + 1] = @ + 1] /\ pay'[h].won > 0
        BY <1>1, <1>2, <1>3, <2>1, <2>2, <3>2
      <4>2. /\ \A i \in 1..Rows : paid'[s][i] <= 1
            /\ \A i \in 1..Rows : i > pay'[h].row => paid'[s][i] = 0
        BY <1>1, <1>3, <2>1, <2>2, <2>6, <4>1
      <4>3. CASE pc'[h] = "t_undo"
        <5>1. s \in lapsed'
          BY <1>2, <2>1, <3>2, <4>3 DEF Lapse, Typed, LocalTypes
        <5> QED BY <2>1, <5>1 DEF SlotSafe
      <4>4. CASE pc'[h] # "t_undo"
        <5>1. PayingRow(h, s)'
          BY <1>4, <2>1, <4>1, <4>2, <4>4 DEF PayingRow
        <5> QED BY <2>1, <4>2, <5>1 DEF SlotSafe
      <4> QED BY <4>3, <4>4
    <3> QED BY <3>1, <3>2
  <2>7. s \in lapsed \/ (\A i \in 1..Rows : paid[s][i] = 0) \/
          ((\A i \in 1..Rows : paid[s][i] <= 1) /\ PayingRow(h, s))
    BY <2>1, <2>3, <2>4 DEF SlotInv, SlotSafe
  <2> QED BY <1>1, <2>2, <2>5, <2>6, <2>7 DEF PayingRow
<1> QED BY <1>5, <1>6, <1>7 DEF SlotInv, Slot
\* The locks and the markers move, and the payments of a slot are still
\* accounted for.
LEMMA SlotStays ==
  ASSUME Typed, SlotInv, NEW h \in Handlers, Others(h), paid' = paid, fired \subseteq fired', lapsed \subseteq lapsed',
         \A g \in Handlers \ {h} : pc[g] \in Firing => fireLock'[Slot(g)] = g,
         pc'[h] \in Firing => fireLock'[seen'[h].next] = h,
         \A s \in Slots : Over(s) =>
           /\ fireLock'[s] = fireLock[s] \/ fireLock'[s] # None
           /\ pc'[h] \in Firing \cup {"t_claim"} => seen'[h].next # s,
         \A s \in Slots : PayingRow(h, s) => PayingRow(h, s)' \/ Over(s)' \/ s \in lapsed'
  PROVE  SlotInv'
<1>1. FireLocked'
  BY DEF FireLocked, Others, Slot
<1>2. ASSUME NEW s \in Slots PROVE SlotSafe(s)'
  <2>1. Over(s) => Over(s)'
    <3> SUFFICES ASSUME Over(s) PROVE Over(s)'
      OBVIOUS
    <3>1. s \in fired'
      BY DEF Over
    <3> QED BY <3>1, OverStays
  <2> QED BY <2>1, StaysSafe DEF SlotInv
<1> QED BY <1>1, <1>2 DEF SlotInv

\* A tick before it pays, and one that has marked the slot.
LEMMA FiringStep ==
  ASSUME Typed, SlotInv, NEW h \in Handlers, Others(h),
         TickMarker(h) \/ TickFresh(h) \/ TickLane(h) \/ TickLast(h) \/ TickFired(h)
  PROVE  SlotInv'
<1>1. pc \in [Handlers -> Labels] /\ UNCHANGED <<fireLock, fired, paid, lapsed>>
  BY DEF Typed, LocalTypes, TickMarker, TickFresh, TickLane, TickLast, TickFired, storeVars, ruleVars, RefundKeeps
<1>2. \A g \in Handlers \ {h} : pc[g] \in Firing => fireLock'[Slot(g)] = g
  BY <1>1 DEF SlotInv, FireLocked
<1>3. CASE TickMarker(h)
  <2>1. /\ pc[h] = "t_marker" /\ pc'[h] \notin Firing
        /\ pc'[h] = "t_claim" => seen' = seen /\ Slot(h) \notin fired
    BY <1>1, <1>3 DEF TickMarker, Goto, End, Firing
  <2>2. \A s \in Slots : ~PayingRow(h, s)
    BY <2>1 DEF PayingRow
  <2>3. \A s \in Slots : Over(s) => (pc'[h] \in Firing \cup {"t_claim"} => seen'[h].next # s)
    BY <2>1 DEF Over, Slot
  <2> QED BY <1>1, <1>2, <2>1, <2>2, <2>3, SlotStays
<1>4. CASE TickFresh(h) \/ TickLane(h) \/ TickLast(h) \/ TickFired(h)
  <2>1. /\ pc[h] \in Firing /\ pc'[h] # "t_claim"
        /\ pc'[h] \in Firing => seen' = seen
    BY <1>1, <1>4 DEF TickFresh, TickLane, TickLast, TickFired, Goto, End, Firing
  <2>2. pc'[h] \in Firing => fireLock'[seen'[h].next] = h
    BY <1>1, <2>1 DEF SlotInv, FireLocked, Slot
  <2>3. \A s \in Slots : Over(s) => (pc'[h] \in Firing \cup {"t_claim"} => seen'[h].next # s)
    BY <2>1 DEF Over, Slot
  <2>4. ASSUME NEW s \in Slots, PayingRow(h, s) PROVE PayingRow(h, s)'
    BY <1>1, <1>4, <2>4 DEF PayingRow, TickFresh, TickLane, TickLast, TickFired, Goto, Slot
  <2> QED BY <1>1, <1>2, <2>2, <2>3, <2>4, SlotStays
<1> QED BY <1>3, <1>4

LEMMA ClaimStep ==
  ASSUME Typed, SlotInv, NEW h \in Handlers, Others(h),
         TickClaim(h) \/ TickFree(h, "t_free", "t_back") \/ TickFree(h, "t_undo", "t_unpay")
  PROVE  SlotInv'
<1>1. /\ pc \in [Handlers -> Labels] /\ fireLock \in [Slots -> Handlers \cup {None}] /\ None \notin Handlers
      /\ UNCHANGED <<fired, paid, lapsed>>
  BY NoneIsNothing DEF Typed, LocalTypes, WalletStoreTypeOK, TickClaim, TickFree
<1>2. /\ pc[h] \in {"t_claim", "t_free", "t_undo"} /\ seen[h] \in Rule
      /\ Slot(h) \in Slots
  <2>1. pc[h] \in {"t_claim", "t_free", "t_undo"}
    BY DEF TickClaim, TickFree
  <2>2. seen[h] \in Rule
    BY <2>1 DEF Typed, Knows, HoldsRule
  <2> QED BY <2>1, <2>2, RuleTypes DEF Slot
<1>3. \A s \in Slots : ~PayingRow(h, s)
  BY <1>2 DEF PayingRow
<1>4. CASE fireLock' = fireLock
  <2>1. pc'[h] \notin Firing \cup {"t_claim"}
    BY <1>1, <1>2, <1>4 DEF TickClaim, TickFree, FreeSlot, Goto, End, Firing, SlotInv, FireLocked
  <2>2. \A g \in Handlers \ {h} : pc[g] \in Firing => fireLock'[Slot(g)] = g
    BY <1>4 DEF SlotInv, FireLocked
  <2> QED BY <1>1, <1>3, <1>4, <2>1, <2>2, SlotStays
<1>5. CASE TickClaim(h) /\ fireLock' # fireLock
  <2>1. /\ pc[h] = "t_claim" /\ fireLock[Slot(h)] = None /\ fireLock' = [fireLock EXCEPT ![Slot(h)] = h]
        /\ pc'[h] = "t_fresh" /\ seen' = seen
    BY <1>1, <1>5 DEF TickClaim, Goto
  <2>2. \A g \in Handlers \ {h} : pc[g] \in Firing => fireLock'[Slot(g)] = g
    BY <1>1, <1>2, <2>1 DEF SlotInv, FireLocked
  <2>3. fireLock'[seen'[h].next] = h
    BY <1>1, <1>2, <2>1 DEF Slot
  <2>4. \A s \in Slots : Over(s) => s # Slot(h)
    BY <2>1 DEF Over
  <2>5. \A s \in Slots : Over(s) => fireLock'[s] = fireLock[s] /\ seen'[h].next # s
    BY <1>1, <2>1, <2>4 DEF Slot
  <2> QED BY <1>1, <1>3, <2>2, <2>3, <2>5, SlotStays
<1>6. CASE TickFree(h, "t_free", "t_back") \/ TickFree(h, "t_undo", "t_unpay")
  <2>1. CASE FreeSlot(h)
    <3>1. pc[h] \in Firing /\ pc'[h] \notin Firing \cup {"t_claim"}
      BY <1>1, <1>6 DEF TickFree, Goto, End, Firing
    <3>2. \A g \in Handlers \ {h} : pc[g] \in Firing => Slot(g) # Slot(h) /\ fireLock[Slot(g)] = g
      BY <3>1 DEF SlotInv, FireLocked
    <3>3. \A g \in Handlers \ {h} : pc[g] \in Firing => fireLock'[Slot(g)] = g
      BY <1>1, <2>1, <3>2 DEF FreeSlot
    <3>4. \A s \in Slots : Over(s) => fireLock'[s] = fireLock[s]
      BY <1>1, <2>1, <3>1 DEF FreeSlot, Over
    <3> QED BY <1>1, <1>3, <3>1, <3>3, <3>4, SlotStays
  <2> QED BY <1>4, <1>6, <2>1 DEF TickFree
<1> QED BY <1>4, <1>5, <1>6

\* The marker is written before anybody else can take the slot.
LEMMA MarkStep ==
  ASSUME Typed, SlotInv, NEW h \in Handlers, Others(h),
         TickMark(h, "t_mark", "t_read") \/ TickMark(h, "t_doubt", "t_retry")
  PROVE  SlotInv'
<1>1. /\ pc \in [Handlers -> Labels] /\ None \notin Handlers /\ UNCHANGED <<fireLock, paid>>
      /\ fired \subseteq fired' /\ lapsed \subseteq lapsed'
  BY NoneIsNothing DEF Typed, LocalTypes, TickMark, Lapse
<1>2. pc[h] \in Firing /\ pc'[h] \notin Firing \cup {"t_claim"}
  BY <1>1 DEF TickMark, Goto, End, Firing
<1>3. \A g \in Handlers \ {h} : pc[g] \in Firing => fireLock'[Slot(g)] = g /\ Slot(g) # Slot(h)
  BY <1>1, <1>2 DEF SlotInv, FireLocked
<1>4. ASSUME NEW s \in Slots, PayingRow(h, s) PROVE Over(s)' \/ s \in lapsed'
  <2>1. s = Slot(h) /\ pay[h].won > 0
    BY <1>4 DEF PayingRow
  <2>2. CASE fired' = fired \cup {Slot(h)}
    <3>1. fireLock'[s] # None
      BY <1>1, <1>2, <2>1 DEF SlotInv, FireLocked
    <3> QED BY <1>2, <1>3, <2>1, <2>2, <3>1 DEF Over, Others, Slot
  <2>3. CASE Lapse(Slot(h))
    BY <2>1, <2>3 DEF Lapse
  <2> QED BY <2>1, <2>2, <2>3 DEF TickMark
<1> QED BY <1>1, <1>2, <1>3, <1>4, SlotStays

LEMMA SlotStep ==
  ASSUME Typed, SlotInv, NEW h \in Handlers, WalletsStep(h)
  PROVE  SlotInv'
<1>1. Others(h) /\ pc \in [Handlers -> Labels]
  BY TypedStep DEF Local, Typed, LocalTypes
<1>2. (Firing \cup {"t_claim"}) \cap (SendSteps \cup {"s_unlane", "done", "u_put"}) = {}
  BY DEF Firing, SendSteps
<1>3. CASE ColdStep(h)
  BY <1>1, <1>3, ColdMoves, SlotFrame DEF Hot
<1>4. CASE SendHot(h)
  BY <1>1, <1>2, <1>4, SendMoves, SlotFrame
<1>5. CASE TickHot(h)
  BY <1>1, <1>5, RowPaid, FiringStep, ClaimStep, MarkStep DEF TickHot
<1>6. CASE Unlanes(h)
  <2>1. pc[h] \notin Firing \cup {"t_claim"} /\ UNCHANGED fireLock
    BY <1>6 DEF Unlanes, Unlane, Firing, ruleVars
  <2> QED BY <1>1, <1>2, <1>6, <2>1, OtherMoves, SlotFrame
<1>7. CASE UserLease(h)
  <2>1. /\ pc[h] = "u_lease" /\ pc'[h] = "u_put" /\ UNCHANGED <<fired, paid, lapsed>>
        /\ fireLock' = fireLock \/ \E s \in Slots : fireLock[s] = None /\ fireLock' = [fireLock EXCEPT ![s] = h]
    <3>1. seen[h].next \in Slots
      BY <1>7, RuleTypes DEF UserLease, Typed, Knows, HoldsRule
    <3> QED BY <1>1, <1>7, <3>1 DEF UserLease, Goto
  <2>2. fireLock \in [Slots -> Handlers \cup {None}] /\ None \notin Handlers
    BY NoneIsNothing DEF Typed, WalletStoreTypeOK
  <2>3. \A s \in Slots : fireLock'[s] = fireLock[s] \/ (fireLock[s] = None /\ fireLock'[s] # None)
    BY <2>1, <2>2
  <2>4. \A g \in Handlers : pc[g] \in Firing => fireLock[Slot(g)] = g /\ Slot(g) \in Slots
    BY RuleTypes DEF SlotInv, FireLocked, Typed, Knows, HoldsRule, Firing, Slot
  <2>5. pc[h] \notin Firing \cup {"t_claim"} /\ pc'[h] \notin Firing \cup {"t_claim"}
    BY <2>1 DEF Firing
  <2>6. \A s \in Slots : ~PayingRow(h, s)
    BY <2>1 DEF PayingRow
  <2>7. \A g \in Handlers \ {h} : pc[g] \in Firing => fireLock'[Slot(g)] = g
    BY <2>2, <2>3, <2>4
  <2> QED BY <1>1, <2>1, <2>3, <2>5, <2>6, <2>7, SlotStays
<1>8. CASE Crash(h)
  <2>1. pc'[h] = "done" /\ UNCHANGED <<fireLock, fired, paid>> /\ lapsed \subseteq lapsed'
    BY <1>1, <1>8 DEF Crash, End, ruleVars, Lapse
  <2>2. ASSUME NEW s \in Slots, PayingRow(h, s) PROVE s \in lapsed'
    BY <1>8, <2>2 DEF PayingRow, Crash, Lapse, Slot
  <2>3. \A g \in Handlers \ {h} : pc[g] \in Firing => fireLock'[Slot(g)] = g
    BY <2>1 DEF SlotInv, FireLocked
  <2>4. pc'[h] \notin Firing \cup {"t_claim"}
    BY <2>1 DEF Firing
  <2> QED BY <1>1, <2>1, <2>2, <2>3, <2>4, SlotStays
<1> QED BY <1>3, <1>4, <1>5, <1>6, <1>7, <1>8, Steps

\* Whatever fails, whoever dies and whichever lock runs out, a slot of the
\* rule is paid to each recipient once, unless a payment of it was made that
\* nobody could record.
THEOREM SlotsPaidOnce == WalletsSpec => []SlotPaidOnce
<1>1. WalletsInit => SlotInv
  <2> SUFFICES ASSUME WalletsInit PROVE SlotInv
    OBVIOUS
  <2>1. FireLocked
    BY DEF WalletsInit, HandlerInit, FireLocked, Firing
  <2>2. \A s \in Slots, i \in 1..Rows : paid[s][i] = 0
    BY DEF WalletsInit, StoreInit
  <2> QED BY <2>1, <2>2 DEF SlotInv, SlotSafe
<1>2. Typed /\ SlotInv /\ [WalletsNext]_walletsVars => SlotInv'
  <2> SUFFICES ASSUME Typed, SlotInv, [WalletsNext]_walletsVars PROVE SlotInv'
    OBVIOUS
  <2>1. CASE WalletsTime /\ UNCHANGED localVars
    <3>1. UNCHANGED <<fired, paid, lapsed, pc, seen, item, pay>>
      BY <2>1 DEF WalletsTime, ExpireLane, ExpireCreateLock, ExpireClaim, ExpireFireLock, GraceEnds, NextDay,
         LifecycleKeeps, ruleVars, localVars
    <3>2. \/ UNCHANGED fireLock
          \/ \E s \in Slots : ExpireFireLock(s)
      BY <2>1 DEF WalletsTime, ExpireLane, ExpireCreateLock, ExpireClaim, GraceEnds, NextDay, LifecycleKeeps, ruleVars
    <3>3. ASSUME NEW t \in Slots, ExpireFireLock(t) PROVE SlotInv'
      <4>1. fireLock \in [Slots -> Handlers \cup {None}] /\ fireLock' = [fireLock EXCEPT ![t] = None]
        BY <3>3 DEF ExpireFireLock, Typed, WalletStoreTypeOK
      <4>2. \A h \in Handlers : pc[h] \in Firing => fireLock[Slot(h)] = h /\ h # None /\ Running(h)
        BY NoneIsNothing DEF SlotInv, FireLocked, Firing, Running
      <4>3. \A h \in Handlers : pc[h] \in Firing => Slot(h) # t
        BY <3>3, <4>2 DEF ExpireFireLock, Holds
      <4>4. \A h \in Handlers : pc[h] \in Firing => fireLock'[Slot(h)] = h
        BY <4>1, <4>2, <4>3
      <4>5. FireLocked'
        BY <3>1, <4>4 DEF FireLocked, Slot
      <4>6. ASSUME NEW s \in Slots, Over(s) PROVE Over(s)'
        <5>1. \A h \in Handlers : pc[h] = "t_claim" /\ Slot(h) = s => s # t
          BY <3>3 DEF ExpireFireLock
        <5> QED BY <3>1, <4>1, <4>6, <5>1 DEF Over, Slot
      <4>7. \A s \in Slots, h \in Handlers : PayingRow(h, s) => PayingRow(h, s)'
        BY <3>1 DEF PayingRow, Slot
      <4> QED BY <3>1, <4>5, <4>6, <4>7 DEF SlotInv, SlotSafe
    <3> QED BY <3>1, <3>2, <3>3 DEF SlotInv, FireLocked, SlotSafe, Over, PayingRow, Slot
  <2>2. CASE UNCHANGED walletsVars
    BY <2>2 DEF SlotInv, FireLocked, SlotSafe, Over, PayingRow, Slot, walletsVars, localVars, storeVars, ruleVars
  <2> QED BY <2>1, <2>2, SlotStep DEF WalletsNext
<1>3. Typed /\ SlotInv => SlotPaidOnce
  <2> SUFFICES ASSUME Typed, SlotInv, NEW s \in Slots, NEW i \in 1..Rows, paid[s][i] > 1, s \notin lapsed
               PROVE FALSE
    BY DEF SlotPaidOnce
  <2>1. paid[s][i] \in Nat
    BY DEF Typed, WalletStoreTypeOK
  <2> QED BY <2>1 DEF SlotInv, SlotSafe
<1> QED BY <1>1, <1>2, <1>3, TypedInit, TypedNext, PTL DEF WalletsSpec
-----------------------------------------------------------------------------
(* A client key pays once *)

\* The claims and the markers move, and the payment of a key is still
\* accounted for.
LEMMA KeyStays ==
  ASSUME Typed, KeyInv, NEW h \in Handlers, Others(h), sent' = sent, settled \subseteq settled', lapsed \subseteq lapsed',
         \A g \in Handlers \ {h} : pc[g] \in Claiming => claim'[item[g]] = g,
         pc'[h] \in Claiming => claim'[item'[h]] = h,
         \A i \in Keyed : Replayed(i) =>
           /\ claim'[i] = claim[i] \/ claim'[i] # None
           /\ pc'[h] \in Claiming \cup {"s_claim"} => item'[h] # i,
         \A i \in Keyed : Marking(h, i) => Replayed(i)' \/ i \in lapsed'
  PROVE  KeyInv'
<1>1. ClaimHeld'
  BY DEF ClaimHeld, Others
<1>2. ASSUME NEW i \in Keyed PROVE KeySafe(i)'
  <2>1. Replayed(i) => Replayed(i)'
    BY DEF Replayed, Others
  <2>2. ASSUME NEW g \in Handlers \ {h}, Marking(g, i) PROVE Marking(g, i)'
    BY <2>2 DEF Marking, Others
  <2> QED BY <2>1, <2>2 DEF KeyInv, KeySafe
<1> QED BY <1>1, <1>2 DEF KeyInv

\* Whatever is not about claims.
LEMMA KeyFrame ==
  ASSUME Typed, KeyInv, NEW h \in Handlers, Others(h),
         pc[h] \notin Claiming, pc'[h] \notin Claiming \cup {"s_claim"},
         UNCHANGED sendVars, lapsed \subseteq lapsed'
  PROVE  KeyInv'
<1>1. \A i \in Keyed : ~Marking(h, i)
  BY DEF Marking, Claiming
<1>2. UNCHANGED <<claim, settled, sent>>
  BY DEF sendVars
<1>3. \A g \in Handlers \ {h} : pc[g] \in Claiming => claim'[item[g]] = g
  BY <1>2 DEF KeyInv, ClaimHeld
<1> QED BY <1>1, <1>2, <1>3, KeyStays

\* A send up to its claim, and one that holds it and neither pays, marks nor
\* gives it back.
LEMMA HoldingStep ==
  ASSUME Typed, KeyInv, NEW h \in Handlers, Others(h),
         \/ SendWallet(h) \/ SendGuard(h) \/ SendCharge(h) \/ SendLane(h) \/ SendGate(h) \/ SendFail(h) \/ SendRefund(h)
  PROVE  KeyInv'
<1>1. pc \in [Handlers -> Labels] /\ UNCHANGED <<claim, settled, sent, lapsed>>
  BY DEF Typed, LocalTypes, SendWallet, SendGuard, SendCharge, SendLane, SendGate, SendFail, SendRefund, storeVars,
     sendVars
<1>2. \A g \in Handlers \ {h} : pc[g] \in Claiming => claim'[item[g]] = g
  BY <1>1 DEF KeyInv, ClaimHeld
<1>3. \A i \in Keyed : ~Marking(h, i)
  BY DEF Marking, SendWallet, SendGuard, SendCharge, SendLane, SendGate, SendFail, SendRefund
<1>4. CASE SendWallet(h) \/ SendGuard(h)
  <2>1. /\ pc[h] \in {"s_wallet", "s_guard"} /\ pc'[h] \notin Claiming
        /\ pc'[h] = "s_claim" => item' = item /\ item[h] \notin Keyed \cap settled
    BY <1>1, <1>4 DEF SendWallet, SendGuard, Goto, End, Claiming
  <2>2. \A i \in Keyed : Replayed(i) => (pc'[h] \in Claiming \cup {"s_claim"} => item'[h] # i)
    BY <2>1 DEF Replayed
  <2> QED BY <1>1, <1>2, <1>3, <2>1, <2>2, KeyStays
<1>5. CASE SendCharge(h) \/ SendLane(h) \/ SendGate(h) \/ SendFail(h) \/ SendRefund(h)
  <2>1. /\ pc[h] \in Claiming /\ pc'[h] # "s_claim"
        /\ pc'[h] \in Claiming => item' = item
    BY <1>1, <1>5 DEF SendCharge, SendLane, SendGate, SendFail, SendRefund, Goto, End, Claiming
  <2>2. pc'[h] \in Claiming => claim'[item'[h]] = h
    BY <1>1, <2>1 DEF KeyInv, ClaimHeld
  <2>3. \A i \in Keyed : Replayed(i) => (pc'[h] \in Claiming \cup {"s_claim"} => item'[h] # i)
    BY <2>1 DEF Replayed
  <2> QED BY <1>1, <1>2, <1>3, <2>2, <2>3, KeyStays
<1> QED BY <1>4, <1>5

\* The claim is taken from nobody, and given back by its holder.
LEMMA ClaimingStep ==
  ASSUME Typed, KeyInv, NEW h \in Handlers, Others(h), SendClaim(h) \/ SendFree(h)
  PROVE  KeyInv'
<1>1. /\ pc \in [Handlers -> Labels] /\ claim \in [Intents -> Handlers \cup {None}] /\ None \notin Handlers
      /\ UNCHANGED <<settled, sent, lapsed>> /\ Keyed \subseteq Intents
  BY NoneIsNothing DEF Typed, LocalTypes, WalletStoreTypeOK, SendClaim, SendFree
<1>2. pc[h] \in {"s_claim", "s_free"} /\ item[h] \in Intents
  <2>1. pc[h] \in {"s_claim", "s_free"}
    BY DEF SendClaim, SendFree
  <2> QED BY <2>1 DEF Typed, Knows, SendSteps
<1>3. \A i \in Keyed : ~Marking(h, i)
  BY <1>2 DEF Marking
<1>4. \A g \in Handlers : pc[g] \in Claiming => item[g] \in Intents /\ claim[item[g]] = g
  BY DEF KeyInv, ClaimHeld, Typed, Knows, Claiming, SendSteps
<1>5. CASE claim' = claim
  <2>1. pc'[h] \notin Claiming \cup {"s_claim"}
    BY <1>1, <1>2, <1>5 DEF SendClaim, SendFree, Goto, End, Claiming
  <2> QED BY <1>1, <1>3, <1>4, <1>5, <2>1, KeyStays
<1>6. CASE SendClaim(h) /\ claim' # claim
  <2>1. /\ pc[h] = "s_claim" /\ claim[item[h]] = None /\ claim' = [claim EXCEPT ![item[h]] = h]
        /\ pc'[h] = "s_charge" /\ item' = item
    BY <1>1, <1>6 DEF SendClaim, Goto
  <2>2. \A g \in Handlers \ {h} : pc[g] \in Claiming => claim'[item[g]] = g
    BY <1>1, <1>4, <2>1
  <2>3. claim'[item'[h]] = h
    BY <1>1, <1>2, <2>1
  <2>4. \A i \in Keyed : Replayed(i) => i # item[h]
    BY <2>1 DEF Replayed
  <2>5. \A i \in Keyed : Replayed(i) => claim'[i] = claim[i] /\ item'[h] # i
    BY <1>1, <2>1, <2>4
  <2> QED BY <1>1, <1>3, <2>2, <2>3, <2>5, KeyStays
<1>7. CASE SendFree(h) /\ claim' # claim
  <2>1. /\ pc[h] \in Claiming /\ pc'[h] \notin Claiming \cup {"s_claim"}
        /\ claim' = [claim EXCEPT ![item[h]] = None]
    BY <1>1, <1>7 DEF SendFree, Goto, Claiming
  <2>2. \A g \in Handlers \ {h} : pc[g] \in Claiming => claim'[item[g]] = g
    BY <1>1, <1>4, <2>1
  <2>3. \A i \in Keyed : Replayed(i) => claim'[i] = claim[i]
    BY <1>1, <2>1 DEF Replayed
  <2> QED BY <1>1, <1>3, <2>1, <2>2, <2>3, KeyStays
<1> QED BY <1>5, <1>6, <1>7

\* The call of the relay: nobody else is after the same payment.
LEMMA RelayPaid ==
  ASSUME Typed, KeyInv, NEW h \in Handlers, Others(h), SendRelay(h)
  PROVE  KeyInv'
<1>1. /\ pc[h] = "s_relay" /\ UNCHANGED <<item, claim, settled>> /\ pc \in [Handlers -> Labels]
      /\ item[h] \in Intents /\ sent \in [Intents -> Nat] /\ Keyed \subseteq Intents
  BY NoneIsNothing DEF SendRelay, Typed, LocalTypes, Knows, SendSteps, WalletStoreTypeOK
<1>2. pay[h].row = 0 /\ pay[h].won = 0 /\ Rows \in Nat \ {0}
  BY <1>1, PayTypes, NoneIsNothing DEF Typed, Knows, Unpaid
<1>3. PICK a \in Answers :
        /\ Tally(h, a)
        /\ pc' = [pc EXCEPT ![h] = IF a.says = "yes" THEN "s_mark" ELSE "s_fail"]
        /\ IF a.settles THEN sent' = [sent EXCEPT ![item[h]] = @ + 1] /\ Settle(h)
           ELSE UNCHANGED <<sent, onDay>>
        /\ IF a.settles /\ a.says # "yes" THEN Lapse(item[h]) ELSE UNCHANGED lapsed
  BY DEF SendRelay
<1>4. pay'[h].won = pay[h].won + (IF a.settles THEN 1 ELSE 0)
  BY <1>3 DEF Tally, Typed, LocalTypes, Payment, Count
<1>5. pc'[h] \in Claiming /\ pc[h] \in Claiming /\ lapsed \subseteq lapsed'
  BY <1>1, <1>3 DEF Claiming, Lapse
<1>6. ClaimHeld'
  BY <1>1, <1>5 DEF KeyInv, ClaimHeld, Others
<1>7. ASSUME NEW i \in Keyed, i # item[h] PROVE KeySafe(i)'
  <2>1. sent'[i] = sent[i]
    BY <1>1, <1>3, <1>7
  <2>2. Replayed(i) => Replayed(i)'
    BY <1>1, <1>3, <1>7 DEF Replayed, Others
  <2>3. ASSUME NEW g \in Handlers, Marking(g, i) PROVE Marking(g, i)'
    BY <1>1, <1>7, <2>3 DEF Marking, Others
  <2> QED BY <1>5, <2>1, <2>2, <2>3 DEF KeyInv, KeySafe
<1>8. ASSUME NEW i \in Keyed, i = item[h] PROVE KeySafe(i)'
  <2>1. ~Replayed(i)
    BY <1>5, <1>8 DEF Replayed
  <2>2. \A g \in Handlers : ~Marking(g, i)
    BY <1>1, <1>5, <1>8 DEF Marking, KeyInv, ClaimHeld, Claiming
  <2>3. i \in lapsed \/ sent[i] = 0
    BY <2>1, <2>2 DEF KeyInv, KeySafe
  <2>4. CASE i \in lapsed
    BY <1>5, <2>4 DEF KeySafe
  <2>5. CASE sent[i] = 0 /\ ~a.settles
    BY <1>3, <2>5 DEF KeySafe
  <2>6. CASE sent[i] = 0 /\ a.settles
    <3>1. sent'[i] = 1
      BY <1>1, <1>3, <1>8, <2>6
    <3>2. CASE a.says = "yes"
      <4>1. Marking(h, i)'
        BY <1>1, <1>2, <1>3, <1>4, <1>8, <2>6, <3>2 DEF Marking
      <4> QED BY <3>1, <4>1 DEF KeySafe
    <3>3. CASE a.says # "yes"
      BY <1>3, <1>8, <2>6, <3>3 DEF Lapse, KeySafe
    <3> QED BY <3>2, <3>3
  <2> QED BY <2>3, <2>4, <2>5, <2>6
<1> QED BY <1>6, <1>7, <1>8 DEF KeyInv

LEMMA MarkerStep ==
  ASSUME Typed, KeyInv, NEW h \in Handlers, Others(h), SendMark(h)
  PROVE  KeyInv'
<1>1. /\ pc[h] = "s_mark" /\ pc'[h] = "s_unlane" /\ UNCHANGED <<claim, sent>> /\ None \notin Handlers
      /\ settled \subseteq settled' /\ lapsed \subseteq lapsed'
  BY NoneIsNothing DEF SendMark, Goto, Typed, LocalTypes, Lapse
<1>2. pc[h] \in Claiming /\ pc'[h] \notin Claiming \cup {"s_claim"}
  BY <1>1 DEF Claiming
<1>3. \A g \in Handlers : pc[g] \in Claiming => claim[item[g]] = g
  BY DEF KeyInv, ClaimHeld
<1>4. ASSUME NEW i \in Keyed, Marking(h, i) PROVE Replayed(i)' \/ i \in lapsed'
  <2>1. i = item[h]
    BY <1>4 DEF Marking
  <2>2. CASE settled' = settled \cup ({item[h]} \cap Keyed)
    BY <1>1, <1>2, <1>3, <2>1, <2>2 DEF Replayed, Others
  <2>3. CASE Lapse(item[h])
    BY <2>1, <2>3 DEF Lapse
  <2> QED BY <2>2, <2>3 DEF SendMark
<1> QED BY <1>1, <1>2, <1>3, <1>4, KeyStays

LEMMA KeyStep ==
  ASSUME Typed, KeyInv, NEW h \in Handlers, WalletsStep(h)
  PROVE  KeyInv'
<1>1. Others(h) /\ pc \in [Handlers -> Labels]
  BY TypedStep DEF Local, Typed, LocalTypes
<1>2. Claiming \cup {"s_claim"} \subseteq SendSteps
      /\ (Claiming \cup {"s_claim"}) \cap (Firing \cup {"t_marker", "t_claim", "u_lease", "u_put", "done"}) = {}
  BY DEF Firing, Claiming, SendSteps
<1>3. CASE ColdStep(h)
  BY <1>1, <1>3, ColdMoves, KeyFrame DEF Hot
<1>4. CASE SendHot(h)
  BY <1>1, <1>4, HoldingStep, ClaimingStep, RelayPaid, MarkerStep DEF SendHot
<1>5. CASE TickHot(h)
  BY <1>1, <1>2, <1>5, TickMoves, KeyFrame
<1>6. CASE UserLease(h) \/ Unlanes(h)
  <2>1. pc[h] \notin Claiming
    BY <1>6 DEF UserLease, Unlanes, Unlane, Claiming
  <2>2. pc'[h] \notin Claiming \cup {"s_claim"}
    BY <1>2, <1>6, OtherMoves
  <2> QED BY <1>1, <1>6, <2>1, <2>2, OtherMoves, KeyFrame
<1>7. CASE Crash(h)
  <2>1. pc'[h] = "done" /\ UNCHANGED <<claim, settled, sent>> /\ lapsed \subseteq lapsed'
    BY <1>1, <1>7 DEF Crash, End, sendVars, Lapse
  <2>2. ASSUME NEW i \in Keyed, Marking(h, i) PROVE i \in lapsed'
    BY <1>7, <2>2 DEF Marking, Crash, Lapse
  <2>3. \A g \in Handlers \ {h} : pc[g] \in Claiming => claim'[item[g]] = g
    BY <2>1 DEF KeyInv, ClaimHeld
  <2>4. pc'[h] \notin Claiming \cup {"s_claim"}
    BY <2>1 DEF Claiming
  <2> QED BY <1>1, <2>1, <2>2, <2>3, <2>4, KeyStays
<1> QED BY <1>3, <1>4, <1>5, <1>6, <1>7, Steps

\* Whatever fails, whoever dies and however often the client repeats itself, a
\* payment under a key of the client is made once, unless it was made and no
\* marker could tell.
THEOREM KeysPaidOnce == WalletsSpec => []KeyPaidOnce
<1>1. WalletsInit => KeyInv
  <2> SUFFICES ASSUME WalletsInit PROVE KeyInv
    OBVIOUS
  <2>1. ClaimHeld
    BY DEF WalletsInit, HandlerInit, ClaimHeld, Claiming
  <2>2. \A i \in Keyed : sent[i] = 0
    BY NoneIsNothing DEF WalletsInit, StoreInit
  <2> QED BY <2>1, <2>2 DEF KeyInv, KeySafe
<1>2. Typed /\ KeyInv /\ [WalletsNext]_walletsVars => KeyInv'
  <2> SUFFICES ASSUME Typed, KeyInv, [WalletsNext]_walletsVars PROVE KeyInv'
    OBVIOUS
  <2>1. CASE WalletsTime /\ UNCHANGED localVars
    <3>1. UNCHANGED <<settled, sent, lapsed, pc, seen, item, pay>>
      BY <2>1 DEF WalletsTime, ExpireLane, ExpireCreateLock, ExpireClaim, ExpireFireLock, GraceEnds, NextDay,
         LifecycleKeeps, sendVars, localVars
    <3>2. \/ UNCHANGED claim
          \/ \E i \in Intents : ExpireClaim(i)
      BY <2>1 DEF WalletsTime, ExpireLane, ExpireCreateLock, ExpireFireLock, GraceEnds, NextDay, LifecycleKeeps, sendVars
    <3>3. ASSUME NEW t \in Intents, ExpireClaim(t) PROVE KeyInv'
      <4>1. claim \in [Intents -> Handlers \cup {None}] /\ claim' = [claim EXCEPT ![t] = None] /\ Keyed \subseteq Intents
        BY <3>3, NoneIsNothing DEF ExpireClaim, Typed, WalletStoreTypeOK
      <4>2. \A h \in Handlers : pc[h] \in Claiming => claim[item[h]] = h /\ h # None /\ Running(h)
        BY NoneIsNothing DEF KeyInv, ClaimHeld, Claiming, Running
      <4>3. \A h \in Handlers : pc[h] \in Claiming => item[h] # t
        BY <3>3, <4>2 DEF ExpireClaim, Holds
      <4>4. ClaimHeld'
        BY <3>1, <4>1, <4>2, <4>3 DEF ClaimHeld
      <4>5. ASSUME NEW i \in Keyed, Replayed(i) PROVE Replayed(i)'
        <5>1. \A h \in Handlers : pc[h] = "s_claim" /\ item[h] = i => i # t
          BY <3>3 DEF ExpireClaim
        <5> QED BY <3>1, <4>1, <4>5, <5>1 DEF Replayed
      <4>6. \A i \in Keyed, h \in Handlers : Marking(h, i) => Marking(h, i)'
        BY <3>1 DEF Marking
      <4> QED BY <3>1, <4>4, <4>5, <4>6 DEF KeyInv, KeySafe
    <3> QED BY <3>1, <3>2, <3>3 DEF KeyInv, ClaimHeld, KeySafe, Replayed, Marking
  <2>2. CASE UNCHANGED walletsVars
    BY <2>2 DEF KeyInv, ClaimHeld, KeySafe, Replayed, Marking, walletsVars, localVars, storeVars, sendVars
  <2> QED BY <2>1, <2>2, KeyStep DEF WalletsNext
<1>3. KeyInv => KeyPaidOnce
  BY NoneIsNothing DEF KeyInv, KeySafe, KeyPaidOnce
<1> QED BY <1>1, <1>2, <1>3, TypedInit, TypedNext, PTL DEF WalletsSpec
=============================================================================
