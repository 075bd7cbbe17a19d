------------------------- MODULE WalletRecordProofs -------------------------
(***************************************************************************)
(* Proofs about the budget of a day and about the keys and the number of   *)
(* wallets, for any sets of invocations, wallets and payments.             *)
(*                                                                         *)
(* The budget: the units a charge reserved and the relay has not settled   *)
(* yet are open, and what is settled and open together stays within the    *)
(* limit and within the counter, but for the refunds counted in slack      *)
(* (BudgetInv).                                                            *)
(*                                                                         *)
(* The keys: what the record of its wallet is like while an invocation is  *)
(* about to write, destroy or create it, so that nobody brings back to use *)
(* what the cron is about to destroy (GraceInv).  It needs that no wallet  *)
(* is restored: with a restore among them it is false.                     *)
(*                                                                         *)
(* The limit on wallets: the wallets that count only become fewer while a  *)
(* creation holds the lock, and the list it is about to write has room for *)
(* the one it adds (CapInv, relative to GraceInv).                         *)
(***************************************************************************)
EXTENDS WalletsProofs, FiniteSetTheorems

-----------------------------------------------------------------------------
(* The budget of a day *)

\* Where an invocation still owns what it charged, and how much that was.
SendCharged == {"s_lane", "s_relay", "s_refund", "s_fail"}
TickCharged == {"t_marker", "t_claim", "t_fresh", "t_lane", "t_last", "t_row", "t_free", "t_back",
                "t_undo", "t_unpay", "t_lapsed", "t_again", "t_fired"}
Size(l) == IF l \in SendCharged THEN 1 ELSE IF l \in TickCharged THEN Rows ELSE 0

\* The units charged to day d, by invocation and number, that are not settled.
Owes(h, d, i) == pay[h].day = d /\ pay[h].won < i /\ i <= Size(pc[h])
Open(d) == {t \in Handlers \X (1..Rows) : Owes(t[1], d, t[2])}

Books(d) ==
  /\ IsFiniteSet(Open(d))
  /\ onDay[d] + Cardinality(Open(d)) <= Limit + slack[d]
  /\ onDay[d] + Cardinality(Open(d)) <= spent[d] + slack[d]

BudgetInv == /\ \A d \in Days : Books(d)
             /\ \A h \in Handlers : /\ pc[h] = "s_refund" => pay[h].won = 0
                                    /\ pc[h] = "s_fail" => pay[h].won <= 1

LEMMA OpenIs ==
  ASSUME NEW d
  PROVE  /\ Open(d) \subseteq Handlers \X (1..Rows)
         /\ \A h \in Handlers, i \in 1..Rows : <<h, i>> \in Open(d) <=> Owes(h, d, i)
         /\ \A t \in Open(d) : t = <<t[1], t[2]>> /\ t[1] \in Handlers /\ t[2] \in 1..Rows
BY DEF Open

LEMMA SizeIs == \A l : Size(l) \in 0..Rows /\ (l \notin SendCharged \cup TickCharged => Size(l) = 0)
BY NoneIsNothing DEF Size

LEMMA BookTypes ==
  ASSUME Typed, NEW d \in Days
  PROVE  /\ onDay[d] \in Nat /\ slack[d] \in Nat /\ spent[d] \in Int /\ Limit \in Nat /\ Rows \in Nat
         /\ clock \in Days /\ spent \in [Days -> Int] /\ slack \in [Days -> Nat] /\ onDay \in [Days -> Nat]
         /\ IsFiniteSet(Open(d)) => Cardinality(Open(d)) \in Nat
BY NoneIsNothing, FS_CardinalityType DEF Typed, WalletStoreTypeOK

\* Nobody but h opens or closes a unit.
LEMMA OthersOwe ==
  ASSUME NEW h \in Handlers, Others(h), NEW q \in Handlers \ {h}, NEW d, NEW i
  PROVE  Owes(q, d, i)' <=> Owes(q, d, i)
BY DEF Others, Owes

LEMMA OpenShrinks ==
  ASSUME NEW h \in Handlers, Others(h), NEW d,
         \A i \in 1..Rows : Owes(h, d, i)' => Owes(h, d, i)
  PROVE  Open(d)' \subseteq Open(d)
BY OthersOwe DEF Open

\* A step that opens no unit, and takes nothing off the counter.
LEMMA Shrinks ==
  ASSUME Typed, Typed', NEW h \in Handlers, Others(h), NEW d \in Days, Books(d),
         \A i \in 1..Rows : Owes(h, d, i)' => Owes(h, d, i),
         onDay'[d] = onDay[d], slack'[d] >= slack[d], spent'[d] + slack'[d] >= spent[d] + slack[d]
  PROVE  Books(d)'
<1>1. Open(d)' \subseteq Open(d)
  BY OpenShrinks
<1>2. IsFiniteSet(Open(d)') /\ Cardinality(Open(d)') <= Cardinality(Open(d))
  BY <1>1, FS_Subset DEF Books
<1>3. /\ Cardinality(Open(d)) \in Nat /\ Cardinality(Open(d)') \in Nat
      /\ onDay[d] \in Nat /\ slack[d] \in Nat /\ spent[d] \in Int /\ Limit \in Nat
      /\ slack'[d] \in Nat /\ spent'[d] \in Int
  BY <1>2, BookTypes, FS_CardinalityType DEF Books, Typed, WalletStoreTypeOK
<1> QED BY <1>2, <1>3 DEF Books

\* One unit is settled.
LEMMA SettlesOne ==
  ASSUME Typed, Typed', NEW h \in Handlers, Others(h), NEW d \in Days, Books(d),
         \A i \in 1..Rows : Owes(h, d, i)' => Owes(h, d, i),
         NEW j \in 1..Rows, Owes(h, d, j), ~Owes(h, d, j)',
         onDay'[d] = onDay[d] + 1, slack'[d] = slack[d], spent'[d] = spent[d]
  PROVE  Books(d)'
<1> DEFINE S == Open(d) \ {<<h, j>>}
<1>1. Open(d)' \subseteq Open(d) /\ <<h, j>> \in Open(d) /\ <<h, j>> \notin Open(d)'
  BY OpenShrinks DEF Open
<1>2. Open(d)' \subseteq S
  BY <1>1
<1>3. IsFiniteSet(S) /\ Cardinality(S) = Cardinality(Open(d)) - 1
  BY <1>1, FS_RemoveElement DEF Books
<1> HIDE DEF S
<1>4. IsFiniteSet(Open(d)') /\ Cardinality(Open(d)') <= Cardinality(S)
  BY <1>2, <1>3, FS_Subset
<1>5. /\ Cardinality(Open(d)) \in Nat /\ Cardinality(Open(d)') \in Nat
      /\ onDay[d] \in Nat /\ slack[d] \in Nat /\ spent[d] \in Int /\ Limit \in Nat
  BY <1>4, BookTypes, FS_CardinalityType DEF Books
<1> QED BY <1>3, <1>4, <1>5 DEF Books

\* A numbered run of units of one invocation.
Run(h, m, n) == {h} \X (m..n)

LEMMA RunSize ==
  ASSUME NEW h, NEW m \in Nat, NEW n \in Nat, m <= n + 1
  PROVE  IsFiniteSet(Run(h, m, n)) /\ Cardinality(Run(h, m, n)) = n - m + 1
<1>1. IsFiniteSet({h}) /\ Cardinality({h}) = 1
  BY FS_Singleton
<1>2. IsFiniteSet(m..n) /\ Cardinality(m..n) = n - m + 1
  BY FS_Interval
<1> DEFINE A == {h}
           B == m..n
<1>3. IsFiniteSet(A) /\ IsFiniteSet(B) /\ Cardinality(A) = 1 /\ Cardinality(B) = n - m + 1
  BY <1>1, <1>2
<1> HIDE DEF A, B
<1>4. IsFiniteSet(A \X B) /\ Cardinality(A \X B) = Cardinality(A) * Cardinality(B)
  BY <1>3, FS_Product
<1>5. Cardinality(A \X B) = n - m + 1
  BY <1>3, <1>4
<1> QED BY <1>4, <1>5 DEF Run, A, B

\* A charge opens its units.
LEMMA Opens ==
  ASSUME Typed, Typed', NEW h \in Handlers, Others(h), NEW d \in Days, Books(d), NEW n \in 1..Rows,
         \A i \in 1..Rows : Owes(h, d, i)' => i <= n,
         onDay'[d] = onDay[d], slack'[d] = slack[d], spent'[d] = spent[d] + n, spent'[d] <= Limit
  PROVE  Books(d)'
<1> DEFINE R == Run(h, 1, n)
           S == Open(d) \cup R
<1>1. IsFiniteSet(R) /\ Cardinality(R) = n
  BY RunSize
<1>2. ASSUME NEW t \in Open(d)' PROVE t \in S
  <2>1. PICK q \in Handlers, i \in 1..Rows : t = <<q, i>> /\ Owes(q, d, i)'
    BY <1>2 DEF Open
  <2>2. CASE q = h
    BY <2>1, <2>2 DEF Run
  <2>3. CASE q # h
    BY <2>1, <2>3, OthersOwe DEF Open
  <2> QED BY <2>2, <2>3
<1> HIDE DEF R, S
<1>3. /\ IsFiniteSet(S) /\ Cardinality(S) = Cardinality(Open(d)) + Cardinality(R) - Cardinality(Open(d) \cap R)
  BY <1>1, FS_Union DEF Books, S
<1>4. Cardinality(Open(d) \cap R) \in Nat /\ Cardinality(Open(d)) \in Nat /\ Cardinality(S) \in Nat
  BY <1>1, <1>3, FS_Intersection, FS_CardinalityType DEF Books
<1>5. IsFiniteSet(Open(d)') /\ Cardinality(Open(d)') <= Cardinality(S)
  BY <1>2, <1>3, FS_Subset
<1>6. /\ Cardinality(Open(d)') \in Nat
      /\ onDay[d] \in Nat /\ slack[d] \in Nat /\ spent[d] \in Int /\ Limit \in Nat
  BY <1>5, BookTypes, FS_CardinalityType
<1> QED BY <1>1, <1>3, <1>4, <1>5, <1>6 DEF Books

\* A refund closes what its invocation has open, and gives more back only on
\* the account of slack.
LEMMA Closes ==
  ASSUME Typed, Typed', NEW h \in Handlers, Others(h), NEW d \in Days, Books(d), pay[h].day = d,
         NEW n \in 1..Rows, Size(pc[h]) = n, pay[h].won <= n, NEW k \in Nat, k >= n - pay[h].won,
         \A i \in 1..Rows : ~Owes(h, d, i)',
         onDay'[d] = onDay[d], spent'[d] = spent[d] - k, slack'[d] = slack[d] + (k - (n - pay[h].won))
  PROVE  Books(d)'
<1> DEFINE R == Run(h, pay[h].won + 1, n)
           S == Open(d) \ R
<1>1. pay[h].won \in Nat
  BY PayTypes
<1>2. IsFiniteSet(R) /\ Cardinality(R) = n - pay[h].won
  BY <1>1, RunSize
<1>3. R \subseteq Open(d)
  <2>1. ASSUME NEW i \in (pay[h].won + 1)..n PROVE <<h, i>> \in Open(d)
    <3>1. i \in 1..Rows /\ pay[h].won < i /\ i <= n
      BY <1>1, <2>1, NoneIsNothing
    <3> QED BY <3>1, OpenIs DEF Owes
  <2> QED BY <2>1 DEF Run
<1>4. ASSUME NEW t \in Open(d)' PROVE t \in S
  <2>1. PICK q \in Handlers, i \in 1..Rows : t = <<q, i>> /\ Owes(q, d, i)'
    BY <1>4 DEF Open
  <2>2. q # h
    BY <2>1
  <2> QED BY <2>1, <2>2, OthersOwe DEF Open, Run
<1> HIDE DEF R
<1>5. Open(d) \cap R = R
  BY <1>3
<1>6. IsFiniteSet(S) /\ Cardinality(S) = Cardinality(Open(d)) - (n - pay[h].won)
  <2>1. IsFiniteSet(S) /\ Cardinality(S) = Cardinality(Open(d)) - Cardinality(Open(d) \cap R)
    BY FS_Difference DEF Books
  <2> QED BY <1>2, <1>5, <2>1
<1> HIDE DEF S
<1>7. IsFiniteSet(Open(d)') /\ Cardinality(Open(d)') <= Cardinality(S)
  BY <1>4, <1>6, FS_Subset
<1>8. /\ Cardinality(Open(d)') \in Nat /\ Cardinality(Open(d)) \in Nat
      /\ onDay[d] \in Nat /\ slack[d] \in Nat /\ spent[d] \in Int /\ Limit \in Nat
  BY <1>7, BookTypes, FS_CardinalityType DEF Books
<1> QED BY <1>1, <1>6, <1>7, <1>8 DEF Books

\* A step that moves no money: it leaves the charge with the invocation, or
\* with nobody.
Calm(h) ==
  /\ UNCHANGED <<spent, slack, onDay>>
  /\ \/ pc'[h] \notin SendCharged \cup TickCharged
     \/ pc[h] \in SendCharged /\ pc'[h] \in SendCharged /\ pay' = pay
     \/ pc[h] \in TickCharged /\ pc'[h] \in TickCharged /\ pay' = pay
  /\ pc'[h] = "s_refund" => pc[h] \in {"s_lane", "s_relay"} /\ pay' = pay
  /\ pc'[h] # "s_fail"

\* Nothing was paid at a step before the first call of the relay.
LEMMA UnpaidWonNothing ==
  ASSUME Typed, NEW h \in Handlers, pc[h] \in Unpaid
  PROVE  pay[h].won = 0 /\ pay[h].row = 0 /\ pay[h].ok = 0
BY PayTypes DEF Typed, Knows

\* The rest of the invariant is about the others, or about h at two steps.
LEMMA BooksAreAll ==
  ASSUME BudgetInv, NEW h \in Handlers, Others(h),
         \A d \in Days : Books(d)', pc'[h] = "s_refund" => pay'[h].won = 0,
         pc'[h] = "s_fail" => pay'[h].won <= 1
  PROVE  BudgetInv'
BY DEF BudgetInv, Others

LEMMA CalmBooks ==
  ASSUME Typed, Typed', BudgetInv, NEW h \in Handlers, Others(h), Calm(h)
  PROVE  BudgetInv'
<1>1. ASSUME NEW d \in Days, NEW i \in 1..Rows, Owes(h, d, i)' PROVE Owes(h, d, i)
  <2>1. i <= Size(pc'[h]) /\ pay'[h].day = d /\ pay'[h].won < i
    BY <1>1 DEF Owes
  <2>2. pc'[h] \in SendCharged \cup TickCharged
    BY <2>1, SizeIs
  <2>3. Size(pc'[h]) = Size(pc[h]) /\ pay' = pay
    BY <2>2 DEF Calm, Size, SendCharged, TickCharged
  <2> QED BY <2>1, <2>3 DEF Owes
<1>2. ASSUME NEW d \in Days PROVE Books(d)'
  <2>1. /\ onDay'[d] = onDay[d] /\ slack'[d] >= slack[d] /\ spent'[d] + slack'[d] >= spent[d] + slack[d]
    BY BookTypes DEF Calm
  <2> QED BY <1>1, <2>1, Shrinks DEF BudgetInv
<1>3. pc'[h] = "s_refund" => pay'[h].won = 0
  BY UnpaidWonNothing DEF Calm, Unpaid
<1> QED BY <1>2, <1>3, BooksAreAll DEF Calm

-----------------------------------------------------------------------------
(* Which steps move no money *)

LEMMA SendCalm ==
  ASSUME Typed, NEW h \in Handlers,
         \/ SendWallet(h) \/ SendGuard(h) \/ SendClaim(h) \/ SendLane(h) \/ SendGate(h)
         \/ SendMark(h) \/ SendFree(h)
  PROVE  Calm(h)
<1>1. pc \in [Handlers -> Labels]
  BY DEF Typed, LocalTypes
<1>2. CASE SendWallet(h) \/ SendGuard(h) \/ SendGate(h)
  BY <1>1, <1>2 DEF SendWallet, SendGuard, SendGate, Goto, End, Calm, SendCharged, TickCharged, storeVars, budgetVars
<1>3. CASE SendClaim(h) \/ SendMark(h)
  BY <1>1, <1>3 DEF SendClaim, SendMark, Goto, End, Calm, SendCharged, TickCharged, budgetVars
<1>4. CASE SendLane(h) \/ SendFree(h)
  BY <1>1, <1>4 DEF SendLane, SendFree, Goto, End, Calm, SendCharged, TickCharged, budgetVars
<1> QED BY <1>2, <1>3, <1>4

LEMMA TickCalm ==
  ASSUME Typed, NEW h \in Handlers,
         \/ TickMarker(h) \/ TickClaim(h) \/ TickFresh(h) \/ TickLane(h) \/ TickLast(h)
         \/ TickFree(h, "t_free", "t_back") \/ TickFree(h, "t_undo", "t_unpay")
         \/ TickMark(h, "t_mark", "t_read") \/ TickMark(h, "t_doubt", "t_retry")
  PROVE  Calm(h)
<1>1. pc \in [Handlers -> Labels]
  BY DEF Typed, LocalTypes
<1>2. CASE TickMarker(h) \/ TickFresh(h) \/ TickLast(h)
  BY <1>1, <1>2 DEF TickMarker, TickFresh, TickLast, Goto, End, Calm, SendCharged, TickCharged, storeVars, budgetVars
<1>3. CASE TickClaim(h) \/ TickLane(h)
  BY <1>1, <1>3 DEF TickClaim, TickLane, Goto, End, Calm, SendCharged, TickCharged, budgetVars
<1>4. CASE TickFree(h, "t_free", "t_back") \/ TickFree(h, "t_undo", "t_unpay")
  BY <1>1, <1>4 DEF TickFree, Goto, End, Calm, SendCharged, TickCharged, budgetVars
<1>5. CASE TickMark(h, "t_mark", "t_read") \/ TickMark(h, "t_doubt", "t_retry")
  BY <1>1, <1>5 DEF TickMark, Goto, End, Calm, SendCharged, TickCharged, budgetVars
<1> QED BY <1>2, <1>3, <1>4, <1>5

LEMMA OtherCalm ==
  ASSUME Typed, NEW h \in Handlers, UserLease(h) \/ Unlanes(h) \/ Crash(h)
  PROVE  Calm(h)
<1>1. pc \in [Handlers -> Labels]
  BY DEF Typed, LocalTypes
<1>2. CASE UserLease(h)
  BY <1>1, <1>2 DEF UserLease, Goto, Calm, SendCharged, TickCharged, budgetVars
<1>3. CASE Unlanes(h)
  BY <1>1, <1>3 DEF Unlanes, Unlane, End, Calm, SendCharged, TickCharged, budgetVars
<1>4. CASE Crash(h)
  BY <1>1, <1>4 DEF Crash, End, Calm, SendCharged, TickCharged, budgetVars
<1> QED BY <1>2, <1>3, <1>4

LEMMA ColdCalm ==
  ASSUME Typed, NEW h \in Handlers, ColdStep(h), ~TickCharge(h), ~TickRefund(h), ~GcDerived(h)
  PROVE  Calm(h)
<1>1. pc \in [Handlers -> Labels]
  BY DEF Typed, LocalTypes
<1>2. CASE SendStart(h) \/ UserStart(h) \/ TickStart(h)
  BY <1>1, <1>2 DEF SendStart, UserStart, TickStart, Begin, Calm, SendCharged, TickCharged, storeVars, budgetVars
<1>3. CASE UserRead(h) \/ UserQueue(h) \/ TickPull(h) \/ TickRead(h) \/ TickAdd(h)
  BY <1>1, <1>3 DEF UserRead, UserQueue, TickPull, TickRead, TickAdd, Queue, WriteBack, Goto, Take, End,
     Calm, SendCharged, TickCharged, storeVars, budgetVars
<1>4. CASE TickRule(h)
  BY <1>1, <1>4 DEF TickRule, Goto, Take, End, Calm, SendCharged, TickCharged, storeVars, budgetVars
<1>5. ASSUME NEW l, NEW m \in {"u_queue", "t_add", "t_soon", "t_rem", "t_unlane"}, PutRule(h, l, m)
      PROVE  Calm(h)
  BY <1>1, <1>5 DEF PutRule, Goto, End, Calm, SendCharged, TickCharged, budgetVars
<1>6. CASE ArchiveStart(h) \/ RestoreStart(h) \/ LimitsStart(h) \/ CreateStart(h) \/ GcStart(h)
  BY <1>6, LifeStarts DEF Calm, SendCharged, TickCharged, storeVars, budgetVars
<1>7. CASE LifecycleStep(h)
  <2>1. pc'[h] \in LifeNext(pc[h])
    BY <1>7, LifeLocal
  <2>2. pc'[h] \notin SendCharged \cup TickCharged
    BY <2>1 DEF LifeNext, SendCharged, TickCharged, GcLabels
  <2>3. UNCHANGED <<budgetVars, onDay>>
    <3>1. CASE LifeReads(h)
      BY <3>1 DEF LifeReads, ArchiveRead, ArchiveRule, RestoreRead, RestoreRule, LimitsRead,
         CreateCap, CreateReadList, GcRead, GcReadList, storeVars
    <3>2. CASE CreateLock(h) \/ CreateRecord(h) \/ CreateAppend(h) \/ CreateUnlock(h) \/ GcDrop(h)
      BY <3>2 DEF CreateLock, CreateRecord, CreateAppend, CreateUnlock, GcDrop, LifecycleKeeps
    <3>3. ASSUME NEW l, NEW x, NEW m, PutWallet(h, l, x, m) PROVE UNCHANGED <<budgetVars, onDay>>
      BY <3>3 DEF PutWallet, LifecycleKeeps
    <3>4. CASE GcRule(h) \/ GcRemove(h)
      BY <3>4 DEF GcRule, GcRemove, Queue
    <3> QED BY <1>7, <3>1, <3>2, <3>3, <3>4 DEF LifecycleStep, LifeReads
  <2> QED BY <2>2, <2>3 DEF Calm, SendCharged, budgetVars
<1> QED BY <1>2, <1>3, <1>4, <1>5, <1>6, <1>7 DEF ColdStep

-----------------------------------------------------------------------------
(* The steps that move money *)

\* A charge of n units, by an invocation that has nothing open.
LEMMA ChargeBooks ==
  ASSUME Typed, Typed', BudgetInv, NEW h \in Handlers, Others(h), NEW n \in 1..Rows,
         Charge(n), Size(pc[h]) = 0, Size(pc'[h]) = n, pay'[h].day = clock, pay'[h].won = 0,
         onDay' = onDay, pc'[h] \notin {"s_refund", "s_fail"}
  PROVE  BudgetInv'
<1>1. /\ clock \in Days /\ spent[clock] + n <= Limit /\ slack' = slack
      /\ spent' = [spent EXCEPT ![clock] = @ + n] /\ spent \in [Days -> Int] /\ n \in Nat
  BY DEF Charge, Typed, WalletStoreTypeOK
<1>2. ASSUME NEW d \in Days, d = clock PROVE Books(d)'
  <2>1. \A i \in 1..Rows : Owes(h, d, i)' => i <= n
    BY <1>2 DEF Owes
  <2>2. /\ Books(d) /\ spent'[d] = spent[d] + n /\ spent'[d] <= Limit
        /\ onDay'[d] = onDay[d] /\ slack'[d] = slack[d]
    BY <1>1, <1>2 DEF BudgetInv
  <2> QED BY <2>1, <2>2, Opens
<1>3. ASSUME NEW d \in Days, d # clock PROVE Books(d)'
  <2>1. \A i \in 1..Rows : Owes(h, d, i)' => Owes(h, d, i)
    BY <1>3 DEF Owes
  <2>2. onDay'[d] = onDay[d] /\ slack'[d] >= slack[d] /\ spent'[d] + slack'[d] >= spent[d] + slack[d]
    BY <1>1, <1>3, BookTypes
  <2> QED BY <2>1, <2>2, Shrinks DEF BudgetInv
<1> QED BY <1>2, <1>3, BooksAreAll

\* A charge that is denied, which may stay on the counter.
LEMMA RejectBooks ==
  ASSUME Typed, Typed', BudgetInv, NEW h \in Handlers, Others(h), NEW n \in 1..Rows,
         RejectCharge(n), Size(pc'[h]) = 0, onDay' = onDay, pc'[h] \notin {"s_refund", "s_fail"}
  PROVE  BudgetInv'
<1>1. ASSUME NEW d \in Days, NEW i \in 1..Rows PROVE ~Owes(h, d, i)'
  BY DEF Owes
<1>2. ASSUME NEW d \in Days PROVE Books(d)'
  <2>1. onDay'[d] = onDay[d] /\ slack'[d] >= slack[d] /\ spent'[d] + slack'[d] >= spent[d] + slack[d]
    BY BookTypes DEF RejectCharge
  <2> QED BY <1>1, <2>1, Shrinks DEF BudgetInv
<1> QED BY <1>2, BooksAreAll

\* A refund of k units by an invocation that has all the others settled, and
\* gives up its charge.
LEMMA RefundBooks ==
  ASSUME Typed, Typed', BudgetInv, NEW h \in Handlers, Others(h), NEW n \in 1..Rows, NEW k \in Nat,
         Size(pc[h]) = n, pay[h].won <= n, k >= n - pay[h].won, Size(pc'[h]) = 0,
         Refund(k, pay[h].day, n - pay[h].won), onDay' = onDay, pc'[h] \notin {"s_refund", "s_fail"}
  PROVE  BudgetInv'
<1> DEFINE e == pay[h].day
           u == n - pay[h].won
<1>1. e \in Days /\ u \in Int /\ clock \in Days /\ k >= u
  <2>1. pay[h].day \in Days /\ pay[h].won \in 0..Rows /\ Rows \in Nat
    BY PayTypes, NoneIsNothing
  <2>2. clock \in Days
    BY DEF Typed, WalletStoreTypeOK
  <2> QED BY <2>1, <2>2
<1>2. \A d \in Days, i \in 1..Rows : ~Owes(h, d, i)'
  BY DEF Owes
<1>3. ASSUME NEW d \in Days,
             onDay'[d] = onDay[d] /\ slack'[d] >= slack[d] /\ spent'[d] + slack'[d] >= spent[d] + slack[d]
      PROVE  Books(d)'
  BY <1>2, <1>3, Shrinks DEF BudgetInv
<1>4. CASE UNCHANGED budgetVars
  <2>1. \A d \in Days : Books(d)'
    BY <1>3, <1>4, BookTypes DEF budgetVars
  <2> QED BY <2>1, BooksAreAll
<1>5. CASE /\ spent' = [spent EXCEPT ![clock] = @ - k]
           /\ slack' = [slack EXCEPT ![clock] = @ + (IF e = clock THEN k - u ELSE k)]
  <2>1. /\ spent \in [Days -> Int] /\ slack \in [Days -> Nat]
    BY <1>1, BookTypes
  <2>2. ASSUME NEW d \in Days, d # clock PROVE Books(d)'
    BY <1>3, <1>5, <2>1, <2>2
  <2>3. CASE e # clock
    <3>1. /\ onDay'[clock] = onDay[clock] /\ slack'[clock] >= slack[clock]
          /\ spent'[clock] + slack'[clock] >= spent[clock] + slack[clock]
      BY <1>1, <1>5, <2>1, <2>3
    <3>2. ASSUME NEW d \in Days, d = clock PROVE Books(d)'
      BY <1>3, <3>1, <3>2
    <3> QED BY <2>2, <3>2, BooksAreAll
  <2>4. CASE e = clock
    <3>1. spent'[e] = spent[e] - k /\ slack'[e] = slack[e] + (k - u) /\ onDay'[e] = onDay[e]
      BY <1>1, <1>5, <2>1, <2>4
    <3>2. ASSUME NEW d \in Days, d = e PROVE Books(d)'
      BY <1>1, <1>2, <3>1, <3>2, Closes DEF BudgetInv
    <3> QED BY <2>2, <2>4, <3>2, BooksAreAll
  <2> QED BY <2>3, <2>4
<1> QED BY <1>4, <1>5 DEF Refund

\* The relay has answered: it settled a unit of the charge, or none.
LEMMA RelayBooks ==
  ASSUME Typed, Typed', BudgetInv, NEW h \in Handlers, Others(h), NEW b \in BOOLEAN,
         pay'[h].day = pay[h].day, pay'[h].won = pay[h].won + Count(b),
         pay[h].won < Size(pc[h]), Size(pc'[h]) <= Size(pc[h]), pc'[h] # "s_refund",
         pc'[h] = "s_fail" => pay[h].won = 0,
         IF b THEN Settle(h) ELSE onDay' = onDay, UNCHANGED budgetVars
  PROVE  BudgetInv'
<1> DEFINE e == pay[h].day
           j == pay[h].won + 1
<1>1. /\ e \in Days /\ pay[h].won \in 0..Rows /\ Size(pc[h]) \in 0..Rows /\ Size(pc'[h]) \in 0..Rows /\ Rows \in Nat
      /\ onDay \in [Days -> Nat]
  BY PayTypes, SizeIs, BookTypes, NoneIsNothing
<1>2. Count(b) \in {0, 1} /\ (b => Count(b) = 1)
  BY DEF Count
<1>3. \A d \in Days, i \in 1..Rows : Owes(h, d, i)' => Owes(h, d, i)
  BY <1>1, <1>2 DEF Owes
<1>4. ASSUME NEW d \in Days, onDay'[d] = onDay[d] PROVE Books(d)'
  BY <1>3, <1>4, Shrinks, BookTypes DEF BudgetInv, budgetVars
<1>5. pc'[h] = "s_fail" => pay'[h].won <= 1
  BY <1>2
<1>6. CASE ~b
  BY <1>4, <1>5, <1>6, BooksAreAll
<1>7. CASE b
  <2>1. j \in 1..Rows /\ \A d \in Days, i \in 1..Rows : d = e /\ i = j => Owes(h, d, i) /\ ~Owes(h, d, i)'
    <3>1. j \in 1..Rows /\ j <= Size(pc[h]) /\ pay[h].won < j
      BY <1>1
    <3>2. pay'[h].won = j
      BY <1>1, <1>2, <1>7
    <3>3. ASSUME NEW d \in Days, NEW i \in 1..Rows, d = e, i = j PROVE Owes(h, d, i) /\ ~Owes(h, d, i)'
      <4>1. Owes(h, d, i)
        BY <3>1, <3>3 DEF Owes
      <4>2. ~(pay'[h].won < i)
        BY <3>1, <3>2, <3>3
      <4> QED BY <4>1, <4>2 DEF Owes
    <3> QED BY <3>1, <3>3
  <2>2. onDay' = [onDay EXCEPT ![e] = @ + 1]
    BY <1>7 DEF Settle
  <2>3. ASSUME NEW d \in Days, d = e PROVE Books(d)'
    <3>1. PICK i \in 1..Rows : i = j
      BY <2>1
    <3>2. Owes(h, d, i) /\ ~Owes(h, d, i)' /\ onDay'[d] = onDay[d] + 1
      BY <1>1, <2>1, <2>2, <2>3, <3>1
    <3>3. slack'[d] = slack[d] /\ spent'[d] = spent[d] /\ Books(d)
      BY DEF BudgetInv, budgetVars
    <3> QED BY <1>3, <3>2, <3>3, SettlesOne
  <2> QED BY <1>1, <1>4, <1>5, <2>2, <2>3, BooksAreAll
<1> QED BY <1>6, <1>7

LEMMA SizeAt ==
  /\ \A l \in SendCharged : Size(l) = 1
  /\ \A l \in TickCharged : Size(l) = Rows
  /\ \A l \in {"s_charge", "s_free", "s_unlane", "s_mark", "t_charge", "t_retry", "t_stop", "t_put", "t_mark",
               "t_doubt", "done"} : Size(l) = 0
  /\ 1 \in 1..Rows /\ Rows \in 1..Rows
BY NoneIsNothing DEF Size, SendCharged, TickCharged

LEMMA ChargeSteps ==
  ASSUME Typed, Typed', BudgetInv, NEW h \in Handlers, Others(h), SendCharge(h) \/ TickCharge(h)
  PROVE  BudgetInv'
<1>1. pc \in [Handlers -> Labels] /\ onDay' = onDay /\ pc[h] \in {"s_charge", "t_charge"}
  BY DEF Typed, LocalTypes, SendCharge, TickCharge
<1>2. pay[h].won = 0 /\ Size(pc[h]) = 0 /\ clock \in Days /\ pay \in [Handlers -> Payment]
  BY <1>1, UnpaidWonNothing, SizeAt DEF Unpaid, Typed, WalletStoreTypeOK, LocalTypes
<1>3. pay' = [pay EXCEPT ![h].day = clock] => pay'[h].day = clock /\ pay'[h].won = 0
  BY <1>2 DEF Payment
<1>4. CASE SendCharge(h)
  <2>1. CASE Charge(1) /\ pc' = [pc EXCEPT ![h] = "s_lane"] /\ pay' = [pay EXCEPT ![h].day = clock]
    <3>1. pc'[h] = "s_lane" /\ Size(pc'[h]) = 1
      BY <1>1, <2>1, SizeAt DEF SendCharged
    <3> QED BY <1>1, <1>2, <1>3, <2>1, <3>1, SizeAt, ChargeBooks
  <2>2. CASE RejectCharge(1) /\ Goto(h, "s_free")
    <3>1. pc'[h] = "s_free" /\ Size(pc'[h]) = 0
      BY <1>1, <2>2, SizeAt DEF Goto
    <3> QED BY <1>1, <2>2, <3>1, SizeAt, RejectBooks
  <2> QED BY <1>4, <2>1, <2>2 DEF SendCharge
<1>5. CASE TickCharge(h)
  <2>1. CASE Charge(Rows) /\ pc' = [pc EXCEPT ![h] = "t_marker"] /\ pay' = [pay EXCEPT ![h].day = clock]
    <3>1. pc'[h] = "t_marker" /\ Size(pc'[h]) = Rows
      BY <1>1, <2>1, SizeAt DEF TickCharged
    <3> QED BY <1>1, <1>2, <1>3, <2>1, <3>1, SizeAt, ChargeBooks
  <2>2. CASE RejectCharge(Rows) /\ Goto(h, "t_retry")
    <3>1. pc'[h] = "t_retry" /\ Size(pc'[h]) = 0
      BY <1>1, <2>2, SizeAt DEF Goto
    <3> QED BY <1>1, <2>2, <3>1, SizeAt, RejectBooks
  <2> QED BY <1>5, <2>1, <2>2 DEF TickCharge
<1> QED BY <1>4, <1>5

LEMMA RefundSteps ==
  ASSUME Typed, Typed', BudgetInv, NEW h \in Handlers, Others(h),
         SendFail(h) \/ SendRefund(h) \/ TickRefund(h) \/ TickFired(h)
  PROVE  BudgetInv'
<1>1. pc \in [Handlers -> Labels] /\ onDay' = onDay
  BY DEF Typed, LocalTypes, SendFail, SendRefund, TickRefund, TickFired, RefundKeeps
<1>2. /\ pay[h].won \in 0..Rows /\ pay[h].ok \in 0..Rows /\ pay[h].ok <= pay[h].won /\ Rows \in Nat
  BY PayTypes, NoneIsNothing
<1>3. CASE SendFail(h)
  <2>1. pc[h] = "s_fail" /\ pc'[h] = "s_unlane" /\ Refund(1, pay[h].day, 1 - pay[h].won)
    BY <1>1, <1>3 DEF SendFail, Goto
  <2>2. Size(pc[h]) = 1 /\ Size(pc'[h]) = 0
    BY <2>1, SizeAt DEF SendCharged
  <2>3. pay[h].won <= 1
    BY <2>1 DEF BudgetInv
  <2> QED BY <1>1, <1>2, <2>1, <2>2, <2>3, SizeAt, RefundBooks
<1>4. CASE SendRefund(h)
  <2>1. pc[h] = "s_refund" /\ pc'[h] = "s_free" /\ Refund(1, pay[h].day, 1)
    BY <1>1, <1>4 DEF SendRefund, Goto
  <2>2. Size(pc[h]) = 1 /\ Size(pc'[h]) = 0 /\ 1 - pay[h].won = 1
    <3>1. pay[h].won = 0
      BY <2>1 DEF BudgetInv
    <3> QED BY <2>1, <3>1, SizeAt DEF SendCharged
  <2>3. pay[h].won <= 1
    BY <1>2, <2>2
  <2> QED BY <1>1, <1>2, <2>1, <2>2, <2>3, SizeAt, RefundBooks
<1>5. CASE TickRefund(h)
  <2>1. /\ pc[h] \in {"t_back", "t_unpay", "t_lapsed", "t_again"} /\ pc'[h] \in {"done", "t_retry", "t_stop", "t_put"}
        /\ Refund(Rows, pay[h].day, Rows - pay[h].won)
    BY <1>1, <1>5 DEF TickRefund, RefundAll, Goto, Take, End
  <2>2. Size(pc[h]) = Rows /\ Size(pc'[h]) = 0 /\ pc'[h] \notin {"s_refund", "s_fail"} /\ Rows >= Rows - pay[h].won
    BY <1>2, <2>1, SizeAt DEF TickCharged
  <2> QED BY <1>1, <1>2, <2>1, <2>2, SizeAt, RefundBooks
<1>6. CASE TickFired(h)
  <2>1. pc[h] = "t_fired" /\ pc'[h] = "t_mark"
    BY <1>1, <1>6 DEF TickFired, Goto
  <2>2. Size(pc[h]) = Rows /\ Size(pc'[h]) = 0
    BY <2>1, SizeAt DEF TickCharged
  <2>3. CASE UNCHANGED budgetVars
    BY <1>1, <2>1, <2>3, CalmBooks DEF Calm, budgetVars, SendCharged, TickCharged
  <2>4. CASE Refund(Rows - pay[h].ok, pay[h].day, Rows - pay[h].won)
    <3>1. Rows - pay[h].ok \in Nat /\ Rows - pay[h].ok >= Rows - pay[h].won
      BY <1>2
    <3> QED BY <1>1, <1>2, <2>1, <2>2, <2>4, <3>1, SizeAt, RefundBooks
  <2> QED BY <1>6, <2>3, <2>4 DEF TickFired
<1> QED BY <1>3, <1>4, <1>5, <1>6

LEMMA RelaySteps ==
  ASSUME Typed, Typed', BudgetInv, NEW h \in Handlers, Others(h), SendRelay(h) \/ TickRow(h)
  PROVE  BudgetInv'
<1>1. pc \in [Handlers -> Labels] /\ pay \in [Handlers -> Payment] /\ UNCHANGED budgetVars
  BY DEF Typed, LocalTypes, SendRelay, TickRow
<1>2. /\ pay[h].won \in 0..Rows /\ pay[h].row \in 0..Rows /\ pay[h].won <= pay[h].row /\ Rows \in Nat
  BY PayTypes, NoneIsNothing
<1>3. ASSUME NEW a \in Answers, Tally(h, a)
      PROVE  a.settles \in BOOLEAN /\ pay'[h].day = pay[h].day /\ pay'[h].won = pay[h].won + Count(a.settles)
  <2>1. a.settles \in BOOLEAN
    <3>1. CASE a \in [settles : BOOLEAN, says : {"nothing"}]
      BY <3>1
    <3>2. CASE a \in {[settles |-> TRUE, says |-> "yes"], [settles |-> FALSE, says |-> "no"],
                      [settles |-> TRUE, says |-> "no"]}
      <4>1. CASE a = [settles |-> TRUE, says |-> "yes"]
        BY <4>1
      <4>2. CASE a = [settles |-> FALSE, says |-> "no"]
        BY <4>2
      <4>3. CASE a = [settles |-> TRUE, says |-> "no"]
        BY <4>3
      <4> QED BY <3>2, <4>1, <4>2, <4>3
    <3> QED BY <3>1, <3>2 DEF Answers
  <2>2. pay[h] = [day |-> pay[h].day, row |-> pay[h].row, ok |-> pay[h].ok, won |-> pay[h].won]
    BY <1>1 DEF Payment
  <2> QED BY <1>1, <1>3, <2>1, <2>2 DEF Tally
<1>4. CASE SendRelay(h)
  <2>1. PICK a \in Answers :
          /\ Tally(h, a) /\ pc'[h] \in {"s_mark", "s_fail"}
          /\ IF a.settles THEN Settle(h) ELSE onDay' = onDay
    BY <1>1, <1>4 DEF SendRelay
  <2>2. pc[h] = "s_relay" /\ pay[h].won = 0 /\ Size(pc[h]) = 1
    BY <1>4, UnpaidWonNothing, SizeAt DEF SendRelay, Unpaid, SendCharged
  <2>3. Size(pc'[h]) <= 1
    BY <2>1, SizeAt DEF SendCharged
  <2> QED BY <1>1, <1>3, <2>1, <2>2, <2>3, RelayBooks
<1>5. CASE TickRow(h)
  <2>1. PICK a \in Answers :
          /\ Tally(h, a) /\ pc'[h] \in {"t_undo", "t_doubt", "t_fired", "t_row"}
          /\ IF a.settles THEN Settle(h) ELSE onDay' = onDay
    BY <1>1, <1>5 DEF TickRow
  <2>2. pc[h] = "t_row" /\ pay[h].won < Rows /\ Size(pc[h]) = Rows
    BY <1>2, <1>5, SizeAt DEF TickRow, TickCharged
  <2>3. Size(pc'[h]) <= Rows
    BY <1>2, <2>1, SizeAt DEF TickCharged
  <2> QED BY <1>1, <1>3, <2>1, <2>2, <2>3, RelayBooks
<1> QED BY <1>4, <1>5

LEMMA SweepBooks ==
  ASSUME Typed, Typed', BudgetInv, NEW h \in Handlers, Others(h), GcDerived(h)
  PROVE  BudgetInv'
<1>1. pc'[h] = "g_list" /\ onDay' = onDay
  BY DEF GcDerived, Goto, Typed, LocalTypes
<1>2. \A d \in Days, i \in 1..Rows : ~Owes(h, d, i)'
  BY <1>1, SizeIs DEF Owes, SendCharged, TickCharged
<1>3. ASSUME NEW d \in Days PROVE Books(d)'
  <2>1. slack'[d] >= slack[d] /\ spent'[d] + slack'[d] >= spent[d] + slack[d]
    <3>1. CASE UNCHANGED budgetVars
      BY <3>1, BookTypes DEF budgetVars
    <3>2. CASE /\ spent' = [spent EXCEPT ![clock] = 0]
               /\ slack' = [slack EXCEPT ![clock] = @ + (IF spent[clock] > 0 THEN spent[clock] ELSE 0)]
      BY <3>2, BookTypes
    <3> QED BY <3>1, <3>2 DEF GcDerived
  <2> QED BY <1>1, <1>2, <2>1, Shrinks DEF BudgetInv
<1> QED BY <1>1, <1>3, BooksAreAll

\* What is settled of a day's budget stays within the daily limit, but for
\* what refunds gave back that no unspent charge of the day backs; whatever
\* fails, whoever dies, and whichever wallets are destroyed.
THEOREM SettledWithinLimit == WalletsSpec => []CapHeld
<1>1. WalletsInit => BudgetInv
  <2> SUFFICES ASSUME WalletsInit PROVE BudgetInv
    OBVIOUS
  <2>1. \A h \in Handlers : pc[h] = "idle"
    BY DEF WalletsInit, HandlerInit
  <2>2. ASSUME NEW d \in Days PROVE Open(d) = {}
    BY <2>1, SizeIs DEF Open, Owes, SendCharged, TickCharged
  <2>3. ASSUME NEW d \in Days PROVE onDay[d] = 0 /\ slack[d] = 0 /\ spent[d] = 0
    BY DEF WalletsInit, StoreInit
  <2>4. \A d \in Days : Books(d)
    BY <2>2, <2>3, FS_EmptySet, NoneIsNothing DEF Books
  <2> QED BY <2>1, <2>4 DEF BudgetInv
<1>2. Typed /\ BudgetInv /\ [WalletsNext]_walletsVars => BudgetInv'
  <2> SUFFICES ASSUME Typed, BudgetInv, [WalletsNext]_walletsVars PROVE BudgetInv'
    OBVIOUS
  <2>1. CASE UNCHANGED <<localVars, budgetVars, onDay>>
    BY <2>1 DEF BudgetInv, Books, Open, Owes, localVars, budgetVars
  <2>2. CASE WalletsTime /\ UNCHANGED localVars
    BY <2>1, <2>2 DEF WalletsTime, ExpireLane, ExpireCreateLock, ExpireClaim, ExpireFireLock, GraceEnds,
       NextDay, LifecycleKeeps
  <2>3. ASSUME NEW h \in Handlers, WalletsStep(h) PROVE BudgetInv'
    <3>1. Others(h) /\ Typed'
      BY <2>3, TypedStep DEF Local
    <3>2. CASE ColdStep(h)
      BY <3>1, <3>2, ColdCalm, CalmBooks, ChargeSteps, RefundSteps, SweepBooks
    <3>3. CASE SendHot(h)
      BY <3>1, <3>3, SendCalm, CalmBooks, ChargeSteps, RefundSteps, RelaySteps DEF SendHot
    <3>4. CASE TickHot(h)
      BY <3>1, <3>4, TickCalm, CalmBooks, ChargeSteps, RefundSteps, RelaySteps DEF TickHot
    <3>5. CASE UserLease(h) \/ Unlanes(h) \/ Crash(h)
      BY <3>1, <3>5, OtherCalm, CalmBooks
    <3> QED BY <2>3, <3>2, <3>3, <3>4, <3>5, Steps
  <2>4. CASE UNCHANGED walletsVars
    BY <2>1, <2>4 DEF walletsVars, storeVars
  <2> QED BY <2>2, <2>3, <2>4 DEF WalletsNext
<1>3. Typed /\ BudgetInv => CapHeld
  <2> SUFFICES ASSUME Typed, BudgetInv, NEW d \in Days PROVE onDay[d] <= Limit + slack[d]
    BY DEF CapHeld
  <2> QED BY BookTypes DEF BudgetInv, Books
<1> QED BY <1>1, <1>2, <1>3, TypedInit, TypedNext, PTL DEF WalletsSpec

-----------------------------------------------------------------------------
(* The keys *)

\* Steps of an invocation that will write, destroy, create or list its wallet.
Destroying == {"g_rule", "g_rem", "g_record"}
Writing == {"d_write", "l_write"}
Claimers == {"n_lock", "n_cap", "n_new"}
Listing == {"n_list", "n_add"}
Busy == Destroying \cup Writing \cup Claimers \cup Listing

\* An archived wallet past its grace window counts no more.
Counted(w) == wallet[w] # "none" /\ (w \in expired => wallet[w] = "active")

\* What the record of its wallet is like while an invocation is about to write it.
Sane(h) ==
  /\ pc[h] \notin {"e_read", "e_write"}
  /\ pc[h] = "d_read" => item[h] = Main
  /\ pc[h] \in Destroying => item[h] \in expired /\ wallet[item[h]] # "active"
  /\ pc[h] = "d_write" => Counted(item[h])
  /\ pc[h] = "l_write" => \/ seen[h] = "active" /\ Counted(item[h])
                          \/ /\ seen[h] = "archived"
                             /\ IF item[h] \in expired THEN wallet[item[h]] # "active"
                                ELSE wallet[item[h]] # "none"
  /\ pc[h] \in Claimers => wallet[item[h]] = "none"

\* Nobody else is at an address that is being claimed.
Apart == \A h, q \in Handlers :
  pc[h] \in Claimers /\ q # h /\ pc[q] \in Busy => item[q] # item[h]

GraceInv == Apart /\ \A h \in Handlers : Sane(h)

\* A step that stays off the wallets.
Off(h) == UNCHANGED walletVars /\ pc'[h] \notin WalletSteps

LEMMA OffWallets ==
  ASSUME Typed, NEW h \in Handlers, WalletsStep(h), ~LifecycleStep(h),
         ~ArchiveStart(h), ~RestoreStart(h), ~LimitsStart(h), ~CreateStart(h), ~GcStart(h)
  PROVE  Off(h)
<1>1. pc \in [Handlers -> Labels]
  BY DEF Typed, LocalTypes
<1>2. CASE SendStart(h) \/ UserStart(h) \/ TickStart(h)
  BY <1>1, <1>2 DEF SendStart, UserStart, TickStart, Begin, Off, WalletSteps, GcLabels, storeVars
<1>3. CASE SendStep(h)
  <2>1. CASE SendWallet(h) \/ SendGuard(h) \/ SendGate(h)
    BY <1>1, <2>1 DEF SendWallet, SendGuard, SendGate, Goto, End, Off, WalletSteps, GcLabels, storeVars
  <2>2. CASE SendClaim(h) \/ SendCharge(h) \/ SendLane(h) \/ SendRelay(h)
    BY <1>1, <2>2 DEF SendClaim, SendCharge, SendLane, SendRelay, Goto, End, Off, WalletSteps, GcLabels
  <2>3. CASE SendFail(h) \/ SendMark(h) \/ SendRefund(h) \/ SendFree(h) \/ Unlane(h, "s_unlane")
    BY <1>1, <2>3 DEF SendFail, SendMark, SendRefund, SendFree, Unlane, Goto, End, Off, WalletSteps, GcLabels
  <2> QED BY <1>3, <2>1, <2>2, <2>3 DEF SendStep
<1>4. ASSUME NEW l, NEW m \in {"u_queue", "t_add", "t_soon", "t_rem", "t_unlane"}, PutRule(h, l, m)
      PROVE  Off(h)
  BY <1>1, <1>4 DEF PutRule, Goto, End, Off, WalletSteps, GcLabels
<1>5. CASE UserStep(h)
  BY <1>1, <1>4, <1>5 DEF UserStep, UserRead, UserLease, UserQueue, Queue, WriteBack, Goto, Take, End, Off, WalletSteps,
     GcLabels, storeVars
<1>6. CASE TickStep(h)
  <2>1. CASE TickPull(h) \/ TickRule(h) \/ TickMarker(h) \/ TickFresh(h)
    BY <1>1, <2>1 DEF TickPull, TickRule, TickMarker, TickFresh, Goto, Take, End, Off, WalletSteps, GcLabels, storeVars
  <2>2. CASE TickLast(h) \/ TickRead(h)
    BY <1>1, <2>2 DEF TickLast, TickRead, Goto, Take, End, Off, WalletSteps, GcLabels, storeVars
  <2>3. CASE TickCharge(h) \/ TickClaim(h) \/ TickLane(h) \/ TickRow(h)
    BY <1>1, <2>3 DEF TickCharge, TickClaim, TickLane, TickRow, Goto, End, Off, WalletSteps, GcLabels
  <2>4. CASE TickFree(h, "t_free", "t_back") \/ TickFree(h, "t_undo", "t_unpay")
             \/ TickMark(h, "t_mark", "t_read") \/ TickMark(h, "t_doubt", "t_retry")
    BY <1>1, <2>4 DEF TickFree, TickMark, Goto, End, Off, WalletSteps, GcLabels
  <2>5. CASE TickRefund(h) \/ TickFired(h)
    BY <1>1, <2>5 DEF TickRefund, TickFired, RefundKeeps, Goto, Take, End, Off, WalletSteps, GcLabels
  <2>6. CASE TickAdd(h) \/ Unlane(h, "t_unlane")
    BY <1>1, <2>6 DEF TickAdd, Queue, Unlane, Goto, End, Off, WalletSteps, GcLabels
  <2> QED BY <1>4, <1>6, <2>1, <2>2, <2>3, <2>4, <2>5, <2>6 DEF TickStep
<1>7. CASE Crash(h)
  BY <1>1, <1>7 DEF Crash, End, Off, WalletSteps, GcLabels
<1> QED BY <1>2, <1>3, <1>5, <1>6, <1>7 DEF WalletsStep

\* Whoever is about another wallet than the one that changes is as it was.
LEMMA Elsewhere ==
  ASSUME Typed, NEW h \in Handlers, Others(h), NEW q \in Handlers \ {h}, Sane(q),
         pc[q] \in WalletSteps => /\ wallet'[item[q]] = wallet[item[q]]
                                  /\ item[q] \in expired' <=> item[q] \in expired
  PROVE  Sane(q)'
<1>1. pc'[q] = pc[q] /\ seen'[q] = seen[q] /\ item'[q] = item[q]
  BY DEF Others
<1>2. CASE pc[q] \in WalletSteps
  BY <1>1, <1>2 DEF Sane, Counted
<1>3. CASE pc[q] \notin WalletSteps
  BY <1>1, <1>3 DEF Sane, WalletSteps, GcLabels, Destroying, Claimers
<1> QED BY <1>2, <1>3

\* Where h may go without coming into the way of a claim, or of its own.
LEMMA StayApart ==
  ASSUME GraceInv, NEW h \in Handlers, Others(h),
         pc'[h] \in Claimers => \A q \in Handlers \ {h} : pc[q] \in Busy => item[q] # item'[h],
         pc'[h] \in Busy => \A q \in Handlers \ {h} : pc[q] \in Claimers => item[q] # item'[h]
  PROVE  Apart'
BY DEF GraceInv, Apart, Others

\* A step that goes on with its wallet, or leaves it.
LEMMA GoesOn ==
  ASSUME Typed, GraceInv, NEW h \in Handlers, Others(h), UNCHANGED <<wallet, expired>>,
         pc'[h] \in Claimers => pc[h] \in Claimers,
         pc'[h] \in Busy => pc[h] \in Busy /\ item'[h] = item[h],
         Sane(h)'
  PROVE  GraceInv'
<1>1. Apart'
  <2>1. GraceInv /\ Apart
    BY DEF GraceInv
  <2>2. ASSUME NEW q \in Handlers \ {h}, pc'[h] \in Claimers, pc[q] \in Busy PROVE item[q] # item'[h]
    BY <2>1, <2>2 DEF Apart, Busy
  <2>3. ASSUME NEW q \in Handlers \ {h}, pc'[h] \in Busy, pc[q] \in Claimers PROVE item[q] # item'[h]
    BY <2>1, <2>3 DEF Apart
  <2> QED BY <2>2, <2>3, StayApart
<1>2. \A q \in Handlers \ {h} : Sane(q)'
  BY Elsewhere DEF GraceInv
<1> QED BY <1>1, <1>2 DEF GraceInv

\* A step that begins to be about a wallet.
LEMMA Enters ==
  ASSUME Typed, GraceInv, NEW h \in Handlers, Others(h), UNCHANGED <<wallet, expired>>, Sane(h)',
         \A q \in Handlers \ {h} : pc[q] \in Claimers => item[q] # item'[h],
         pc'[h] \in Claimers => \A q \in Handlers \ {h} : item[q] # item'[h]
  PROVE  GraceInv'
<1>1. Apart'
  BY StayApart
<1>2. \A q \in Handlers \ {h} : Sane(q)'
  BY Elsewhere DEF GraceInv
<1> QED BY <1>1, <1>2 DEF GraceInv

LEMMA OffKeeps ==
  ASSUME Typed, GraceInv, NEW h \in Handlers, Others(h), Off(h)
  PROVE  GraceInv'
<1>1. /\ UNCHANGED <<wallet, expired>> /\ pc'[h] \notin Busy
      /\ pc'[h] \notin Claimers \cup Destroying \cup Writing \cup {"e_read", "e_write", "d_read"}
  BY DEF Off, walletVars, WalletSteps, GcLabels, Busy, Claimers, Destroying, Writing, Listing
<1>2. Sane(h)'
  BY <1>1 DEF Sane, Writing
<1> QED BY <1>1, <1>2, GoesOn

\* The steps that read.
LEMMA StartKeeps ==
  ASSUME Typed, GraceInv, "restore" \notin Jobs, NEW h \in Handlers, Others(h),
         ArchiveStart(h) \/ RestoreStart(h) \/ LimitsStart(h) \/ CreateStart(h) \/ GcStart(h)
  PROVE  GraceInv'
<1>1. pc \in [Handlers -> Labels] /\ item = [q \in Handlers |-> item[q]] /\ UNCHANGED <<wallet, expired>>
  BY DEF Typed, LocalTypes, ArchiveStart, RestoreStart, LimitsStart, CreateStart, GcStart, storeVars, walletVars
<1>2. ~RestoreStart(h)
  BY DEF RestoreStart, Begin
<1>3. CASE ArchiveStart(h) \/ LimitsStart(h) \/ GcStart(h)
  <2>1. pc'[h] \in {"d_read", "l_read", "g_read"}
    BY <1>1, <1>3 DEF ArchiveStart, LimitsStart, GcStart, Begin
  <2>2. pc'[h] \notin Busy /\ (pc'[h] = "d_read" => item'[h] = Main)
    BY <1>1, <1>3, <2>1 DEF Busy, Destroying, Writing, Claimers, Listing, ArchiveStart, LimitsStart, GcStart, Begin
  <2>4. Sane(h)'
    BY <2>1, <2>2 DEF Busy, Destroying, Writing, Claimers, Listing, Sane
  <2>3. pc'[h] \notin Claimers
    BY <2>2 DEF Busy
  <2> QED BY <1>1, <2>2, <2>3, <2>4, GoesOn
<1>4. CASE CreateStart(h)
  <2>1. PICK w \in Wallets \ list : /\ wallet[w] = "none" /\ \A g \in Handlers : item[g] # w
                                    /\ Begin(h, "create", "n_lock", w)
    BY <1>4 DEF CreateStart
  <2>2. pc'[h] = "n_lock" /\ item'[h] = w
    BY <1>1, <2>1 DEF Begin
  <2>3. Sane(h)'
    BY <1>1, <2>1, <2>2 DEF Sane, Destroying
  <2>4. \A q \in Handlers \ {h} : item[q] # item'[h]
    BY <2>1, <2>2
  <2> QED BY <1>1, <2>3, <2>4, Enters
<1> QED BY <1>2, <1>3, <1>4

LEMMA ReadKeeps ==
  ASSUME Typed, GraceInv, NEW h \in Handlers, Others(h), LifeReads(h)
  PROVE  GraceInv'
<1>1. /\ pc \in [Handlers -> Labels] /\ item = [q \in Handlers |-> item[q]] /\ seen = [q \in Handlers |-> seen[q]]
      /\ wallet \in [Wallets -> {"none", "active", "archived"}] /\ Sane(h) /\ UNCHANGED <<wallet, expired>>
  BY DEF Typed, LocalTypes, WalletStoreTypeOK, GraceInv, LifeReads, ArchiveRead, ArchiveRule, RestoreRead, RestoreRule,
     LimitsRead, CreateCap, CreateReadList, GcRead, GcReadList, storeVars, walletVars
<1>2. ASSUME pc'[h] \notin Busy \cup {"e_read", "e_write", "d_read"} PROVE GraceInv'
  <2>1. Sane(h)' /\ pc'[h] \notin Claimers
    BY <1>2 DEF Busy, Destroying, Writing, Claimers, Sane
  <2> QED BY <1>1, <1>2, <2>1, GoesOn
<1>3. End(h) => pc'[h] \notin Busy \cup {"e_read", "e_write", "d_read"}
  BY <1>1 DEF End, Busy, Destroying, Writing, Claimers, Listing
<1>4. ASSUME wallet[item'[h]] # "none", Sane(h)' PROVE GraceInv'
  <2>1. ASSUME NEW q \in Handlers \ {h}, pc[q] \in Claimers PROVE item[q] # item'[h]
    BY <1>4, <2>1 DEF GraceInv, Sane
  <2>2. pc'[h] \notin Claimers
    BY <1>1, <1>4 DEF Sane
  <2> QED BY <1>1, <1>4, <2>1, <2>2, Enters
<1>5. CASE ArchiveRead(h)
  <2>1. CASE Usable(Main) /\ Goto(h, "d_write")
    <3>1. pc'[h] = "d_write" /\ item'[h] = Main /\ wallet[Main] = "active"
      BY <1>1, <1>5, <2>1 DEF ArchiveRead, Goto, Usable, Sane
    <3>2. Sane(h)'
      BY <1>1, <3>1 DEF Sane, Counted, Destroying, Claimers
    <3> QED BY <1>4, <3>1, <3>2
  <2> QED BY <1>2, <1>3, <1>5, <2>1 DEF ArchiveRead
<1>6. CASE LimitsRead(h)
  <2>1. CASE wallet[item[h]] # "none" /\ Take(h, "l_write", wallet[item[h]])
    <3>1. pc'[h] = "l_write" /\ item'[h] = item[h] /\ seen'[h] = wallet[item[h]] /\ item[h] \in Wallets
      BY <1>1, <1>6, <2>1 DEF LimitsRead, Take, Typed, Knows, WalletSteps
    <3>2. wallet[item[h]] \in {"active", "archived"}
      BY <1>1, <2>1, <3>1
    <3>3. Sane(h)'
      BY <1>1, <3>1, <3>2 DEF Sane, Counted, Destroying, Claimers
    <3> QED BY <1>4, <2>1, <3>1, <3>3
  <2> QED BY <1>2, <1>3, <1>6, <2>1 DEF LimitsRead
<1>7. CASE GcRead(h)
  <2>1. CASE wallet[item[h]] = "archived" /\ item[h] \in expired /\ Goto(h, "g_rule")
    <3>1. pc'[h] = "g_rule" /\ item'[h] = item[h]
      BY <1>1, <2>1 DEF Goto
    <3>2. Sane(h)'
      BY <1>1, <2>1, <3>1 DEF Sane, Claimers
    <3> QED BY <1>4, <2>1, <3>1, <3>2
  <2> QED BY <1>2, <1>3, <1>7, <2>1 DEF GcRead
<1>8. CASE CreateCap(h)
  <2>1. /\ pc[h] = "n_cap" /\ pc'[h] \in {"n_new", "n_unlock"} /\ item' = item
    BY <1>1, <1>8 DEF CreateCap, Goto
  <2>2. Sane(h)'
    BY <1>1, <2>1 DEF Sane, Claimers, Destroying
  <2>3. pc[h] \in Claimers /\ pc[h] \in Busy
    BY <2>1 DEF Claimers, Busy
  <2> QED BY <1>1, <2>1, <2>2, <2>3, GoesOn
<1>9. CASE CreateReadList(h)
  <2>1. /\ pc[h] = "n_list" /\ pc'[h] \in {"n_add", "n_unlock"} /\ item' = item
    BY <1>1, <1>9 DEF CreateReadList, Take, Goto
  <2>2. Sane(h)' /\ pc'[h] \notin Claimers
    BY <1>1, <2>1 DEF Sane, Claimers, Destroying
  <2>3. pc[h] \in Busy
    BY <2>1 DEF Listing, Busy
  <2> QED BY <1>1, <2>1, <2>2, <2>3, GoesOn
<1>10. CASE ArchiveRule(h) \/ GcReadList(h)
  <2>1. pc'[h] \in {"u_put", "g_drop", "done"}
    BY <1>1, <1>10 DEF ArchiveRule, GcReadList, WriteBack, Take, End
  <2> QED BY <1>2, <2>1 DEF Busy, Destroying, Writing, Claimers, Listing
<1>11. CASE RestoreRead(h) \/ RestoreRule(h)
  <2>1. pc'[h] \in {"u_put", "done"}
    BY <1>1, <1>11 DEF RestoreRead, RestoreRule, WriteBack, Take, End, Sane
  <2> QED BY <1>2, <2>1 DEF Busy, Destroying, Writing, Claimers, Listing
<1> QED BY <1>5, <1>6, <1>7, <1>8, <1>9, <1>10, <1>11 DEF LifeReads

\* The steps between two writes.
LEMMA MoveKeeps ==
  ASSUME Typed, GraceInv, NEW h \in Handlers, Others(h),
         \/ CreateLock(h) \/ CreateAppend(h) \/ CreateUnlock(h) \/ GcRule(h) \/ GcRemove(h) \/ GcDerived(h) \/ GcDrop(h)
  PROVE  GraceInv'
<1>1. /\ pc \in [Handlers -> Labels] /\ item = [q \in Handlers |-> item[q]] /\ Sane(h)
  BY DEF Typed, LocalTypes, GraceInv
<1>2. UNCHANGED <<wallet, expired>>
  BY DEF CreateLock, CreateAppend, CreateUnlock, GcRule, GcRemove, Queue, GcDerived, GcDrop, walletVars
<1>3. ASSUME pc'[h] \notin WalletSteps \ {"n_unlock", "g_swept", "g_list"} PROVE GraceInv'
  <2>1. pc'[h] \notin Busy /\ pc'[h] \notin Claimers /\ Sane(h)'
    BY <1>3 DEF Busy, Destroying, Writing, Claimers, Listing, Sane, WalletSteps, GcLabels
  <2> QED BY <1>2, <2>1, GoesOn
<1>4. CASE pc[h] = "n_lock" /\ Goto(h, "n_cap")
  <2>1. pc'[h] = "n_cap" /\ item'[h] = item[h] /\ pc[h] \in Claimers /\ pc[h] \in Busy
    BY <1>1, <1>4 DEF Goto, Claimers, Busy
  <2>2. Sane(h)'
    BY <1>1, <1>2, <2>1 DEF Sane, Destroying, Claimers
  <2> QED BY <1>2, <2>1, <2>2, GoesOn
<1>5. CASE pc[h] \in {"g_rule", "g_rem"} /\ pc'[h] \in {"g_rem", "g_record"} /\ item' = item
  <2>1. pc[h] \in Destroying /\ pc[h] \in Busy /\ pc'[h] \notin Claimers
    BY <1>5 DEF Destroying, Busy, Claimers
  <2>2. Sane(h)'
    BY <1>1, <1>2, <1>5, <2>1 DEF Sane, Claimers
  <2> QED BY <1>2, <1>5, <2>1, <2>2, GoesOn
<1>6. CASE CreateLock(h) \/ CreateAppend(h) \/ CreateUnlock(h)
  BY <1>1, <1>3, <1>4, <1>6 DEF CreateLock, CreateAppend, CreateUnlock, Goto, End, WalletSteps, GcLabels
<1>7. CASE GcRule(h) \/ GcRemove(h)
  BY <1>1, <1>5, <1>7 DEF GcRule, GcRemove, Goto
<1>8. CASE GcDerived(h) \/ GcDrop(h)
  BY <1>1, <1>3, <1>8 DEF GcDerived, GcDrop, Goto, End, WalletSteps, GcLabels
<1> QED BY <1>6, <1>7, <1>8

\* A write of the record of its wallet.
LEMMA Written ==
  ASSUME Typed, GraceInv, NEW h \in Handlers, Others(h), pc[h] \in Busy, pc'[h] \notin Claimers,
         pc'[h] \in Busy => item'[h] = item[h], Sane(h)',
         \A v \in Wallets \ {item[h]} : wallet'[v] = wallet[v] /\ (v \in expired' <=> v \in expired),
         \A q \in Handlers \ {h} : pc[q] \in Busy /\ item[q] = item[h] => Sane(q)'
  PROVE  GraceInv'
<1>1. Apart'
  <2>1. \A q \in Handlers \ {h} : pc[q] \in Claimers => item[q] # item[h]
    BY DEF GraceInv, Apart
  <2> QED BY <2>1, StayApart
<1>2. ASSUME NEW q \in Handlers \ {h} PROVE Sane(q)'
  <2>1. CASE pc[q] \in WalletSteps /\ item[q] # item[h]
    <3>1. item[q] \in Wallets
      BY <2>1 DEF Typed, Knows
    <3> QED BY <2>1, <3>1, Elsewhere DEF GraceInv
  <2>2. CASE pc[q] \notin WalletSteps
    BY <2>2, Elsewhere DEF GraceInv
  <2>3. CASE pc[q] \notin Busy
    <3>1. Sane(q) /\ pc'[q] = pc[q] /\ item'[q] = item[q]
      BY DEF GraceInv, Others
    <3> QED BY <2>3, <3>1 DEF Sane, Busy, Destroying, Writing, Claimers
  <2> QED BY <2>1, <2>2, <2>3
<1> QED BY <1>1, <1>2 DEF GraceInv

\* What the others know of a wallet that is written.
LEMMA Neighbours ==
  ASSUME Typed, GraceInv, NEW h \in Handlers, Others(h), NEW q \in Handlers \ {h}, pc[q] \in Busy, item[q] = item[h]
  PROVE  /\ pc'[q] = pc[q] /\ seen'[q] = seen[q] /\ item'[q] = item[h] /\ Sane(q) /\ Sane(h)
         /\ pc[q] \in Claimers => pc[h] \notin Busy
         /\ pc[h] \in Claimers => FALSE
BY DEF GraceInv, Apart, Others

LEMMA PutKeeps ==
  ASSUME Typed, GraceInv, NEW h \in Handlers, Others(h),
         NEW l \in {"d_write", "e_write", "l_write", "g_record"}, NEW x, NEW m \in {"d_rule", "e_rule", "done", "g_swept"},
         PutWallet(h, l, x, m),
         l = "d_write" => x = "archived", l = "l_write" => x = seen[h], l = "g_record" => x = "none"
  PROVE  GraceInv'
<1>1. /\ pc \in [Handlers -> Labels] /\ pc[h] = l /\ wallet \in [Wallets -> {"none", "active", "archived"}] /\ Sane(h)
  BY DEF Typed, LocalTypes, WalletStoreTypeOK, GraceInv, PutWallet
<1>2. pc'[h] \in {"d_rule", "e_rule", "done", "g_swept"}
  BY <1>1 DEF PutWallet, Goto, End
<1>3. pc'[h] \notin Busy /\ pc'[h] \notin Claimers /\ Sane(h)'
  BY <1>2 DEF Busy, Destroying, Writing, Claimers, Listing, Sane
<1>4. CASE UNCHANGED <<wallet, expired>>
  BY <1>3, <1>4, GoesOn
<1>5. CASE /\ wallet' = [wallet EXCEPT ![item[h]] = x]
           /\ expired' = IF l = "d_write" THEN expired \ {item[h]} ELSE expired
  <2>1. item[h] \in Wallets /\ wallet'[item[h]] = x /\ pc[h] \in Busy
    BY <1>1, <1>5 DEF Typed, Knows, WalletSteps, GcLabels, Sane, Busy, Writing, Destroying
  <2>2. \A v \in Wallets \ {item[h]} : wallet'[v] = wallet[v] /\ (v \in expired' <=> v \in expired)
    BY <1>1, <1>5
  <2>3. ASSUME NEW q \in Handlers \ {h}, pc[q] \in Busy, item[q] = item[h] PROVE Sane(q)'
    <3>1. /\ pc'[q] = pc[q] /\ seen'[q] = seen[q] /\ item'[q] = item[h] /\ Sane(q) /\ pc[q] \notin Claimers
      BY <2>1, <2>3, Neighbours
    <3>2. CASE l = "d_write"
      BY <1>1, <1>5, <2>1, <2>3, <3>1, <3>2 DEF Sane, Counted, Destroying, Claimers
    <3>3. CASE l = "l_write"
      BY <1>1, <1>5, <2>1, <2>3, <3>1, <3>3 DEF Sane, Counted, Destroying, Claimers
    <3>4. CASE l = "g_record"
      BY <1>1, <1>5, <2>1, <2>3, <3>1, <3>4 DEF Sane, Counted, Destroying, Claimers
    <3>5. l # "e_write"
      BY <1>1 DEF Sane
    <3> QED BY <3>2, <3>3, <3>4, <3>5
  <2> QED BY <1>3, <2>1, <2>2, <2>3, Written
<1> QED BY <1>4, <1>5 DEF PutWallet

LEMMA NewKeeps ==
  ASSUME Typed, GraceInv, NEW h \in Handlers, Others(h), CreateRecord(h)
  PROVE  GraceInv'
<1>1. /\ pc \in [Handlers -> Labels] /\ pc[h] = "n_new" /\ wallet \in [Wallets -> {"none", "active", "archived"}]
      /\ item' = item /\ expired' = expired /\ pc'[h] \in {"n_list", "n_unlock"}
  BY DEF Typed, LocalTypes, WalletStoreTypeOK, CreateRecord, Goto
<1>2. pc'[h] \notin Claimers /\ Sane(h)' /\ pc[h] \in Busy /\ pc[h] \in Claimers
  BY <1>1 DEF Claimers, Sane, Destroying, Busy
<1>3. CASE UNCHANGED wallet
  BY <1>1, <1>2, <1>3, GoesOn
<1>4. CASE wallet' = [wallet EXCEPT ![item[h]] = "active"]
  <2>1. \A v \in Wallets \ {item[h]} : wallet'[v] = wallet[v] /\ (v \in expired' <=> v \in expired)
    BY <1>1, <1>4
  <2>2. ASSUME NEW q \in Handlers \ {h}, pc[q] \in Busy, item[q] = item[h] PROVE Sane(q)'
    BY <1>2, <2>2, Neighbours
  <2> QED BY <1>1, <1>2, <2>1, <2>2, Written
<1> QED BY <1>3, <1>4 DEF CreateRecord

LEMMA GraceStep ==
  ASSUME Typed, GraceInv, "restore" \notin Jobs, NEW h \in Handlers, WalletsStep(h)
  PROVE  GraceInv'
<1>1. Others(h)
  BY TypedStep DEF Local
<1>2. CASE ArchiveStart(h) \/ RestoreStart(h) \/ LimitsStart(h) \/ CreateStart(h) \/ GcStart(h)
  BY <1>1, <1>2, StartKeeps
<1>3. CASE LifecycleStep(h)
  BY <1>1, <1>3, ReadKeeps, MoveKeeps, PutKeeps, NewKeeps DEF LifecycleStep, LifeReads
<1> QED BY <1>1, <1>2, <1>3, OffWallets, OffKeeps

\* The grace window of a wallet ends.
LEMMA GraceTime ==
  ASSUME Typed, GraceInv, WalletsTime, UNCHANGED localVars
  PROVE  GraceInv'
<1>1. CASE UNCHANGED <<wallet, expired>>
  BY <1>1 DEF GraceInv, Apart, Sane, Counted, localVars
<1>2. ASSUME NEW w \in Wallets, GraceEnds(w) PROVE GraceInv'
  <2>1. Apart'
    BY DEF GraceInv, Apart, localVars
  <2>2. ASSUME NEW h \in Handlers PROVE Sane(h)'
    <3>1. /\ wallet' = wallet /\ expired' = expired \cup {w} /\ wallet[w] = "archived" /\ UNCHANGED <<pc, seen, item>>
          /\ Sane(h)
      BY <1>2 DEF GraceEnds, GraceInv, localVars
    <3>2. pc[h] \in {"idle", "done", "e_read", "e_write", "l_read", "g_read"} \/ (pc[h] = "l_write" /\ seen[h] = "archived")
      BY <1>2 DEF GraceEnds, Running
    <3> QED BY <3>1, <3>2 DEF Sane, Destroying, Claimers
  <2> QED BY <2>1, <2>2 DEF GraceInv
<1> QED BY <1>1, <1>2 DEF WalletsTime, ExpireLane, ExpireCreateLock, ExpireClaim, ExpireFireLock, NextDay, LifecycleKeeps,
    walletVars

LEMMA GraceNext == "restore" \notin Jobs => (Typed /\ GraceInv /\ [WalletsNext]_walletsVars => GraceInv')
<1> SUFFICES ASSUME "restore" \notin Jobs, Typed, GraceInv, [WalletsNext]_walletsVars PROVE GraceInv'
  OBVIOUS
<1>1. CASE UNCHANGED walletsVars
  BY <1>1 DEF GraceInv, Apart, Sane, Counted, walletsVars, localVars, storeVars, walletVars
<1> QED BY <1>1, GraceStep, GraceTime DEF WalletsNext

LEMMA GraceStart == WalletsInit => GraceInv
BY DEF WalletsInit, HandlerInit, GraceInv, Apart, Sane, Destroying, Claimers

\* The record of a wallet, and with it the key, is destroyed only once the
\* grace window of its archiving is over, whatever fails, as long as no wallet
\* is restored: a restore that was decided just before the window ended lets
\* the cron destroy a wallet that was archived again.
THEOREM KeysOutliveGrace == "restore" \notin Jobs => (WalletsSpec => KeyOutlivesGrace)
<1> SUFFICES ASSUME "restore" \notin Jobs PROVE WalletsSpec => KeyOutlivesGrace
  OBVIOUS
<1>1. Typed /\ GraceInv /\ [WalletsNext]_walletsVars
        => [\A w \in Wallets : wallet[w] # "none" /\ wallet'[w] = "none" => w \in expired]_walletsVars
  <2> SUFFICES ASSUME Typed, GraceInv, WalletsNext, NEW w \in Wallets, wallet[w] # "none", wallet'[w] = "none"
               PROVE  w \in expired
    OBVIOUS
  <2>1. ~(wallet' = wallet)
    OBVIOUS
  <2>2. ~WalletsTime
    BY <2>1 DEF WalletsTime, ExpireLane, ExpireCreateLock, ExpireClaim, ExpireFireLock, NextDay, GraceEnds,
       walletVars
  <2>3. PICK h \in Handlers : WalletsStep(h)
    BY <2>2 DEF WalletsNext
  <2>4. ~Off(h)
    BY <2>1 DEF Off, walletVars
  <2>5. LifecycleStep(h)
    BY <2>1, <2>3, <2>4, OffWallets, LifeStarts DEF storeVars, walletVars
  <2>6. /\ wallet \in [Wallets -> {"none", "active", "archived"}] /\ Sane(h)
        /\ pc[h] = "l_write" => seen[h] \in {"active", "archived"}
    BY DEF Typed, WalletStoreTypeOK, Knows, GraceInv
  <2>7. ASSUME NEW l, NEW x, NEW m, PutWallet(h, l, x, m), x # "none" PROVE FALSE
    BY <2>6, <2>7 DEF PutWallet
  <2>8. ~LifeReads(h)
    BY <2>1 DEF LifeReads, ArchiveRead, ArchiveRule, RestoreRead, RestoreRule, LimitsRead, CreateCap, CreateReadList,
       GcRead, GcReadList, storeVars, walletVars
  <2>9. ~CreateLock(h) /\ ~CreateAppend(h) /\ ~CreateUnlock(h) /\ ~GcRule(h) /\ ~GcRemove(h) /\ ~GcDerived(h) /\ ~GcDrop(h)
    BY <2>1 DEF CreateLock, CreateAppend, CreateUnlock, GcRule, GcRemove, Queue, GcDerived, GcDrop, walletVars
  <2>10. ~CreateRecord(h)
    BY <2>6 DEF CreateRecord
  <2>11. PutWallet(h, "l_write", seen[h], "done") => FALSE
    <3>1. PutWallet(h, "l_write", seen[h], "done") => seen[h] # "none"
      BY <2>6 DEF PutWallet
    <3> QED BY <2>7, <3>1
  <2>12. PutWallet(h, "g_record", "none", "g_swept")
    BY <2>5, <2>7, <2>8, <2>9, <2>10, <2>11 DEF LifecycleStep, LifeReads
  <2> QED BY <2>6, <2>12 DEF PutWallet, Sane, Destroying
<1> QED BY <1>1, GraceStart, GraceNext, TypedInit, TypedNext, PTL DEF WalletsSpec, KeyOutlivesGrace

-----------------------------------------------------------------------------
(* The limit on wallets *)

\* Steps of a creation that holds the create lock.
Creating == {"n_cap", "n_new", "n_list", "n_add", "n_unlock"}

\* The wallets of a list that count.
Alive(S) == {w \in S : Counted(w)}
Fewer(S, n) == IsFiniteSet(S) /\ Cardinality(Alive(S)) < n

Capped(h) ==
  /\ pc[h] \in Creating => createLock = h
  /\ pc[h] = "g_drop" => seen[h] \subseteq list
  /\ pc[h] \in {"n_new", "n_list"} => Fewer(list \ {item[h]}, Cap)
  /\ pc[h] = "n_add" => list \subseteq seen[h] /\ Fewer(seen[h] \ {item[h]}, Cap)

CapInv ==
  /\ Fewer(list, Cap + 1)
  /\ \A g, h \in Handlers : pc[g] \in GcLabels /\ pc[h] \in GcLabels => g = h
  /\ \A h \in Handlers : Capped(h)

\* What a set loses, and what a wallet of it loses, leaves it as small.
LEMMA FewerStay ==
  ASSUME NEW S, NEW T, NEW n \in Nat, Fewer(S, n), T \subseteq S, \A w \in T : Counted(w)' => Counted(w)
  PROVE  IsFiniteSet(T) /\ IsFiniteSet({w \in T : Counted(w)'}) /\ Cardinality({w \in T : Counted(w)'}) < n
<1>1. IsFiniteSet(Alive(S)) /\ IsFiniteSet(T)
  BY FS_Subset DEF Fewer, Alive
<1>2. {w \in T : Counted(w)'} \subseteq Alive(S)
  BY DEF Alive
<1>3. IsFiniteSet({w \in T : Counted(w)'}) /\ Cardinality({w \in T : Counted(w)'}) <= Cardinality(Alive(S))
  BY <1>1, <1>2, FS_Subset
<1>4. Cardinality({w \in T : Counted(w)'}) \in Nat /\ Cardinality(Alive(S)) \in Nat
  BY <1>1, <1>3, FS_CardinalityType
<1> QED BY <1>1, <1>3, <1>4 DEF Fewer

\* What a step leaves of the invariant to the others.
LEMMA CapFrame ==
  ASSUME Typed, Typed', CapInv, NEW h \in Handlers, Others(h),
         \A q \in Handlers \ {h} : pc[q] \in Creating =>
            createLock' = q /\ list' \subseteq list /\ \A w \in Wallets : Counted(w)' => Counted(w),
         \A q \in Handlers \ {h} : pc[q] = "g_drop" => list \subseteq list',
         Fewer(list, Cap + 1)', Capped(h)',
         pc'[h] \in GcLabels => pc[h] \in GcLabels \/ \A q \in Handlers \ {h} : pc[q] \notin GcLabels
  PROVE  CapInv'
<1>1. ASSUME NEW q \in Handlers \ {h} PROVE Capped(q)'
  <2>1. pc'[q] = pc[q] /\ seen'[q] = seen[q] /\ item'[q] = item[q] /\ Capped(q)
    BY DEF Others, CapInv
  <2>2. pc[q] \in Creating => createLock' = q
    OBVIOUS
  <2>3. pc[q] = "g_drop" => seen[q] \subseteq list'
    BY <2>1 DEF Capped
  <2>4. ASSUME pc[q] \in {"n_new", "n_list"} PROVE Fewer(list \ {item[q]}, Cap)'
    <3>1. Fewer(list \ {item[q]}, Cap)
      BY <2>1, <2>4 DEF Capped
    <3>2. list' \subseteq list /\ \A w \in Wallets : Counted(w)' => Counted(w)
      BY <2>4 DEF Creating
    <3>3. list' \ {item[q]} \subseteq list \ {item[q]} /\ list' \subseteq Wallets /\ Cap \in Nat
      BY <3>2, WalletAssumption DEF Typed, WalletStoreTypeOK
    <3>4. /\ IsFiniteSet(list' \ {item[q]}) /\ Cardinality({w \in list' \ {item[q]} : Counted(w)'}) < Cap
      BY <3>1, <3>2, <3>3, FewerStay
    <3> QED BY <2>1, <3>4 DEF Fewer, Alive
  <2>5. ASSUME pc[q] = "n_add" PROVE (list \subseteq seen[q] /\ Fewer(seen[q] \ {item[q]}, Cap))'
    <3>1. list \subseteq seen[q] /\ Fewer(seen[q] \ {item[q]}, Cap) /\ seen[q] \subseteq Wallets
      BY <2>1, <2>5 DEF Capped, Typed, Knows
    <3>2. list' \subseteq list /\ (\A w \in Wallets : Counted(w)' => Counted(w)) /\ Cap \in Nat
      BY <2>5, WalletAssumption DEF Creating
    <3>3. /\ IsFiniteSet(seen[q] \ {item[q]}) /\ Cardinality({w \in seen[q] \ {item[q]} : Counted(w)'}) < Cap
      BY <3>1, <3>2, FewerStay
    <3> QED BY <2>1, <3>1, <3>2, <3>3 DEF Fewer, Alive
  <2> QED BY <2>1, <2>2, <2>3, <2>4, <2>5 DEF Capped
<1>2. \A g, q \in Handlers : pc'[g] \in GcLabels /\ pc'[q] \in GcLabels => g = q
  <2>1. \A g, q \in Handlers : pc[g] \in GcLabels /\ pc[q] \in GcLabels => g = q
    BY DEF CapInv
  <2> QED BY <2>1 DEF Others
<1> QED BY <1>1, <1>2 DEF CapInv

\* A step that leaves the list as it is, and lets no wallet count that did not.
LEMMA CapQuiet ==
  ASSUME Typed, Typed', CapInv, NEW h \in Handlers, Others(h), list' = list,
         \A w \in Wallets : Counted(w)' => Counted(w),
         \A q \in Handlers \ {h} : pc[q] \in Creating => createLock' = q,
         Capped(h)',
         pc'[h] \in GcLabels => pc[h] \in GcLabels \/ \A q \in Handlers \ {h} : pc[q] \notin GcLabels
  PROVE  CapInv'
<1>1. Fewer(list, Cap + 1) /\ list \subseteq Wallets /\ Cap + 1 \in Nat
  BY WalletAssumption DEF CapInv, Typed, WalletStoreTypeOK
<1>2. IsFiniteSet(list) /\ Cardinality({w \in list : Counted(w)'}) < Cap + 1
  BY <1>1, FewerStay
<1>3. Fewer(list, Cap + 1)'
  BY <1>2 DEF Fewer, Alive
<1> QED BY <1>3, CapFrame

\* Only a creation makes a wallet count.
LEMMA CountedFalls ==
  ASSUME Typed, GraceInv, NEW h \in Handlers, Others(h), LifecycleStep(h), NEW w \in Wallets, Counted(w)'
  PROVE  Counted(w) \/ (CreateRecord(h) /\ w = item[h])
<1>1. wallet \in [Wallets -> {"none", "active", "archived"}] /\ Sane(h)
  BY DEF Typed, WalletStoreTypeOK, GraceInv
<1>2. CASE UNCHANGED <<wallet, expired>>
  BY <1>2 DEF Counted
<1>3. CASE LifeReads(h)
  BY <1>2, <1>3 DEF LifeReads, ArchiveRead, ArchiveRule, RestoreRead, RestoreRule, LimitsRead, CreateCap, CreateReadList,
     GcRead, GcReadList, storeVars, walletVars
<1>4. CASE CreateLock(h) \/ CreateAppend(h) \/ CreateUnlock(h) \/ GcRule(h) \/ GcRemove(h) \/ GcDerived(h) \/ GcDrop(h)
  BY <1>2, <1>4 DEF CreateLock, CreateAppend, CreateUnlock, GcRule, GcRemove, Queue, GcDerived, GcDrop, walletVars
<1>5. CASE CreateRecord(h)
  BY <1>1, <1>5 DEF CreateRecord, Counted
<1>6. ASSUME NEW l \in {"d_write", "e_write", "l_write", "g_record"}, NEW x, NEW m, PutWallet(h, l, x, m),
             l = "d_write" => x = "archived", l = "l_write" => x = seen[h], l = "g_record" => x = "none"
      PROVE  Counted(w)
  <2>1. CASE w # item[h]
    BY <1>1, <1>2, <1>6, <2>1 DEF PutWallet, Counted
  <2>2. CASE w = item[h] /\ l = "d_write"
    BY <1>6, <2>2, <1>1 DEF PutWallet, Sane
  <2>3. CASE w = item[h] /\ l = "l_write"
    BY <1>1, <1>2, <1>6, <2>3 DEF PutWallet, Sane, Counted
  <2>4. CASE w = item[h] /\ l = "g_record"
    BY <1>1, <1>2, <1>6, <2>4 DEF PutWallet, Counted
  <2>5. l # "e_write"
    BY <1>1, <1>6 DEF PutWallet, Sane
  <2> QED BY <2>1, <2>2, <2>3, <2>4, <2>5
<1> QED BY <1>3, <1>4, <1>5, <1>6 DEF LifecycleStep, LifeReads

\* A lock that is not touched stays with its holder.
LEMMA LockKept ==
  ASSUME CapInv, NEW h \in Handlers, createLock' = createLock
  PROVE  \A q \in Handlers \ {h} : pc[q] \in Creating => createLock' = q
BY DEF CapInv, Capped

\* Whoever holds the lock is the only one that creates.
LEMMA OnlyHolder ==
  ASSUME CapInv, NEW h \in Handlers, pc[h] \in Creating \/ createLock = None
  PROVE  \A q \in Handlers \ {h} : pc[q] \notin Creating
BY NoneIsNothing DEF CapInv, Capped

LEMMA StartCap ==
  ASSUME Typed, Typed', CapInv, NEW h \in Handlers, Others(h),
         \/ Off(h)
         \/ ArchiveStart(h) \/ RestoreStart(h) \/ LimitsStart(h) \/ CreateStart(h) \/ GcStart(h)
  PROVE  CapInv'
<1>1. UNCHANGED walletVars /\ pc'[h] \notin Creating \cup {"g_drop"}
  BY LifeStarts DEF Off, storeVars, walletVars, WalletSteps, GcLabels, Creating
<1>2. Capped(h)'
  BY <1>1 DEF Capped, Creating
<1>3. pc'[h] \in GcLabels => \A q \in Handlers \ {h} : pc[q] \notin GcLabels
  <2>1. pc'[h] \in GcLabels => GcStart(h)
    <3>1. ~Off(h) \/ pc'[h] \notin GcLabels
      BY DEF Off, WalletSteps
    <3>2. ASSUME NEW job, NEW l, NEW x, Begin(h, job, l, x) PROVE pc'[h] = l
      BY <3>2 DEF Begin, Typed, LocalTypes
    <3> QED BY <3>1, <3>2 DEF ArchiveStart, RestoreStart, LimitsStart, CreateStart, GcLabels
  <2> QED BY <2>1 DEF GcStart
<1>4. \A w \in Wallets : Counted(w)' => Counted(w)
  BY <1>1 DEF walletVars, Counted
<1> QED BY <1>1, <1>2, <1>3, <1>4, LockKept, CapQuiet DEF walletVars

LEMMA ReadCap ==
  ASSUME Typed, Typed', CapInv, NEW h \in Handlers, Others(h), LifeReads(h)
  PROVE  CapInv'
<1>1. /\ UNCHANGED walletVars /\ pc \in [Handlers -> Labels] /\ seen = [q \in Handlers |-> seen[q]]
      /\ list \subseteq Wallets /\ Cap \in Nat /\ Fewer(list, Cap + 1) /\ Capped(h)
  BY WalletAssumption DEF LifeReads, ArchiveRead, ArchiveRule, RestoreRead, RestoreRule, LimitsRead, CreateCap,
     CreateReadList, GcRead, GcReadList, storeVars, Typed, LocalTypes, WalletStoreTypeOK, CapInv
<1>2. \A w \in Wallets : Counted(w)' => Counted(w)
  BY <1>1 DEF walletVars, Counted
<1>3. ASSUME Capped(h)', pc'[h] \in GcLabels => pc[h] \in GcLabels PROVE CapInv'
  BY <1>1, <1>2, <1>3, LockKept, CapQuiet DEF walletVars
<1>4. ASSUME pc'[h] \notin Creating \cup {"g_drop"} PROVE Capped(h)'
  BY <1>4 DEF Capped, Creating
<1>5. CASE ArchiveRead(h) \/ ArchiveRule(h) \/ RestoreRead(h) \/ RestoreRule(h) \/ LimitsRead(h) \/ GcRead(h)
  <2>1. /\ pc'[h] \in {"d_write", "u_put", "e_write", "l_write", "g_rule", "done"}
        /\ pc'[h] = "g_rule" => pc[h] = "g_read"
    BY <1>1, <1>5 DEF ArchiveRead, ArchiveRule, RestoreRead, RestoreRule, LimitsRead, GcRead, WriteBack, Goto, Take, End
  <2> QED BY <1>3, <1>4, <2>1 DEF Creating, GcLabels
<1>6. CASE CreateCap(h)
  <2>1. pc[h] = "n_cap" /\ pc'[h] \in {"n_new", "n_unlock"} /\ item' = item
    BY <1>1, <1>6 DEF CreateCap, Goto
  <2>2. createLock' = h
    BY <1>1, <2>1 DEF Capped, Creating, walletVars
  <2>3. ASSUME pc'[h] = "n_new" PROVE Fewer(list \ {item[h]}, Cap)
    <3> DEFINE A == {w \in list : wallet[w] # "none"}
               B == Alive(list \ {item[h]})
    <3>1. Cardinality(A) < Cap
      BY <1>1, <1>6, <2>3 DEF CreateCap, Goto
    <3>2. IsFiniteSet(list) /\ A \subseteq list /\ B \subseteq A /\ list \ {item[h]} \subseteq list
      BY <1>1 DEF Fewer, Alive, Counted
    <3>3. IsFiniteSet(A) /\ IsFiniteSet(B) /\ IsFiniteSet(list \ {item[h]})
      BY <3>2, FS_Subset
    <3> HIDE DEF A, B
    <3>4. Cardinality(B) <= Cardinality(A) /\ Cardinality(B) \in Nat /\ Cardinality(A) \in Nat
      BY <3>2, <3>3, FS_Subset, FS_CardinalityType
    <3>5. Cardinality(B) < Cap
      BY <1>1, <3>1, <3>4
    <3> QED BY <3>3, <3>5 DEF Fewer, B
  <2>4. Capped(h)'
    <3>1. pc'[h] = "n_new" => Fewer(list \ {item[h]}, Cap)'
      BY <1>1, <2>1, <2>3 DEF Fewer, Alive, Counted, walletVars
    <3> QED BY <2>1, <2>2, <3>1 DEF Capped
  <2> QED BY <1>3, <2>1, <2>4 DEF GcLabels
<1>7. CASE CreateReadList(h)
  <2>1. /\ pc[h] = "n_list" /\ pc'[h] \in {"n_add", "n_unlock"} /\ item' = item
        /\ pc'[h] = "n_add" => seen'[h] = list
    BY <1>1, <1>7 DEF CreateReadList, Goto, Take
  <2>2. createLock' = h /\ list' = list
    BY <1>1, <2>1 DEF Capped, Creating, walletVars
  <2>3. Fewer(list \ {item[h]}, Cap)'
    <3>1. Fewer(list \ {item[h]}, Cap)
      BY <1>1, <2>1 DEF Capped
    <3> QED BY <1>1, <2>1, <3>1 DEF Fewer, Alive, Counted, walletVars
  <2>4. pc'[h] = "n_add" => (list \subseteq seen[h] /\ Fewer(seen[h] \ {item[h]}, Cap))'
    BY <2>1, <2>2, <2>3
  <2>5. Capped(h)'
    BY <2>1, <2>2, <2>4 DEF Capped
  <2> QED BY <1>3, <2>1, <2>5 DEF GcLabels
<1>8. CASE GcReadList(h)
  <2>1. pc[h] = "g_list" /\ (pc'[h] = "done" \/ (pc'[h] = "g_drop" /\ seen'[h] = list))
    BY <1>1, <1>8 DEF GcReadList, Take, End
  <2>2. list' = list
    BY <1>1 DEF walletVars
  <2>3. Capped(h)'
    BY <2>1, <2>2 DEF Capped, Creating
  <2> QED BY <1>3, <2>1, <2>3 DEF GcLabels
<1> QED BY <1>5, <1>6, <1>7, <1>8 DEF LifeReads

\* Steps that write neither the list nor the lock, and no new record.
LEMMA PlainCap ==
  ASSUME Typed, Typed', GraceInv, CapInv, NEW h \in Handlers, Others(h), LifecycleStep(h), ~CreateRecord(h),
         UNCHANGED <<list, createLock>>, pc'[h] \notin Creating \cup {"g_drop"},
         pc'[h] \in GcLabels => pc[h] \in GcLabels
  PROVE  CapInv'
<1>1. Capped(h)'
  BY DEF Capped, Creating
<1> QED BY <1>1, CountedFalls, LockKept, CapQuiet

\* One more wallet, of fewer than the limit.
LEMMA OneMore ==
  ASSUME NEW S, NEW w, NEW T, NEW n \in Nat, IsFiniteSet(S), IsFiniteSet(T), Cardinality(S) < n,
         T \subseteq S \cup {w}
  PROVE  Cardinality(T) < n + 1
<1>1. IsFiniteSet(S \cup {w}) /\ Cardinality(S \cup {w}) <= Cardinality(S) + 1
  <2>1. IsFiniteSet(S \cup {w})
    BY FS_AddElement
  <2>2. Cardinality(S \cup {w}) = IF w \in S THEN Cardinality(S) ELSE Cardinality(S) + 1
    BY FS_AddElement
  <2>3. Cardinality(S) \in Nat
    BY FS_CardinalityType
  <2> QED BY <2>1, <2>2, <2>3
<1>2. Cardinality(T) <= Cardinality(S \cup {w})
  BY <1>1, FS_Subset
<1>3. Cardinality(T) \in Nat /\ Cardinality(S \cup {w}) \in Nat /\ Cardinality(S) \in Nat
  BY <1>1, FS_CardinalityType
<1> QED BY <1>1, <1>2, <1>3

LEMMA RecordCap ==
  ASSUME Typed, Typed', GraceInv, CapInv, NEW h \in Handlers, Others(h), CreateRecord(h)
  PROVE  CapInv'
<1>1. /\ pc[h] = "n_new" /\ pc'[h] \in {"n_list", "n_unlock"} /\ item' = item /\ UNCHANGED <<list, createLock, expired>>
      /\ Capped(h) /\ list \subseteq Wallets /\ Cap \in Nat
      /\ wallet' = wallet \/ wallet' = [wallet EXCEPT ![item[h]] = "active"]
      /\ wallet \in [Wallets -> {"none", "active", "archived"}]
  BY WalletAssumption DEF CreateRecord, Goto, Typed, LocalTypes, WalletStoreTypeOK, CapInv
<1>2. createLock = h /\ Fewer(list \ {item[h]}, Cap)
  BY <1>1 DEF Capped, Creating
<1>3. \A w \in Wallets \ {item[h]} : Counted(w)' => Counted(w)
  BY <1>1 DEF Counted
<1>4. Fewer(list \ {item[h]}, Cap)'
  <2>1. list \ {item[h]} \subseteq list \ {item[h]} /\ \A w \in list \ {item[h]} : Counted(w)' => Counted(w)
    BY <1>1, <1>3
  <2>2. IsFiniteSet(list \ {item[h]}) /\ Cardinality({w \in list \ {item[h]} : Counted(w)'}) < Cap
    BY <1>1, <1>2, <2>1, FewerStay
  <2> QED BY <1>1, <2>2 DEF Fewer, Alive
<1>5. Fewer(list, Cap + 1)'
  <2> DEFINE S == Alive(list \ {item[h]})'
             T == Alive(list)'
  <2>1. Cardinality(S) < Cap /\ T \subseteq S \cup {item[h]} /\ S \subseteq list \ {item[h]} /\ T \subseteq list
    BY <1>1, <1>4 DEF Fewer, Alive
  <2>2. IsFiniteSet(list) /\ IsFiniteSet(list \ {item[h]})
    BY <1>2 DEF Fewer, CapInv
  <2>3. IsFiniteSet(S) /\ IsFiniteSet(T)
    BY <2>1, <2>2, FS_Subset
  <2> HIDE DEF S, T
  <2>4. Cardinality(T) < Cap + 1
    BY <1>1, <2>1, <2>3, OneMore
  <2> QED BY <1>1, <2>2, <2>4 DEF Fewer, T
<1>6. Capped(h)'
  BY <1>1, <1>2, <1>4 DEF Capped
<1>7. \A q \in Handlers \ {h} : pc[q] \notin Creating
  BY <1>1, OnlyHolder DEF Creating
<1>8. pc'[h] \notin GcLabels
  BY <1>1 DEF GcLabels
<1> QED BY <1>1, <1>5, <1>6, <1>7, <1>8, CapFrame

LEMMA AppendCap ==
  ASSUME Typed, Typed', GraceInv, CapInv, NEW h \in Handlers, Others(h), CreateAppend(h)
  PROVE  CapInv'
<1>1. /\ pc[h] = "n_add" /\ pc'[h] = "n_unlock" /\ UNCHANGED <<wallet, expired, createLock>>
      /\ list' = list \/ list' = seen[h] \cup {item[h]}
      /\ Capped(h) /\ Cap \in Nat /\ Fewer(list, Cap + 1)
  BY WalletAssumption DEF CreateAppend, Goto, Typed, LocalTypes, CapInv
<1>2. createLock' = h /\ list \subseteq seen[h] /\ Fewer(seen[h] \ {item[h]}, Cap)
  BY <1>1 DEF Capped, Creating
<1>3. \A w : Counted(w)' <=> Counted(w)
  BY <1>1 DEF Counted
<1>4. Fewer(list, Cap + 1)'
  <2>1. CASE list' = list
    BY <1>1, <1>3, <2>1 DEF Fewer, Alive
  <2>2. CASE list' = seen[h] \cup {item[h]}
    <3> DEFINE R == seen[h] \ {item[h]}
               S == Alive(R)
               T == {w \in list' : Counted(w)'}
    <3>1. Cardinality(S) < Cap /\ IsFiniteSet(R) /\ S \subseteq R
      BY <1>2 DEF Fewer, Alive
    <3>2. T \subseteq S \cup {item[h]} /\ T \subseteq list' /\ list' = R \cup {item[h]}
      BY <1>3, <2>2 DEF Alive
    <3> HIDE DEF R, S, T
    <3>3. IsFiniteSet(list') /\ IsFiniteSet(S)
      BY <3>1, <3>2, FS_AddElement, FS_Subset
    <3>4. IsFiniteSet(T)
      BY <3>2, <3>3, FS_Subset
    <3>5. Cardinality(T) < Cap + 1
      BY <1>1, <3>1, <3>2, <3>3, <3>4, OneMore
    <3> QED BY <3>3, <3>5 DEF Fewer, Alive, T
  <2> QED BY <1>1, <2>1, <2>2
<1>5. Capped(h)'
  BY <1>1, <1>2 DEF Capped
<1>6. \A q \in Handlers \ {h} : pc[q] \notin Creating
  BY <1>1, OnlyHolder DEF Creating
<1>7. pc'[h] \notin GcLabels /\ list \subseteq list'
  BY <1>1, <1>2 DEF GcLabels
<1> QED BY <1>4, <1>5, <1>6, <1>7, CapFrame

LEMMA DropCap ==
  ASSUME Typed, Typed', GraceInv, CapInv, NEW h \in Handlers, Others(h), GcDrop(h)
  PROVE  CapInv'
<1>1. /\ pc[h] = "g_drop" /\ pc'[h] = "done" /\ UNCHANGED <<wallet, expired, createLock>>
      /\ list' = list \/ list' = seen[h] \ {item[h]}
  BY DEF GcDrop, End, Typed, LocalTypes
<1>2. Capped(h) /\ Cap + 1 \in Nat /\ Fewer(list, Cap + 1) /\ list \subseteq Wallets
  BY WalletAssumption DEF Typed, WalletStoreTypeOK, CapInv
<1>3. list' \subseteq list
  BY <1>1, <1>2 DEF Capped
<1>4. \A w \in Wallets : Counted(w)' => Counted(w)
  BY <1>1 DEF Counted
<1>5. Fewer(list, Cap + 1)'
  <2>1. IsFiniteSet(list') /\ Cardinality({w \in list' : Counted(w)'}) < Cap + 1
    BY <1>2, <1>3, <1>4, FewerStay
  <2> QED BY <2>1 DEF Fewer, Alive
<1>6. Capped(h)' /\ pc'[h] \notin GcLabels
  BY <1>1 DEF Capped, Creating, GcLabels
<1>7. \A q \in Handlers \ {h} : pc[q] \notin GcLabels
  BY <1>1 DEF CapInv, GcLabels
<1>8. \A q \in Handlers \ {h} : pc[q] # "g_drop"
  BY <1>7 DEF GcLabels
<1> QED BY <1>1, <1>3, <1>4, <1>5, <1>6, <1>8, LockKept, CapFrame

LEMMA LockCap ==
  ASSUME Typed, Typed', GraceInv, CapInv, NEW h \in Handlers, Others(h), CreateLock(h) \/ CreateUnlock(h)
  PROVE  CapInv'
<1>1. /\ UNCHANGED <<wallet, expired, list>> /\ pc \in [Handlers -> Labels] /\ Capped(h)
      /\ pc[h] \in {"n_lock", "n_unlock"} /\ pc'[h] \in {"n_cap", "done"}
  BY DEF CreateLock, CreateUnlock, Goto, End, Typed, LocalTypes, CapInv
<1>2. \A w \in Wallets : Counted(w)' => Counted(w)
  BY <1>1 DEF Counted
<1>3. pc'[h] \notin GcLabels
  BY <1>1 DEF GcLabels
<1>4. (pc'[h] = "n_cap" => createLock' = h) => Capped(h)'
  BY <1>1 DEF Capped, Creating
<1>5. CASE CreateLock(h)
  <2>1. CASE createLock = None /\ createLock' = h
    <3>1. \A q \in Handlers \ {h} : pc[q] \notin Creating
      BY <2>1, OnlyHolder
    <3> QED BY <1>1, <1>2, <1>3, <1>4, <2>1, <3>1, CapQuiet
  <2>2. CASE End(h) /\ UNCHANGED createLock
    <3>1. pc'[h] = "done"
      BY <1>1, <2>2 DEF End
    <3> QED BY <1>1, <1>2, <1>3, <1>4, <2>2, <3>1, LockKept, CapQuiet
  <2> QED BY <1>5, <2>1, <2>2 DEF CreateLock
<1>6. CASE CreateUnlock(h)
  <2>1. pc'[h] = "done" /\ pc[h] \in Creating
    BY <1>1, <1>6 DEF CreateUnlock, End, Creating
  <2>2. \A q \in Handlers \ {h} : pc[q] \notin Creating
    BY <2>1, OnlyHolder
  <2> QED BY <1>1, <1>2, <1>3, <1>4, <2>1, <2>2, CapQuiet
<1> QED BY <1>5, <1>6

LEMMA CapStep ==
  ASSUME Typed, GraceInv, CapInv, NEW h \in Handlers, WalletsStep(h)
  PROVE  CapInv'
<1>1. Others(h) /\ Typed'
  BY TypedStep DEF Local
<1>2. CASE ~LifecycleStep(h)
  BY <1>1, <1>2, OffWallets, StartCap
<1>3. CASE LifecycleStep(h)
  <2>1. pc \in [Handlers -> Labels]
    BY DEF Typed, LocalTypes
  <2>2. CASE LifeReads(h)
    BY <1>1, <2>2, ReadCap
  <2>3. ASSUME NEW l, NEW x, NEW m \in {"d_rule", "e_rule", "done"}, PutWallet(h, l, x, m) PROVE CapInv'
    <3>1. pc'[h] \in {"d_rule", "e_rule", "done"} /\ UNCHANGED <<list, createLock>>
      BY <2>1, <2>3 DEF PutWallet, Goto, End
    <3>2. ~CreateRecord(h)
      BY <2>1, <3>1 DEF CreateRecord, Goto
    <3> QED BY <1>1, <1>3, <3>1, <3>2, PlainCap DEF Creating, GcLabels
  <2>4. CASE PutWallet(h, "g_record", "none", "g_swept") \/ GcRule(h) \/ GcRemove(h) \/ GcDerived(h)
    <3>1. /\ pc[h] \in {"g_record", "g_rule", "g_rem", "g_swept"} /\ UNCHANGED <<list, createLock>>
          /\ pc'[h] \in {"g_rem", "g_record", "g_swept", "g_list", "done"}
      BY <2>1, <2>4 DEF PutWallet, GcRule, GcRemove, GcDerived, Queue, Goto, End, walletVars
    <3>2. ~CreateRecord(h)
      BY <3>1 DEF CreateRecord
    <3> QED BY <1>1, <1>3, <3>1, <3>2, PlainCap DEF Creating, GcLabels
  <2> QED BY <1>1, <1>3, <2>2, <2>3, <2>4, RecordCap, AppendCap, DropCap, LockCap DEF LifecycleStep, LifeReads
<1> QED BY <1>2, <1>3

\* The create lock runs out only when nobody creates, and the end of a grace
\* window makes no wallet count.
LEMMA CapTime ==
  ASSUME Typed, Typed', CapInv, WalletsTime, UNCHANGED localVars
  PROVE  CapInv'
<1>1. list' = list /\ \A w \in Wallets : Counted(w)' => Counted(w)
  BY DEF WalletsTime, ExpireLane, ExpireCreateLock, ExpireClaim, ExpireFireLock, NextDay, GraceEnds, LifecycleKeeps,
     walletVars, Counted
<1>2. UNCHANGED <<pc, seen, item>>
  BY DEF localVars
<1>3. ASSUME NEW S, NEW n \in Nat, S \subseteq Wallets, Fewer(S, n)
      PROVE  IsFiniteSet(S) /\ Cardinality({w \in S : Counted(w)'}) < n
  BY <1>1, <1>3, FewerStay
<1>4. list \subseteq Wallets /\ Cap \in Nat /\ Cap + 1 \in Nat
  BY WalletAssumption DEF Typed, WalletStoreTypeOK
<1>5. Fewer(list, Cap + 1)'
  <2>1. Fewer(list, Cap + 1)
    BY DEF CapInv
  <2>2. IsFiniteSet(list) /\ Cardinality({w \in list : Counted(w)'}) < Cap + 1
    BY <1>3, <1>4, <2>1
  <2> QED BY <1>1, <2>2 DEF Fewer, Alive
<1>6. ASSUME NEW h \in Handlers PROVE Capped(h)'
  <2>1. Capped(h) /\ (pc[h] = "n_add" => seen[h] \subseteq Wallets)
    BY DEF CapInv, Typed, Knows
  <2>2. pc[h] \in Creating => createLock' = h
    <3>1. createLock' = createLock \/ ExpireCreateLock
      BY DEF WalletsTime, ExpireLane, ExpireClaim, ExpireFireLock, NextDay, GraceEnds, walletVars
    <3>2. pc[h] \in Creating => createLock = h /\ Holds(createLock)
      BY <2>1, NoneIsNothing DEF Capped, Holds, Running, Creating
    <3> QED BY <3>1, <3>2 DEF ExpireCreateLock
  <2>3. pc[h] = "g_drop" => seen[h] \subseteq list
    BY <2>1 DEF Capped
  <2>4. ASSUME pc[h] \in {"n_new", "n_list"} PROVE Fewer(list \ {item[h]}, Cap)'
    <3>1. Fewer(list \ {item[h]}, Cap) /\ list \ {item[h]} \subseteq Wallets
      BY <1>4, <2>1, <2>4 DEF Capped
    <3>2. IsFiniteSet(list \ {item[h]}) /\ Cardinality({w \in list \ {item[h]} : Counted(w)'}) < Cap
      BY <1>3, <1>4, <3>1
    <3> QED BY <1>1, <1>2, <3>2 DEF Fewer, Alive
  <2>5. ASSUME pc[h] = "n_add" PROVE list \subseteq seen[h] /\ Fewer(seen[h] \ {item[h]}, Cap)'
    <3>1. list \subseteq seen[h] /\ Fewer(seen[h] \ {item[h]}, Cap) /\ seen[h] \ {item[h]} \subseteq Wallets
      BY <2>1, <2>5 DEF Capped
    <3>2. IsFiniteSet(seen[h] \ {item[h]}) /\ Cardinality({w \in seen[h] \ {item[h]} : Counted(w)'}) < Cap
      BY <1>3, <1>4, <3>1
    <3> QED BY <1>2, <3>1, <3>2 DEF Fewer, Alive
  <2> QED BY <1>1, <1>2, <2>2, <2>3, <2>4, <2>5 DEF Capped
<1>7. \A g, h \in Handlers : pc'[g] \in GcLabels /\ pc'[h] \in GcLabels => g = h
  BY <1>2 DEF CapInv
<1> QED BY <1>5, <1>6, <1>7 DEF CapInv

\* Creations in parallel with each other, with the cron and with every change
\* of a wallet do not overrun the limit on wallets, whatever fails, as long as
\* no wallet is restored.
THEOREM WalletsWithinCap == "restore" \notin Jobs => (WalletsSpec => []CapKept)
<1> SUFFICES ASSUME "restore" \notin Jobs PROVE WalletsSpec => []CapKept
  OBVIOUS
<1>1. WalletsInit => CapInv
  <2> SUFFICES ASSUME WalletsInit PROVE CapInv
    OBVIOUS
  <2>1. list = {Main} /\ \A h \in Handlers : pc[h] = "idle"
    BY DEF WalletsInit, StoreInit, HandlerInit
  <2>2. IsFiniteSet(list) /\ Cardinality(list) = 1
    BY <2>1, FS_Singleton
  <2>3. IsFiniteSet(Alive(list)) /\ Cardinality(Alive(list)) <= Cardinality(list)
    BY <2>2, FS_Subset DEF Alive
  <2>4. Cardinality(Alive(list)) \in Nat /\ Cap \in Nat \ {0}
    BY <2>3, FS_CardinalityType, WalletAssumption
  <2>5. Fewer(list, Cap + 1)
    BY <2>2, <2>3, <2>4 DEF Fewer
  <2> QED BY <2>1, <2>5 DEF CapInv, Capped, GcLabels, Creating
<1>2. Typed /\ GraceInv /\ CapInv /\ [WalletsNext]_walletsVars => CapInv'
  <2> SUFFICES ASSUME Typed, GraceInv, CapInv, [WalletsNext]_walletsVars PROVE CapInv'
    OBVIOUS
  <2>1. CASE UNCHANGED walletsVars
    BY <2>1 DEF CapInv, Capped, Fewer, Alive, Counted, walletsVars, localVars, storeVars, walletVars
  <2> QED BY <2>1, CapStep, CapTime, TypedNext DEF WalletsNext
<1>3. Typed /\ CapInv => CapKept
  <2> SUFFICES ASSUME Typed, CapInv PROVE CapKept
    OBVIOUS
  <2> DEFINE K == {w \in list : wallet[w] # "none"} \ expired
             A == Alive(list)
  <2>1. Cap \in Nat /\ IsFiniteSet(list) /\ Cardinality(A) < Cap + 1 /\ A \subseteq list
    BY WalletAssumption DEF CapInv, Fewer, Alive
  <2>2. K \subseteq A
    BY DEF Alive, Counted
  <2> HIDE DEF K, A
  <2>3. IsFiniteSet(A) /\ Cardinality(A) \in Nat
    BY <2>1, FS_Subset, FS_CardinalityType
  <2>4. Cardinality(K) <= Cardinality(A) /\ Cardinality(K) \in Nat
    BY <2>2, <2>3, FS_Subset, FS_CardinalityType
  <2>5. Cardinality(K) <= Cap
    BY <2>1, <2>3, <2>4
  <2> QED BY <2>5 DEF CapKept, K
<1> QED BY <1>1, <1>2, <1>3, GraceStart, GraceNext, TypedInit, TypedNext, PTL DEF WalletsSpec
=============================================================================
