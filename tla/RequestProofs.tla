--------------------------- MODULE RequestProofs ---------------------------
(***************************************************************************)
(* Proofs about payment requests, for any sets of requests, agents and     *)
(* invocations, next to the traffic of escrow and deposits, and under      *)
(* every fault.                                                            *)
(*                                                                         *)
(* The pay lock is held by one invocation (LockInv), and is left behind by *)
(* a payment, so that a payer who read the request before it was settled   *)
(* finds it held (PaidInv).                                                *)
(***************************************************************************)
EXTENDS Commerce, TLAPS

Worries == {"read", "answer", "marker", "status", "lost", "noop", "kept"}
Things == Requests \cup Escrows \cup Transfers

ReqSteps == LockSteps \cup {"p_mark", "p_lock", "x_lock"}
PaySteps == {"p_mark", "p_lock", "p_settle", "p_note"}
EscSteps == EscLockSteps \cup {"e_look", "e_prior", "e_lock"}
DepSteps == {"d_mark", "d_list", "d_push", "d_old", "d_set"}

\* An invocation is at a step of the kind of thing it serves.
Serves(h) == /\ pc[h] \in ReqSteps => on[h] \in Requests
             /\ pc[h] \in EscSteps => on[h] \in Escrows
             /\ pc[h] \in DepSteps => on[h] \in Transfers
             /\ pc[h] \in PaySteps => got[h] \in Payers

StepTypes == /\ pc \in [Handlers -> CommerceSteps] /\ on \in [Handlers -> Things \cup {None}]
             /\ unsure \in [Things -> SUBSET Worries] /\ got = [h \in Handlers |-> got[h]]

Serving == StepTypes /\ \A h \in Handlers : Serves(h)

\* A step of h leaves the others where they are.
Others(h) == \A q \in Handlers \ {h} : pc'[q] = pc[q] /\ on'[q] = on[q] /\ got'[q] = got[q]

Moves(h) == StepTypes' /\ Serves(h)' /\ Others(h)

\* A step that is not about requests.
Elsewhere ==
  /\ \A r \in Requests : unsure'[r] = unsure[r]
  /\ \A h \in Handlers : \/ pc'[h] = pc[h] /\ on'[h] = on[h]
                         \/ pc[h] \notin ReqSteps /\ pc'[h] \notin ReqSteps

LEMMA ServingInit == CommerceInit => Serving
BY DEF CommerceInit, Serving, StepTypes, Serves, Things, CommerceSteps, ReqSteps, LockSteps, EscSteps,
       EscLockSteps, DepSteps, PaySteps

\* The ways in which a handler goes on.
LEMMA GoesOn ==
  ASSUME Serving, NEW h \in Handlers, NEW l \in CommerceSteps,
         \/ Goto(h, l) \/ (\E g : Keep(h, l, g)) \/ (l = "idle" /\ Finish(h)),
         \/ Sure \/ \E x \in Things, why \in SUBSET Worries : Doubt(x, why),
         \/ l = "idle"
         \/ l \in ReqSteps /\ on[h] \in Requests /\ Goto(h, l) /\ (l \in PaySteps => pc[h] \in PaySteps)
         \/ l \in EscSteps /\ on[h] \in Escrows
         \/ l \in DepSteps /\ on[h] \in Transfers
  PROVE  Moves(h) /\ pc'[h] = l
<1>1. pc' = [pc EXCEPT ![h] = l] /\ (on' = on \/ (l = "idle" /\ on' = [on EXCEPT ![h] = None]))
  BY DEF Goto, Keep, Finish
<1>2. unsure' \in [Things -> SUBSET Worries]
  BY DEF Serving, StepTypes, Sure, Doubt
<1>5. got' = got \/ \E g : got' = [got EXCEPT ![h] = g]
  BY DEF Goto, Keep, Finish
<1>6. got' = [q \in Handlers |-> got'[q]] /\ \A q \in Handlers \ {h} : got'[q] = got[q]
  BY <1>5 DEF Serving, StepTypes
<1>3. StepTypes' /\ Others(h) /\ pc'[h] = l
  BY <1>1, <1>2, <1>6 DEF Serving, StepTypes, Others
<1>7. l \in PaySteps => got'[h] \in Payers
  BY DEF Serving, Serves, Goto, ReqSteps, LockSteps, EscSteps, EscLockSteps, DepSteps, PaySteps
<1>4. Serves(h)'
  BY <1>1, <1>3, <1>7 DEF Serving, StepTypes, Serves, ReqSteps, LockSteps, EscSteps, EscLockSteps, DepSteps
<1> QED BY <1>3, <1>4 DEF Moves

LEMMA Begins ==
  ASSUME Serving, NEW h \in Handlers, NEW job, NEW l \in CommerceSteps, NEW x, NEW g,
         Begin(h, job, l, x, g), Sure,
         \/ l \in ReqSteps /\ x \in Requests /\ (l \in PaySteps => g \in Payers)
         \/ l \in EscSteps /\ x \in Escrows
         \/ l \in DepSteps /\ x \in Transfers
  PROVE  Moves(h) /\ pc[h] = "idle" /\ pc'[h] = l /\ on'[h] = x
<1>1. got' = [q \in Handlers |-> got'[q]] /\ \A q \in Handlers : got'[q] = IF q = h THEN g ELSE got[q]
  BY DEF Serving, StepTypes, Begin
<1> QED BY <1>1 DEF Serving, StepTypes, Serves, Moves, Others, Begin, At, Sure, ReqSteps, LockSteps,
            EscSteps, EscLockSteps, DepSteps, PaySteps, Things

\* A deposit, or an escrow, leaves what is about requests alone.
LEMMA Apart ==
  ASSUME Serving, NEW h \in Handlers, Moves(h),
         pc[h] \notin ReqSteps, pc'[h] \notin ReqSteps,
         \A r \in Requests : unsure'[r] = unsure[r]
  PROVE  Serving' /\ Elsewhere
<1>1. \A q \in Handlers : Serves(q)'
  BY DEF Serving, Serves, Moves, Others
<1> QED BY <1>1 DEF Serving, Moves, Others, Elsewhere

LEMMA DepositAside ==
  ASSUME Serving, DepositStep
  PROVE  Serving' /\ Elsewhere
<1> PICK h \in Handlers : \/ DepositStart(h) \/ DepositMark(h) \/ DepositList(h) \/ DepositPush(h)
                          \/ DepositOld(h) \/ DepositSet(h) \/ CrashDeposit(h)
  BY DEF DepositStep
<1>1. /\ {"d_mark", "d_list", "d_push", "d_old", "d_set", "idle"} \subseteq CommerceSteps
      /\ DepSteps \cap ReqSteps = {} /\ "idle" \notin ReqSteps /\ DepSteps \cap EscSteps = {}
      /\ pc[h] \in DepSteps => on[h] \in Transfers
      /\ Transfers \subseteq Things /\ Transfers \cap Requests = {}
  BY CommerceAssumption DEF CommerceSteps, DepSteps, ReqSteps, LockSteps, EscSteps, EscLockSteps, Serving,
     Serves, Things
<1>2. CASE DepositStart(h)
  <2>1. PICK t \in Transfers : \E g : Begin(h, "deposit", "d_mark", t, g) /\ Sure
    BY <1>2 DEF DepositStart
  <2>2. PICK g : Begin(h, "deposit", "d_mark", t, g) /\ Sure
    BY <2>1
  <2>3. Moves(h) /\ pc[h] = "idle" /\ pc'[h] = "d_mark"
    BY <1>1, <2>2, Begins DEF DepSteps
  <2> QED BY <1>1, <2>2, <2>3, Apart DEF Sure, DepSteps
<1>3. ASSUME pc[h] \in DepSteps, NEW l \in DepSteps \cup {"idle"},
             Goto(h, l) \/ (\E g : Keep(h, l, g)) \/ (l = "idle" /\ Finish(h)),
             Sure \/ \E x \in Transfers, why \in SUBSET Worries : Doubt(x, why)
      PROVE  Serving' /\ Elsewhere
  <2>1. Moves(h) /\ pc'[h] = l
    BY <1>1, <1>3, GoesOn DEF DepSteps
  <2>2. \A r \in Requests : unsure'[r] = unsure[r]
    BY <1>1, <1>3 DEF Sure, Doubt, Serving, StepTypes, Things
  <2> QED BY <1>1, <1>3, <2>1, <2>2, Apart
<1>4. CASE DepositMark(h) \/ DepositPush(h)
  BY <1>1, <1>3, <1>4 DEF DepositMark, DepositPush, At, DepSteps
<1>5. CASE DepositList(h) \/ DepositOld(h)
  <2>1. pc[h] \in DepSteps /\ on[h] \in Transfers
    BY <1>1, <1>5 DEF DepositList, DepositOld, At, DepSteps
  <2>2. Sure \/ Doubt(on[h], {"read"})
    BY <1>5 DEF DepositList, DepositOld, Reads
  <2>3. Goto(h, "d_push") \/ (\E g : Keep(h, "d_set", g)) \/ Finish(h)
    BY <1>5 DEF DepositList, DepositOld, DepositKnown
  <2>4. Sure \/ \E x \in Transfers, why \in SUBSET Worries : Doubt(x, why)
    <3>1. {"read"} \in SUBSET Worries
      BY DEF Worries
    <3> QED BY <2>1, <2>2, <3>1, Zenon
  <2>5. CASE Goto(h, "d_push")
    BY <1>3, <2>1, <2>4, <2>5 DEF DepSteps
  <2>6. CASE \E g : Keep(h, "d_set", g)
    BY <1>3, <2>1, <2>4, <2>6 DEF DepSteps
  <2>7. CASE Finish(h)
    BY <1>3, <2>1, <2>4, <2>7
  <2> QED BY <2>3, <2>5, <2>6, <2>7
<1>6. CASE DepositSet(h)
  <2>1. pc[h] \in DepSteps /\ Finish(h)
    BY <1>6 DEF DepositSet, At, DepSteps
  <2>2. CASE Sure
    BY <1>3, <2>1, <2>2
  <2>3. CASE unsure' = [x \in DOMAIN unsure |->
             IF x \in Transfers /\ ledger'[x] < ledger[x] THEN unsure[x] \cup {"lost"} ELSE unsure[x]]
    <3> DEFINE worse(x) == IF x \in Transfers /\ ledger'[x] < ledger[x] THEN unsure[x] \cup {"lost"}
                           ELSE unsure[x]
    <3>3. unsure' = [x \in Things |-> worse(x)]
      BY <2>3 DEF Serving, StepTypes
    <3>4. ASSUME NEW x \in Things PROVE worse(x) \in SUBSET Worries
      <4>1. unsure[x] \in SUBSET Worries
        BY DEF Serving, StepTypes
      <4>2. unsure[x] \cup {"lost"} \in SUBSET Worries
        BY <4>1 DEF Worries
      <4> QED BY <4>1, <4>2
    <3>5. \A r \in Requests : r \in Things /\ worse(r) = unsure[r]
      BY <1>1 DEF Things
    <3> HIDE DEF worse
    <3>1. unsure' \in [Things -> SUBSET Worries] /\ \A r \in Requests : unsure'[r] = unsure[r]
      BY <3>3, <3>4, <3>5
    <3>2. Moves(h) /\ pc'[h] = "idle"
      BY <1>1, <2>1, <3>1 DEF Finish, Moves, Serving, StepTypes, Serves, Others, ReqSteps, LockSteps, EscSteps,
         EscLockSteps, DepSteps, PaySteps
    <3> QED BY <1>1, <2>1, <3>1, <3>2, Apart
  <2> QED BY <1>6, <2>2, <2>3 DEF DepositSet
<1>7. CASE CrashDeposit(h)
  <2>1. pc[h] \notin ReqSteps
    BY <1>1, <1>7 DEF CrashDeposit, Serving, Serves
  <2>2. Moves(h) /\ pc'[h] = "idle"
    BY <1>1, <1>7, GoesOn DEF CrashDeposit
  <2> QED BY <1>1, <1>7, <2>1, <2>2, Apart DEF CrashDeposit, Sure
<1> QED BY <1>2, <1>4, <1>5, <1>6, <1>7

\* What an invocation that serves an escrow does next, and what it casts doubt on.
EscNext(h) == Finish(h) \/ \E l \in EscSteps : Goto(h, l) \/ \E g : Keep(h, l, g)
EscDoubt(h) == Sure \/ \E why \in SUBSET Worries : Doubt(on[h], why)

LEMMA EscSends ==
  ASSUME NEW h \in Handlers,
         \/ LockPrior(h) \/ LockChain(h) \/ LockHeal(h) \/ LockCharge(h) \/ LockSend(h)
         \/ LockPost(h) \/ LockNote(h)
  PROVE  pc[h] \in EscSteps /\ EscNext(h) /\ EscDoubt(h)
<1>1. /\ {} \in SUBSET Worries /\ {"lost"} \in SUBSET Worries /\ {"noop"} \in SUBSET Worries
      /\ {"lost"} \cup {"kept"} \in SUBSET Worries /\ {} \cup {"kept"} \in SUBSET Worries
  BY DEF Worries
<1>2. /\ {"l_prior", "l_chain", "l_heal", "l_charge", "l_send", "l_post", "l_note"} \subseteq EscSteps
      /\ "t_read" \in EscSteps /\ "e_exit" \in EscSteps
  BY DEF EscSteps, EscLockSteps
<1>3. ASSUME NEW l \in EscSteps, Goto(h, l) PROVE EscNext(h)
  BY <1>3 DEF EscNext
<1>4. ASSUME NEW l \in EscSteps, NEW g, Keep(h, l, g) PROVE EscNext(h)
  BY <1>4 DEF EscNext
<1>5. Leave(h) => EscNext(h)
  BY <1>2, <1>4 DEF Leave
<1>6. ASSUME NEW why \in SUBSET Worries, Doubt(on[h], why) PROVE EscDoubt(h)
  BY <1>6 DEF EscDoubt
<1>7. Sure => EscDoubt(h)
  BY DEF EscDoubt
<1>8. ASSUME NEW why \in {{}, {"lost"}}, Unspend(on[h], why) PROVE EscDoubt(h)
  BY <1>1, <1>6, <1>8 DEF Unspend
<1>9. CASE LockPrior(h)
  BY <1>1, <1>2, <1>3, <1>6, <1>7, <1>9 DEF LockPrior, ReadsMark, At
<1>10. CASE LockChain(h)
  BY <1>1, <1>2, <1>3, <1>5, <1>6, <1>7, <1>10 DEF LockChain, At
<1>11. CASE LockHeal(h) \/ LockCharge(h) \/ LockNote(h)
  BY <1>2, <1>3, <1>4, <1>5, <1>7, <1>11 DEF LockHeal, LockCharge, LockNote, At
<1>12. CASE LockSend(h)
  BY <1>1, <1>2, <1>3, <1>5, <1>6, <1>7, <1>8, <1>12 DEF LockSend, At
<1>13. CASE LockPost(h)
  BY <1>1, <1>2, <1>3, <1>5, <1>7, <1>8, <1>13 DEF LockPost, At
<1> QED BY <1>9, <1>10, <1>11, <1>12, <1>13

LEMMA EscOthers ==
  ASSUME NEW h \in Handlers,
         \/ EscLook(h) \/ EscPrior(h) \/ EscTake(h) \/ SettleSend(h) \/ SettleNote(h)
         \/ TransitionRead(h) \/ TransitionWrite(h) \/ GiveBackEscLock(h) \/ CrashEscrow(h)
  PROVE  pc[h] \in EscSteps /\ EscNext(h) /\ EscDoubt(h)
<1>1. {} \in SUBSET Worries /\ {"lost"} \in SUBSET Worries
  BY DEF Worries
<1>2. {"e_look", "e_prior", "e_lock", "e_exit", "l_prior", "s_send", "s_note", "t_read", "t_write"} \subseteq EscSteps
  BY DEF EscSteps, EscLockSteps
<1>3. ASSUME NEW l \in EscSteps, Goto(h, l) PROVE EscNext(h)
  BY <1>3 DEF EscNext
<1>4. ASSUME NEW l \in EscSteps, NEW g, Keep(h, l, g) PROVE EscNext(h)
  BY <1>4 DEF EscNext
<1>5. Leave(h) => EscNext(h)
  BY <1>2, <1>4 DEF Leave
<1>6. ASSUME NEW why \in {{}, {"lost"}}, Doubt(on[h], why) PROVE EscDoubt(h)
  BY <1>1, <1>6 DEF EscDoubt
<1>7. Sure => EscDoubt(h)
  BY DEF EscDoubt
<1>8. Finish(h) => EscNext(h)
  BY DEF EscNext
<1>9. CASE EscLook(h)
  <2>1. \A a : AfterRead(a) \in EscSteps
    BY <1>2 DEF AfterRead
  <2> QED BY <1>2, <1>4, <1>6, <1>7, <1>8, <1>9, <2>1 DEF EscLook, ReadsMark, At
<1>10. CASE EscPrior(h) \/ EscTake(h)
  BY <1>2, <1>3, <1>5, <1>7, <1>8, <1>10 DEF EscPrior, EscTake, At
<1>11. CASE SettleSend(h)
  BY <1>2, <1>3, <1>5, <1>6, <1>7, <1>11 DEF SettleSend, At
<1>12. CASE SettleNote(h) \/ GiveBackEscLock(h)
  BY <1>2, <1>3, <1>4, <1>7, <1>8, <1>12 DEF SettleNote, GiveBackEscLock, At
<1>13. CASE TransitionRead(h) \/ TransitionWrite(h)
  BY <1>2, <1>3, <1>5, <1>6, <1>7, <1>8, <1>13 DEF TransitionRead, TransitionWrite, AfterWrite, At
<1>14. CASE CrashEscrow(h)
  BY <1>6, <1>8, <1>14 DEF CrashEscrow, EscSteps
<1> QED BY <1>9, <1>10, <1>11, <1>12, <1>13, <1>14

LEMMA EscrowAside ==
  ASSUME Serving, EscrowStep
  PROVE  Serving' /\ Elsewhere
<1>1. /\ EscSteps \cap ReqSteps = {} /\ "idle" \notin ReqSteps /\ EscSteps \subseteq CommerceSteps
      /\ "idle" \in CommerceSteps
      /\ Escrows \subseteq Things /\ Escrows \cap Requests = {} /\ Requests \subseteq Things
  BY CommerceAssumption DEF CommerceSteps, ReqSteps, LockSteps, EscSteps, EscLockSteps, Things
<1>2. ASSUME NEW e \in Escrows, UNCHANGED <<pc, on, got>>,
             Sure \/ \E why \in SUBSET Worries : Doubt(e, why)
      PROVE  Serving' /\ Elsewhere
  <2>1. unsure' \in [Things -> SUBSET Worries] /\ \A r \in Requests : unsure'[r] = unsure[r]
    BY <1>1, <1>2 DEF Serving, StepTypes, Sure, Doubt
  <2> QED BY <1>2, <2>1 DEF Serving, StepTypes, Serves, Elsewhere
<1>3. ASSUME NEW e \in Escrows, CreateEscrow(e) \/ PassDeadline(e) \/ ExpireEscLock(e)
                                 \/ RecheckOverdue(e) \/ WriteView(e)
      PROVE  Serving' /\ Elsewhere
  <2>1. {} \in SUBSET Worries /\ {"lost"} \in SUBSET Worries
    BY DEF Worries
  <2>2. CASE PassDeadline(e)
    BY <1>2, <2>1, <2>2 DEF PassDeadline
  <2>3. CASE ~PassDeadline(e)
    BY <1>2, <1>3, <2>3 DEF CreateEscrow, ExpireEscLock, RecheckOverdue, WriteView, jobVars, Sure
  <2> QED BY <2>2, <2>3
<1>4. ASSUME NEW h \in Handlers, EscStart(h) \/ EscStartOverdue(h)
      PROVE  Serving' /\ Elsewhere
  <2>1. PICK e \in Escrows, l \in EscSteps : \E g : Begin(h, "escrow", l, e, g) /\ Sure
    BY <1>4 DEF EscStart, EscStartOverdue, AfterRead, EscSteps, EscLockSteps
  <2>2. PICK g : Begin(h, "escrow", l, e, g) /\ Sure
    BY <2>1
  <2>3. Moves(h) /\ pc[h] = "idle" /\ pc'[h] = l
    BY <1>1, <2>2, Begins
  <2> QED BY <1>1, <2>2, <2>3, Apart DEF Sure
<1>5. ASSUME NEW h \in Handlers, pc[h] \in EscSteps, EscNext(h), EscDoubt(h)
      PROVE  Serving' /\ Elsewhere
  <2>1. on[h] \in Escrows
    BY <1>5 DEF Serving, Serves
  <2>2. \A r \in Requests : unsure'[r] = unsure[r]
    BY <1>1, <1>5, <2>1 DEF EscDoubt, Sure, Doubt, Serving, StepTypes
  <2>3. Sure \/ \E x \in Things, why \in SUBSET Worries : Doubt(x, why)
    BY <1>1, <1>5, <2>1 DEF EscDoubt
  <2>4. Moves(h) /\ pc'[h] \in EscSteps \cup {"idle"}
    BY <1>1, <1>5, <2>1, <2>3, GoesOn DEF EscNext
  <2> QED BY <1>1, <1>5, <2>2, <2>4, Apart
<1> QED BY <1>3, <1>4, <1>5, EscSends, EscOthers DEF EscrowStep

-----------------------------------------------------------------------------
(* The pay lock, and what a payment leaves behind *)

\* The lock is held by one invocation, of a request that was open.
LockInv == \A h \in Handlers :
  /\ pc[h] \in ReqSteps => reqStatus[on[h]] # "none"
  /\ pc[h] \in LockSteps =>
       on[h] \in reqLock /\ \A g \in Handlers : pc[g] \in LockSteps /\ on[g] = on[h] => g = h

Excusable(r) == \/ "answer" \in unsure[r]
                \/ "status" \in unsure[r] /\ unsure[r] \cap {"marker", "read"} # {}

\* The lock is in place, and whoever holds it is writing a payment down.
Sealed(r) == /\ r \in reqLock
             /\ \A h \in Handlers : pc[h] \in LockSteps /\ on[h] = r => pc[h] \in {"p_note", "p_paid"}

Noting(r, l) == \E h \in Handlers : pc[h] = l /\ on[h] = r
MarkLeft(r) == reqMark[r] # None \/ "marker" \in unsure[r]
StatusLeft(r) == reqStatus[r] # "open" \/ "status" \in unsure[r]

\* A payment of r is being written down, or has been as far as the store let
\* it; and who read r before finds the lock.
WrittenDown(r) == Noting(r, "p_note") \/ (MarkLeft(r) /\ (Noting(r, "p_paid") \/ StatusLeft(r)))
KeptOut(r) == \A h \in Handlers : on[h] = r =>
  /\ pc[h] # "p_settle"
  /\ pc[h] = "p_mark" => Sealed(r) \/ "status" \in unsure[r]
  /\ pc[h] = "p_lock" => Sealed(r)

Paid(r) == \/ moved[r] = 0 \/ Excusable(r)
           \/ moved[r] = 1 /\ WrittenDown(r) /\ KeptOut(r)
PaidInv == \A r \in Requests : Paid(r) /\ (reqStatus[r] = "none" => moved[r] = 0)

\* What an invocation that serves a request does next, and what it casts doubt on.
ReqNext(h) == Finish(h) \/ \E l \in ReqSteps : Goto(h, l) /\ (l \in PaySteps => pc[h] \in PaySteps)
ReqDoubt(h) == Sure \/ \E why \in SUBSET Worries : Doubt(on[h], why)

ReqRest(h) ==
  \/ PayMarker(h) \/ PayLock(h) \/ PaySettle(h) \/ PayNote(h) \/ PayPaid(h)
  \/ CancelLock(h) \/ CancelRead(h) \/ CancelWrite(h)
  \/ GiveBackPayLock(h)

LEMMA ReqGoesOn ==
  ASSUME Serving, NEW h \in Handlers, ReqRest(h) \/ CrashPay(h)
  PROVE  on[h] \in Requests /\ ReqNext(h) /\ ReqDoubt(h) /\ Moves(h)
<1>1. /\ {"read"} \in SUBSET Worries /\ {"answer"} \in SUBSET Worries /\ {"marker"} \in SUBSET Worries
      /\ {"status"} \in SUBSET Worries
  BY DEF Worries
<1>2. {"p_lock", "p_settle", "p_note", "p_paid", "p_exit", "x_read", "x_write"} \subseteq ReqSteps
  BY DEF ReqSteps, LockSteps
<1>3. ASSUME NEW l \in ReqSteps, Goto(h, l), l \in PaySteps => pc[h] \in PaySteps PROVE ReqNext(h)
  BY <1>3 DEF ReqNext
<1>4. ASSUME NEW why \in SUBSET Worries, Doubt(on[h], why) PROVE ReqDoubt(h)
  BY <1>4 DEF ReqDoubt
<1>5. (Sure => ReqDoubt(h)) /\ (Finish(h) => ReqNext(h))
  BY DEF ReqDoubt, ReqNext
<1>6. on[h] \in Requests
  BY DEF Serving, Serves, ReqRest, PayMarker, PayLock, PaySettle, PayNote, PayPaid, CancelLock, CancelRead,
     CancelWrite, GiveBackPayLock, CrashPay, At, ReqSteps, LockSteps
<1>7. ASSUME PayMarker(h) \/ PaySettle(h) PROVE ReqNext(h) /\ ReqDoubt(h)
  BY <1>1, <1>2, <1>3, <1>4, <1>5, <1>7 DEF PayMarker, PaySettle, At, PaySteps
<1>8. ASSUME PayLock(h) \/ CancelLock(h) PROVE ReqNext(h) /\ ReqDoubt(h)
  BY <1>2, <1>3, <1>5, <1>8 DEF PayLock, CancelLock, TakePayLock, At, PaySteps
<1>9. ASSUME PayNote(h) \/ PayPaid(h) \/ CancelWrite(h) \/ GiveBackPayLock(h) PROVE ReqNext(h) /\ ReqDoubt(h)
  BY <1>1, <1>2, <1>3, <1>4, <1>5, <1>9 DEF PayNote, PayPaid, CancelWrite, GiveBackPayLock, At, PaySteps
<1>10. ASSUME CancelRead(h) PROVE ReqNext(h) /\ ReqDoubt(h)
  BY <1>2, <1>3, <1>5, <1>10 DEF CancelRead, At, PaySteps
<1>11. ASSUME CrashPay(h) PROVE ReqNext(h) /\ ReqDoubt(h)
  BY <1>1, <1>4, <1>5, <1>11 DEF CrashPay
<1>12. ReqNext(h) /\ ReqDoubt(h)
  BY <1>7, <1>8, <1>9, <1>10, <1>11 DEF ReqRest
<1>13. "idle" \in CommerceSteps /\ ReqSteps \subseteq CommerceSteps /\ on[h] \in Things
  BY <1>6 DEF CommerceSteps, ReqSteps, LockSteps, Things
<1>14. Sure \/ \E x \in Things, why \in SUBSET Worries : Doubt(x, why)
  BY <1>12, <1>13 DEF ReqDoubt
<1> QED BY <1>6, <1>12, <1>13, <1>14, GoesOn DEF ReqNext

LEMMA ReqBegins ==
  ASSUME Serving, ReqTypeOK, NEW h \in Handlers, PayStart(h) \/ CancelStart(h)
  PROVE  /\ Moves(h) /\ pc[h] = "idle" /\ pc'[h] \in {"p_mark", "x_lock"} /\ unsure' = unsure
         /\ UNCHANGED reqVars /\ on'[h] \in Requests /\ ReadsOpen(on'[h])
<1>1. PICK r \in Requests, job \in {"pay", "cancel"}, l \in {"p_mark", "x_lock"}, g \in Payers \cup {None} :
        Begin(h, job, l, r, g) /\ (l = "p_mark" => g \in Payers) /\ Sure /\ ReadsOpen(r) /\ UNCHANGED reqVars
  BY DEF PayStart, CancelStart
<1>2. l \in ReqSteps /\ l \in CommerceSteps
  BY DEF ReqSteps, LockSteps, CommerceSteps
<1> QED BY <1>1, <1>2, Begins DEF Sure, PaySteps

LEMMA ReqTypes ==
  ASSUME Serving, ReqTypeOK, RequestStep
  PROVE  ReqTypeOK'
<1> USE CommerceAssumption DEF ReqTypeOK
<1>1. ASSUME NEW r \in Requests, CreateRequest(r) \/ RequestDue(r) \/ FlipRead(r) \/ FlipWrite(r)
                                 \/ ExpirePayLock(r)
      PROVE  ReqTypeOK'
  BY <1>1 DEF CreateRequest, RequestDue, FlipRead, FlipWrite, ExpirePayLock
<1>2. ASSUME NEW h \in Handlers, ReqRest(h) \/ CrashPay(h)
      PROVE  ReqTypeOK'
  <2>1. on[h] \in Requests
    BY <1>2, ReqGoesOn
  <2>2. CASE CrashPay(h) \/ PayMarker(h) \/ CancelRead(h)
    BY <2>1, <2>2 DEF CrashPay, PayMarker, CancelRead, reqVars
  <2>3. CASE PayLock(h) \/ CancelLock(h)
    BY <2>1, <2>3 DEF PayLock, CancelLock, TakePayLock
  <2>4. CASE PaySettle(h)
    <3>1. sentBy[on[h]] \in SUBSET Agents /\ moved[on[h]] \in 0 .. MaxMoved
      BY <2>1
    <3> QED BY <2>1, <2>4, <3>1 DEF PaySettle, Move
  <2>5. CASE PayNote(h)
    <3>1. got[h] \in Payers
      BY <2>5 DEF PayNote, At, Serving, Serves, PaySteps
    <3>2. /\ reqMark' = [reqMark EXCEPT ![on[h]] = got[h]] \/ reqMark' = reqMark
          /\ UNCHANGED <<reqStatus, reqDue, reqLock, reqFlip, moved, sentBy>>
      BY <2>5 DEF PayNote
    <3>3. reqMark' \in [Requests -> Payers \cup {None}]
      BY <2>1, <3>1, <3>2
    <3> QED BY <3>2, <3>3
  <2>6. CASE PayPaid(h) \/ CancelWrite(h) \/ GiveBackPayLock(h)
    BY <2>1, <2>6 DEF PayPaid, CancelWrite, GiveBackPayLock
  <2> QED BY <1>2, <2>2, <2>3, <2>4, <2>5, <2>6 DEF ReqRest
<1> QED BY <1>1, <1>2, ReqBegins DEF RequestStep, ReqRest, reqVars

\* The lock changes hands one invocation at a time.
LEMMA LockMoves ==
  ASSUME Serving, LockInv, NEW h \in Handlers, Others(h),
         \A z \in Requests : reqStatus[z] # "none" => reqStatus'[z] # "none",
         pc'[h] \in ReqSteps => on'[h] \in Requests /\ reqStatus'[on'[h]] # "none",
         \A z \in reqLock : z \in reqLock' \/ (pc[h] = "p_exit" /\ on[h] = z),
         pc'[h] \in LockSteps =>
           on'[h] = on[h] /\ on[h] \in reqLock' /\ pc[h] # "p_exit"
             /\ (pc[h] \in LockSteps \/ on[h] \notin reqLock)
  PROVE  LockInv'
<1>1. "p_exit" \in LockSteps /\ LockSteps \subseteq ReqSteps
  BY DEF LockSteps, ReqSteps
<1>2. \A q \in Handlers : pc[q] \in ReqSteps => on[q] \in Requests
  BY DEF Serving, Serves
<1>3. ASSUME NEW q \in Handlers, pc'[q] \in ReqSteps PROVE reqStatus'[on'[q]] # "none"
  BY <1>2, <1>3 DEF LockInv, Others
<1>4. ASSUME NEW q \in Handlers, q # h, pc[q] \in LockSteps
      PROVE  /\ on[q] \in reqLock'
             /\ pc'[h] \in LockSteps => on[h] # on[q]
             /\ \A g \in Handlers \ {h} : pc[g] \in LockSteps /\ on[g] = on[q] => g = q
  <2>1. /\ on[q] \in Requests /\ on[q] \in reqLock
        /\ \A g \in Handlers : pc[g] \in LockSteps /\ on[g] = on[q] => g = q
    BY <1>1, <1>2, <1>4 DEF LockInv
  <2>2. pc[h] \in LockSteps => on[h] # on[q]
    BY <1>4, <2>1
  <2> QED BY <1>1, <2>1, <2>2
<1>5. ASSUME NEW q \in Handlers, pc'[q] \in LockSteps PROVE on'[q] \in reqLock'
  <2>1. CASE q = h
    BY <1>5, <2>1
  <2>2. CASE q # h
    BY <1>4, <1>5, <2>2 DEF Others
  <2> QED BY <2>1, <2>2
<1>6. ASSUME NEW q \in Handlers, NEW g \in Handlers, pc'[q] \in LockSteps, pc'[g] \in LockSteps, on'[g] = on'[q]
      PROVE  g = q
  <2>1. CASE q = h /\ g # h
    <3>1. pc[g] \in LockSteps /\ on[g] = on[h]
      BY <1>6, <2>1 DEF Others
    <3> QED BY <1>4, <1>6, <2>1, <3>1
  <2>2. CASE q # h /\ g = h
    <3>1. pc[q] \in LockSteps /\ on[q] = on[h]
      BY <1>6, <2>2 DEF Others
    <3> QED BY <1>4, <1>6, <2>2, <3>1
  <2>3. CASE q # h /\ g # h
    <3>1. pc[q] \in LockSteps /\ pc[g] \in LockSteps /\ on[g] = on[q]
      BY <1>6, <2>3 DEF Others
    <3> QED BY <1>4, <2>3, <3>1
  <2> QED BY <2>1, <2>2, <2>3
<1> QED BY <1>3, <1>5, <1>6 DEF LockInv

LEMMA LockKept ==
  ASSUME Serving, LockInv, Elsewhere, UNCHANGED reqVars
  PROVE  LockInv'
<1>1. LockSteps \subseteq ReqSteps
  BY DEF ReqSteps
<1> QED BY <1>1 DEF LockInv, Elsewhere, reqVars

LEMMA LockTime ==
  ASSUME Serving, ReqTypeOK, LockInv, NEW r \in Requests,
         CreateRequest(r) \/ RequestDue(r) \/ FlipRead(r) \/ FlipWrite(r) \/ ExpirePayLock(r)
  PROVE  LockInv'
<1>1. UNCHANGED <<pc, on>> /\ \A z \in Requests : reqStatus[z] # "none" => reqStatus'[z] # "none"
  BY DEF CreateRequest, RequestDue, FlipRead, FlipWrite, ExpirePayLock, jobVars, ReqTypeOK
<1>2. \A h \in Handlers : pc[h] \in ReqSteps => on[h] \in Requests
  BY DEF Serving, Serves
<1>3. CASE ExpirePayLock(r)
  BY <1>1, <1>2, <1>3 DEF LockInv, ExpirePayLock
<1>4. CASE ~ExpirePayLock(r)
  BY <1>1, <1>2, <1>4 DEF LockInv, CreateRequest, RequestDue, FlipRead, FlipWrite
<1> QED BY <1>3, <1>4

LEMMA LockStep ==
  ASSUME Serving, ReqTypeOK, LockInv, NEW h \in Handlers,
         ReqRest(h) \/ CrashPay(h) \/ PayStart(h) \/ CancelStart(h)
  PROVE  LockInv'
<1>1. CASE PayStart(h) \/ CancelStart(h)
  BY <1>1, ReqBegins, LockMoves DEF Moves, ReadsOpen, reqVars, LockSteps
<1>2. CASE ReqRest(h) \/ CrashPay(h)
  <2>1. /\ on[h] \in Requests /\ Others(h)
        /\ pc \in [Handlers -> CommerceSteps] /\ on \in [Handlers -> Things \cup {None}]
        /\ reqStatus \in [Requests -> {"none", "open", "paid", "expired", "cancelled"}]
    BY <1>2, ReqGoesOn DEF Serving, StepTypes, ReqTypeOK, Moves
  <2>2. CASE CrashPay(h)
    BY <2>1, <2>2, LockMoves DEF CrashPay, Finish, reqVars, ReqSteps, LockSteps
  <2>3. ASSUME pc[h] \in ReqSteps PROVE reqStatus[on[h]] # "none"
    BY <2>3 DEF LockInv
  <2>4. CASE PayMarker(h) \/ CancelRead(h)
    <3>1. /\ pc[h] \in {"p_mark", "x_read"} /\ UNCHANGED <<reqStatus, reqLock>>
          /\ \/ pc'[h] = "idle"
             \/ pc'[h] = "p_lock" /\ on' = on
             \/ pc[h] = "x_read" /\ pc'[h] \in {"x_write", "p_exit"} /\ on' = on
      BY <2>1, <2>4 DEF PayMarker, CancelRead, At, Goto, Finish, reqVars
    <3>2. reqStatus[on[h]] # "none" /\ (pc[h] = "x_read" => on[h] \in reqLock)
      BY <2>3, <3>1 DEF LockInv, LockSteps, ReqSteps
    <3> QED BY <2>1, <3>1, <3>2, LockMoves DEF LockSteps, ReqSteps
  <2>5. CASE PayLock(h) \/ CancelLock(h)
    BY <2>1, <2>3, <2>5, LockMoves DEF PayLock, CancelLock, TakePayLock, At, Goto, Finish, ReqSteps, LockSteps
  <2>6. CASE PaySettle(h) \/ PayNote(h)
    <3>1. /\ pc[h] \in {"p_settle", "p_note"} /\ pc' = [pc EXCEPT ![h] = pc'[h]]
          /\ pc'[h] \in {"p_note", "p_paid", "p_exit"} /\ on' = on
          /\ UNCHANGED <<reqStatus, reqLock>>
      BY <2>1, <2>6 DEF PaySettle, PayNote, At, Goto
    <3>2. on[h] \in reqLock /\ reqStatus[on[h]] # "none"
      BY <2>3, <3>1 DEF LockInv, LockSteps, ReqSteps
    <3> QED BY <2>1, <3>1, <3>2, LockMoves DEF LockSteps
  <2>7. CASE PayPaid(h) \/ GiveBackPayLock(h)
    BY <2>1, <2>7, LockMoves DEF PayPaid, GiveBackPayLock, At, Finish, ReqSteps, LockSteps
  <2>8. CASE CancelWrite(h)
    <3>1. /\ pc[h] = "x_write" /\ pc'[h] = "p_exit" /\ on' = on /\ UNCHANGED reqLock
          /\ reqStatus' = [reqStatus EXCEPT ![on[h]] = "cancelled"] \/ UNCHANGED reqStatus
      BY <2>1, <2>8 DEF CancelWrite, At, Goto
    <3>2. on[h] \in reqLock /\ reqStatus[on[h]] # "none"
      BY <2>3, <3>1 DEF LockInv, LockSteps, ReqSteps
    <3> QED BY <2>1, <3>1, <3>2, LockMoves DEF LockSteps
  <2> QED BY <1>2, <2>2, <2>4, <2>5, <2>6, <2>7, <2>8 DEF ReqRest
<1> QED BY <1>1, <1>2

-----------------------------------------------------------------------------
(* A payment is made once *)

Payment(r) == moved[r] = 1 /\ WrittenDown(r) /\ KeptOut(r) /\ ~Excusable(r)

LEMMA Holder ==
  ASSUME Serving, LockInv, NEW r \in Requests, Noting(r, "p_note") \/ Noting(r, "p_paid")
  PROVE  Sealed(r)
BY DEF LockInv, Noting, Sealed, LockSteps

\* With the lock gone, the record tells of the payment.
LEMMA Unsealed ==
  ASSUME Serving, LockInv, NEW r \in Requests, Payment(r), ~Sealed(r)
  PROVE  /\ MarkLeft(r) /\ StatusLeft(r)
         /\ \A h \in Handlers : on[h] = r => /\ pc[h] \notin {"p_settle", "p_lock", "p_note", "p_paid"}
                                             /\ pc[h] = "p_mark" => "status" \in unsure[r]
BY Holder DEF Payment, WrittenDown, KeptOut, Noting

\* What does not touch the request or its records does not undo its payment.
LEMMA PaidFrame ==
  ASSUME Serving, NEW r \in Requests, Paid(r),
         unsure'[r] = unsure[r], moved'[r] = moved[r], reqMark'[r] = reqMark[r],
         reqStatus[r] = "open" \/ reqStatus'[r] = reqStatus[r], r \in reqLock => r \in reqLock',
         \A h \in Handlers : \/ pc'[h] = pc[h] /\ on'[h] = on[h]
                             \/ (pc[h] \notin ReqSteps \/ on[h] # r) /\ (pc'[h] \notin ReqSteps \/ on'[h] # r)
  PROVE  Paid(r)'
<1>1. LockSteps \cup {"p_mark", "p_lock"} \subseteq ReqSteps
      /\ {"p_settle", "p_note", "p_paid"} \subseteq ReqSteps
  BY DEF ReqSteps, LockSteps
<1>2. Excusable(r) => Excusable(r)'
  BY DEF Excusable
<1>3. Sealed(r) => Sealed(r)'
  BY <1>1 DEF Sealed
<1>4. (MarkLeft(r) => MarkLeft(r)') /\ (StatusLeft(r) => StatusLeft(r)')
  BY DEF MarkLeft, StatusLeft
<1>5. ASSUME NEW l \in {"p_note", "p_paid"}, Noting(r, l) PROVE Noting(r, l)'
  BY <1>1, <1>5 DEF Noting
<1>6. KeptOut(r) => KeptOut(r)'
  BY <1>1, <1>3 DEF KeptOut
<1> QED BY <1>2, <1>4, <1>5, <1>6 DEF Paid, WrittenDown

\* Nor does an invocation that is not writing it down and that the lock keeps out.
LEMMA StaysPaid ==
  ASSUME Serving, LockInv, NEW h \in Handlers, Others(h), NEW r \in Requests, Payment(r),
         moved'[r] = 1, unsure[r] \subseteq unsure'[r],
         pc[h] \notin {"p_note", "p_paid"}, pc'[h] \notin {"p_settle", "p_note", "p_paid"},
         MarkLeft(r) => MarkLeft(r)', StatusLeft(r) => StatusLeft(r)',
         r \in reqLock => r \in reqLock',
         Sealed(r) => pc'[h] \notin LockSteps,
         pc'[h] = "p_mark" /\ on'[h] = r => Sealed(r) \/ "status" \in unsure'[r],
         pc'[h] = "p_lock" /\ on'[h] = r => Sealed(r)
  PROVE  Paid(r)'
<1>1. Sealed(r) => Sealed(r)'
  BY DEF Sealed, Others
<1>2. ASSUME NEW l \in {"p_note", "p_paid"}, Noting(r, l) PROVE Noting(r, l)'
  BY <1>2 DEF Noting, Others
<1>3. KeptOut(r)'
  BY <1>1 DEF Payment, KeptOut, Others
<1> QED BY <1>2, <1>3 DEF Payment, Paid, WrittenDown

\* The first settlement: its caller holds the lock, and no one else does.
LEMMA PaidFirst ==
  ASSUME Serving, ReqTypeOK, LockInv, NEW h \in Handlers, Others(h), NEW r \in Requests, on[h] = r,
         moved[r] = 0, PaySettle(h)
  PROVE  Paid(r)'
<1>1. /\ At(h, "p_settle") /\ reqLock' = reqLock
      /\ Move(r, got[h]) \/ moved' = moved
      /\ moved' # moved => (Goto(h, "p_note") \/ Doubt(r, {"answer"}))
  BY DEF PaySettle
<1>2. moved'[r] = 0 \/ (moved'[r] = 1 /\ moved' # moved)
  BY <1>1 DEF Move, ReqTypeOK
<1>3. CASE moved'[r] = 0
  BY <1>3 DEF Paid
<1>4. CASE Doubt(r, {"answer"})
  <2>1. "answer" \in unsure'[r]
    BY <1>4 DEF Doubt, Serving, StepTypes, Things
  <2> QED BY <2>1 DEF Paid, Excusable
<1>5. CASE moved'[r] = 1 /\ Goto(h, "p_note")
  <2>1. /\ r \in reqLock /\ \A g \in Handlers : pc[g] \in LockSteps /\ on[g] = r => g = h
        /\ pc'[h] = "p_note" /\ on' = on
    BY <1>1, <1>5 DEF LockInv, LockSteps, At, Goto, Serving, StepTypes
  <2>2. Sealed(r)'
    BY <1>1, <2>1 DEF Sealed, Others
  <2>3. Noting(r, "p_note")'
    BY <2>1 DEF Noting
  <2>4. KeptOut(r)'
    BY <2>1, <2>2 DEF KeptOut, Others, LockSteps
  <2> QED BY <1>5, <2>3, <2>4 DEF Paid, WrittenDown
<1> QED BY <1>1, <1>2, <1>3, <1>4, <1>5

\* Every other step of an invocation that serves a paid request.
LEMMA PaidOwn ==
  ASSUME Serving, ReqTypeOK, LockInv, NEW h \in Handlers, Others(h), NEW r \in Requests, on[h] = r,
         Payment(r), ReqRest(h)
  PROVE  Paid(r)'
<1>1. /\ pc[h] = "p_settle" => FALSE
      /\ pc[h] = "p_lock" => Sealed(r)
      /\ pc[h] \in LockSteps => on[h] \in reqLock
      /\ Sealed(r) => r \in reqLock /\ pc[h] \notin LockSteps \ {"p_note", "p_paid"}
      /\ moved[r] = 1
  BY DEF Payment, KeptOut, LockInv, Sealed
<1>2. /\ pc \in [Handlers -> CommerceSteps] /\ on \in [Handlers -> Things \cup {None}]
      /\ unsure \in [Things -> SUBSET Worries] /\ r \in Things
  BY DEF Serving, StepTypes, Things
<1>3. CASE PayMarker(h)
  <2>1. pc[h] = "p_mark" /\ UNCHANGED reqVars /\ unsure[r] \subseteq unsure'[r]
    BY <1>2, <1>3 DEF PayMarker, At, Sure, Doubt
  <2>2. CASE pc'[h] = "idle"
    BY <1>1, <2>1, <2>2, StaysPaid DEF reqVars, MarkLeft, StatusLeft, LockSteps
  <2>3. CASE pc'[h] = "p_lock" /\ (Sealed(r) \/ Excusable(r)')
    <3>1. CASE Excusable(r)'
      BY <3>1 DEF Paid
    <3>2. CASE Sealed(r)
      BY <1>1, <2>1, <2>3, <3>2, StaysPaid DEF reqVars, MarkLeft, StatusLeft, LockSteps
    <3> QED BY <2>3, <3>1, <3>2
  <2>4. ASSUME ~Sealed(r) PROVE pc'[h] = "idle" \/ Excusable(r)'
    <3>1. MarkLeft(r) /\ "status" \in unsure[r]
      BY <2>1, <2>4, Unsealed
    <3>2. reqMark[r] # None
      BY <3>1 DEF MarkLeft, Payment, Excusable
    <3>3. CASE Doubt(r, {"read"})
      BY <1>2, <3>1, <3>3 DEF Doubt, Excusable
    <3> QED BY <1>2, <1>3, <3>2, <3>3 DEF PayMarker, Finish
  <2> QED BY <1>2, <1>3, <2>2, <2>3, <2>4 DEF PayMarker, Goto, Finish
<1>4. CASE PayLock(h)
  <2>1. pc[h] = "p_lock" /\ r \in reqLock
    BY <1>1, <1>4 DEF PayLock, At
  <2>2. pc'[h] = "idle" /\ UNCHANGED <<reqStatus, reqMark, moved, unsure>> /\ reqLock \subseteq reqLock'
    BY <1>2, <1>4, <2>1 DEF PayLock, TakePayLock, Finish, Sure
  <2> QED BY <1>1, <2>1, <2>2, StaysPaid DEF MarkLeft, StatusLeft, LockSteps
<1>5. CASE PayNote(h) \/ PayPaid(h)
  <2>1. Sealed(r) /\ reqLock' = reqLock /\ moved' = moved /\ pc[h] \in {"p_note", "p_paid"}
        /\ pc'[h] \in {"p_paid", "idle"}
    BY <1>2, <1>5, Holder DEF PayNote, PayPaid, At, Goto, Finish, Noting
  <2>2. Sealed(r)'
    BY <2>1 DEF Sealed, Others, LockSteps
  <2>3. KeptOut(r)'
    BY <2>1, <2>2 DEF KeptOut, Payment, Others
  <2>4. CASE PayNote(h)
    <3>1. Noting(r, "p_paid")' /\ MarkLeft(r)'
      BY <1>2, <2>4, CommerceAssumption DEF PayNote, At, Goto, Noting, MarkLeft, Doubt, Serving, Serves, PaySteps,
         ReqTypeOK
    <3> QED BY <1>1, <2>1, <2>3, <3>1 DEF Paid, WrittenDown
  <2>5. CASE PayPaid(h)
    <3>1. MarkLeft(r) /\ pc[h] = "p_paid"
      BY <2>5 DEF Payment, WrittenDown, Noting, PayPaid, At, LockInv, LockSteps
    <3>2. MarkLeft(r)' /\ StatusLeft(r)'
      BY <1>2, <2>5, <3>1 DEF PayPaid, MarkLeft, StatusLeft, Doubt, Sure, ReqTypeOK
    <3> QED BY <1>1, <2>1, <2>3, <3>2 DEF Paid, WrittenDown
  <2> QED BY <1>5, <2>4, <2>5
<1>6. CASE CancelLock(h)
  <2>1. /\ pc[h] = "x_lock" /\ pc'[h] \in {"idle", "x_read"} /\ reqLock \subseteq reqLock'
        /\ r \in reqLock => pc'[h] = "idle"
        /\ UNCHANGED <<reqStatus, reqMark, moved, unsure>>
    BY <1>2, <1>6 DEF CancelLock, TakePayLock, At, Goto, Finish, Sure
  <2> QED BY <1>1, <2>1, StaysPaid DEF MarkLeft, StatusLeft, LockSteps
<1>7. CASE CancelRead(h)
  <2>1. /\ pc[h] = "x_read" /\ pc'[h] \in {"x_write", "p_exit"} /\ UNCHANGED reqVars /\ UNCHANGED unsure
    BY <1>2, <1>7 DEF CancelRead, At, Goto, Sure
  <2> QED BY <1>1, <2>1, StaysPaid DEF MarkLeft, StatusLeft, LockSteps, reqVars
<1>8. CASE CancelWrite(h)
  <2>1. /\ pc[h] = "x_write" /\ pc'[h] = "p_exit" /\ UNCHANGED <<reqMark, moved, reqLock, unsure>>
        /\ reqStatus'[r] = "cancelled" \/ reqStatus' = reqStatus
    BY <1>2, <1>8 DEF CancelWrite, At, Goto, Sure, ReqTypeOK
  <2> QED BY <1>1, <2>1, StaysPaid DEF MarkLeft, StatusLeft, LockSteps
<1>9. CASE GiveBackPayLock(h)
  <2>1. /\ pc[h] = "p_exit" /\ pc'[h] = "idle" /\ UNCHANGED <<reqStatus, reqMark, moved, unsure>>
    BY <1>2, <1>9 DEF GiveBackPayLock, At, Finish, Sure
  <2>2. ~Sealed(r)
    BY <1>1, <2>1 DEF LockSteps
  <2>3. /\ MarkLeft(r) /\ StatusLeft(r)
        /\ \A g \in Handlers : on[g] = r => /\ pc[g] \notin {"p_settle", "p_lock", "p_note", "p_paid"}
                                            /\ pc[g] = "p_mark" => "status" \in unsure[r]
    BY <2>2, Unsealed
  <2>4. MarkLeft(r)' /\ StatusLeft(r)' /\ KeptOut(r)'
    BY <2>1, <2>3 DEF MarkLeft, StatusLeft, KeptOut, Others
  <2> QED BY <1>1, <2>1, <2>4 DEF Paid, WrittenDown
<1> QED BY <1>1, <1>3, <1>4, <1>5, <1>6, <1>7, <1>8, <1>9 DEF ReqRest, PaySettle, At

\* An invocation that begins, or dies.
LEMMA PaidEnds ==
  ASSUME Serving, ReqTypeOK, LockInv, NEW h \in Handlers, NEW r \in Requests, Payment(r),
         PayStart(h) \/ CancelStart(h) \/ CrashPay(h), Others(h), unsure[r] \subseteq unsure'[r],
         on'[h] = r \/ on[h] = r
  PROVE  Paid(r)'
<1>1. moved[r] = 1 /\ UNCHANGED reqVars
  BY DEF Payment, PayStart, CancelStart, CrashPay
<1>2. CASE PayStart(h) \/ CancelStart(h)
  <2>1. /\ pc[h] = "idle" /\ pc'[h] \in {"p_mark", "x_lock"} /\ ReadsOpen(on'[h])
    BY <1>2, ReqBegins
  <2>2. on'[h] = r => Sealed(r) \/ "status" \in unsure[r]
    BY <2>1, Unsealed DEF ReadsOpen, StatusLeft
  <2> QED BY <1>1, <2>1, <2>2, StaysPaid DEF MarkLeft, StatusLeft, LockSteps, reqVars
<1>3. CASE CrashPay(h)
  <2>1. /\ pc \in [Handlers -> CommerceSteps] /\ unsure \in [Things -> SUBSET Worries] /\ r \in Things
        /\ on \in [Handlers -> Things \cup {None}] /\ None \notin Requests
    BY CommerceAssumption DEF Serving, StepTypes, Things
  <2>2. pc'[h] = "idle" /\ on'[h] = None /\ on[h] = r
    BY <1>3, <2>1 DEF CrashPay, Finish
  <2>3. CASE pc[h] = "p_note"
    BY <1>3, <2>1, <2>2, <2>3 DEF CrashPay, Doubt, Paid, Excusable
  <2>4. CASE pc[h] = "p_paid"
    <3>1. Sealed(r) /\ MarkLeft(r)
      BY <2>2, <2>4, Holder DEF Noting, Payment, WrittenDown, LockInv, LockSteps
    <3>2. MarkLeft(r)' /\ StatusLeft(r)'
      BY <1>1, <1>3, <2>1, <2>2, <2>4, <3>1 DEF CrashPay, Doubt, MarkLeft, StatusLeft, reqVars
    <3>3. Sealed(r)'
      BY <1>1, <2>2, <3>1 DEF Sealed, Others, reqVars, LockSteps
    <3>4. KeptOut(r)'
      BY <2>2, <3>3 DEF KeptOut, Payment, Others
    <3> QED BY <1>1, <3>2, <3>4 DEF Paid, WrittenDown, reqVars
  <2>5. CASE pc[h] \notin {"p_note", "p_paid"}
    BY <1>1, <2>2, <2>5, StaysPaid DEF MarkLeft, StatusLeft, LockSteps, reqVars
  <2> QED BY <2>3, <2>4, <2>5
<1> QED BY <1>2, <1>3

\* Every step of an invocation about a request, for every request.
LEMMA PaidStep ==
  ASSUME Serving, ReqTypeOK, LockInv, PaidInv, NEW h \in Handlers,
         ReqRest(h) \/ CrashPay(h) \/ PayStart(h) \/ CancelStart(h)
  PROVE  PaidInv'
<1>1. /\ Others(h)
      /\ \/ on[h] \in Requests
         \/ (pc[h] = "idle" /\ (PayStart(h) \/ CancelStart(h)))
      /\ \A r \in Requests : unsure[r] \subseteq unsure'[r] /\ (on[h] # r => unsure'[r] = unsure[r])
  <2>1. CASE PayStart(h) \/ CancelStart(h)
    BY <2>1, ReqBegins DEF Moves
  <2>2. CASE ReqRest(h) \/ CrashPay(h)
    <3>1. Others(h) /\ on[h] \in Requests /\ ReqDoubt(h)
      BY <2>2, ReqGoesOn DEF Moves
    <3> QED BY <3>1 DEF ReqDoubt, Sure, Doubt, Serving, StepTypes, Things
  <2> QED BY <2>1, <2>2
<1>2. PaySettle(h) \/ moved' = moved
  BY DEF ReqRest, PayMarker, PayLock, PayNote, PayPaid, CancelLock, CancelRead, CancelWrite, GiveBackPayLock,
     TakePayLock, CrashPay, PayStart, CancelStart, reqVars
<1>3. ASSUME NEW r \in Requests, on[h] # r
      PROVE  /\ moved'[r] = moved[r] /\ reqMark'[r] = reqMark[r] /\ reqStatus'[r] = reqStatus[r]
             /\ r \in reqLock => r \in reqLock'
  <2>1. CASE PaySettle(h)
    BY <1>3, <2>1 DEF PaySettle, Move, ReqTypeOK
  <2>2. CASE PayNote(h) \/ PayPaid(h) \/ CancelWrite(h)
    BY <1>3, <2>2 DEF PayNote, PayPaid, CancelWrite, ReqTypeOK
  <2>3. CASE ~(PaySettle(h) \/ PayNote(h) \/ PayPaid(h) \/ CancelWrite(h))
    BY <1>3, <2>3 DEF ReqRest, PayMarker, PayLock, CancelLock, CancelRead, GiveBackPayLock,
       TakePayLock, CrashPay, PayStart, CancelStart, reqVars
  <2> QED BY <2>1, <2>2, <2>3
<1>4. ASSUME NEW r \in Requests PROVE reqStatus'[r] = "none" => reqStatus[r] = "none" /\ moved'[r] = 0
  <2>1. reqStatus'[r] = "none" => reqStatus[r] = "none"
    BY DEF ReqRest, PayMarker, PayLock, PayNote, PayPaid, PaySettle, CancelLock, CancelRead, CancelWrite,
       GiveBackPayLock, TakePayLock, CrashPay, PayStart, CancelStart, reqVars, ReqTypeOK
  <2>2. PaySettle(h) => reqStatus[on[h]] # "none"
    BY DEF PaySettle, At, LockInv, ReqSteps, LockSteps
  <2> QED BY <1>2, <1>3, <2>1, <2>2 DEF PaidInv
<1>5. ASSUME NEW r \in Requests PROVE Paid(r)'
  <2>1. Paid(r)
    BY DEF PaidInv
  <2>2. CASE on[h] # r /\ on'[h] # r
    BY <1>1, <1>3, <2>1, <2>2, PaidFrame DEF Others
  <2>3. CASE Excusable(r)
    BY <1>1, <2>3 DEF Paid, Excusable
  <2>4. CASE moved[r] = 0
    <3>1. CASE moved'[r] = 0
      BY <3>1 DEF Paid
    <3>2. CASE PaySettle(h) /\ on[h] = r
      BY <1>1, <2>4, <3>2, PaidFirst
    <3> QED BY <1>2, <1>3, <2>4, <3>1, <3>2
  <2>5. CASE Payment(r) /\ (on[h] = r \/ on'[h] = r)
    <3>1. CASE PayStart(h) \/ CancelStart(h) \/ CrashPay(h)
      BY <1>1, <2>5, <3>1, PaidEnds
    <3>2. CASE ReqRest(h) /\ on[h] = r
      BY <1>1, <2>5, <3>2, PaidOwn
    <3>3. CASE ReqRest(h) /\ on[h] # r
      <4>1. Moves(h) /\ on[h] \in Requests /\ ReqNext(h)
        BY <3>3, ReqGoesOn
      <4>2. on'[h] \in {on[h], None}
        BY <4>1 DEF ReqNext, Finish, Goto, Serving, StepTypes
      <4> QED BY <2>5, <3>3, <4>2, CommerceAssumption
    <3> QED BY <3>1, <3>2, <3>3
  <2> QED BY <2>1, <2>2, <2>3, <2>4, <2>5 DEF Paid, Payment
<1> QED BY <1>4, <1>5 DEF PaidInv

\* Time, and the readers that write back.
LEMMA PaidTime ==
  ASSUME Serving, ReqTypeOK, LockInv, PaidInv, NEW r \in Requests,
         CreateRequest(r) \/ RequestDue(r) \/ FlipRead(r) \/ FlipWrite(r) \/ ExpirePayLock(r)
  PROVE  PaidInv'
<1>1. UNCHANGED <<pc, on, unsure, moved, reqMark>>
  BY DEF CreateRequest, RequestDue, FlipRead, FlipWrite, ExpirePayLock, jobVars
<1>2. ASSUME NEW z \in Requests, reqStatus'[z] = "none" PROVE reqStatus[z] = "none"
  BY <1>2 DEF CreateRequest, RequestDue, FlipRead, FlipWrite, ExpirePayLock, ReqTypeOK
<1>3. ASSUME NEW z \in Requests PROVE Paid(z)'
  <2>1. Paid(z) /\ (reqStatus[z] = "none" => moved[z] = 0)
    BY DEF PaidInv
  <2>2. CASE moved[z] = 0 \/ Excusable(z)
    BY <1>1, <2>2 DEF Paid, Excusable
  <2>3. CASE Payment(z) /\ ~Sealed(z)
    <3>1. /\ MarkLeft(z) /\ StatusLeft(z)
          /\ \A h \in Handlers : on[h] = z => /\ pc[h] \notin {"p_settle", "p_lock", "p_note", "p_paid"}
                                              /\ pc[h] = "p_mark" => "status" \in unsure[z]
      BY <2>3, Unsealed
    <3>2. reqStatus[z] # "none"
      BY <2>1, <2>3 DEF Payment
    <3>3. StatusLeft(z)'
      BY <1>1, <3>1, <3>2 DEF StatusLeft, CreateRequest, RequestDue, FlipRead, FlipWrite, ExpirePayLock, ReqTypeOK
    <3>4. MarkLeft(z)' /\ KeptOut(z)'
      BY <1>1, <3>1 DEF MarkLeft, KeptOut
    <3> QED BY <1>1, <2>3, <3>3, <3>4 DEF Paid, Payment, WrittenDown
  <2>4. CASE Payment(z) /\ ExpirePayLock(r) /\ r = z
    <3>1. \A h \in Handlers : on[h] = z => pc[h] \notin LockSteps \cup {"p_mark", "p_lock"}
      BY <2>4 DEF ExpirePayLock
    <3>2. ~Noting(z, "p_note") /\ ~Noting(z, "p_paid") /\ KeptOut(z)'
      BY <1>1, <3>1 DEF Noting, KeptOut, LockSteps
    <3>3. MarkLeft(z)' /\ StatusLeft(z)'
      BY <1>1, <2>4, <3>2 DEF Payment, WrittenDown, MarkLeft, StatusLeft, ExpirePayLock
    <3> QED BY <1>1, <2>4, <3>2, <3>3 DEF Paid, Payment, WrittenDown
  <2>5. CASE Payment(z) /\ ~(ExpirePayLock(r) /\ r = z)
    <3>1. /\ z \in reqLock => z \in reqLock'
          /\ reqStatus[z] = "open" \/ reqStatus'[z] = reqStatus[z] \/ FlipWrite(z)
      BY <2>1, <2>5 DEF Payment, CreateRequest, RequestDue, FlipRead, FlipWrite, ExpirePayLock, ReqTypeOK
    <3>2. CASE ~FlipWrite(z)
      BY <1>1, <2>1, <3>1, <3>2, PaidFrame
    <3>3. CASE FlipWrite(z)
      <4>1. /\ reqLock' = reqLock /\ reqStatus'[z] \in {reqStatus[z], "expired"}
        BY <3>3 DEF FlipWrite, ReqTypeOK
      <4>2. (StatusLeft(z) => StatusLeft(z)') /\ (MarkLeft(z) => MarkLeft(z)') /\ (KeptOut(z) => KeptOut(z)')
        BY <1>1, <4>1 DEF StatusLeft, MarkLeft, KeptOut, Sealed
      <4>3. \A l : Noting(z, l) => Noting(z, l)'
        BY <1>1 DEF Noting
      <4> QED BY <1>1, <2>5, <4>2, <4>3 DEF Payment, Paid, WrittenDown
    <3> QED BY <3>2, <3>3
  <2> QED BY <2>1, <2>2, <2>4, <2>5 DEF Paid, Payment
<1> QED BY <1>1, <1>2, <1>3 DEF PaidInv

-----------------------------------------------------------------------------

RequestInv == Serving /\ ReqTypeOK /\ LockInv /\ PaidInv

LEMMA RequestInvInit == CommerceInit => RequestInv
<1> SUFFICES ASSUME CommerceInit PROVE RequestInv
  OBVIOUS
<1>1. Serving
  BY ServingInit
<1>2. ReqTypeOK /\ \A r \in Requests : moved[r] = 0
  BY CommerceAssumption DEF CommerceInit, ReqInit, ReqTypeOK
<1>3. LockInv
  BY DEF CommerceInit, LockInv, ReqSteps, LockSteps
<1> QED BY <1>1, <1>2, <1>3 DEF RequestInv, PaidInv, Paid

LEMMA RequestInvNext == RequestInv /\ [CommerceNext]_commerceVars => RequestInv'
<1> SUFFICES ASSUME RequestInv, [CommerceNext]_commerceVars PROVE RequestInv'
  OBVIOUS
<1> USE DEF RequestInv
<1>1. CASE (EscrowStep \/ DepositStep) /\ UNCHANGED reqVars
  <2>1. Serving' /\ Elsewhere /\ UNCHANGED reqVars
    BY <1>1, EscrowAside, DepositAside
  <2>2. ReqTypeOK'
    BY <2>1 DEF ReqTypeOK, reqVars
  <2>3. LockInv'
    BY <2>1, LockKept
  <2>4. ASSUME NEW r \in Requests PROVE Paid(r)'
    BY <2>1, PaidFrame DEF Elsewhere, reqVars, PaidInv
  <2> QED BY <2>1, <2>2, <2>3, <2>4 DEF PaidInv, reqVars
<1>2. CASE RequestStep
  <2>1. ReqTypeOK'
    BY <1>2, ReqTypes
  <2>2. ASSUME NEW r \in Requests,
               CreateRequest(r) \/ RequestDue(r) \/ FlipRead(r) \/ FlipWrite(r) \/ ExpirePayLock(r)
        PROVE  RequestInv'
    <3>1. Serving'
      BY <2>2 DEF CreateRequest, RequestDue, FlipRead, FlipWrite, ExpirePayLock, jobVars, Serving, StepTypes, Serves
    <3> QED BY <2>1, <2>2, <3>1, LockTime, PaidTime
  <2>3. ASSUME NEW h \in Handlers, ReqRest(h) \/ CrashPay(h) \/ PayStart(h) \/ CancelStart(h)
        PROVE  RequestInv'
    <3>1. Moves(h)
      BY <2>3, ReqGoesOn, ReqBegins
    <3>2. ASSUME NEW q \in Handlers PROVE Serves(q)'
      BY <3>1 DEF Moves, Others, Serving, Serves
    <3>3. Serving'
      BY <3>1, <3>2 DEF Serving, Moves
    <3> QED BY <2>1, <2>3, <3>3, LockStep, PaidStep
  <2> QED BY <1>2, <2>2, <2>3 DEF RequestStep, ReqRest
<1>3. CASE UNCHANGED commerceVars
  <2>1. UNCHANGED <<pc, on, got, unsure>> /\ UNCHANGED reqVars
    BY <1>3 DEF commerceVars, jobVars
  <2>2. Serving' /\ Elsewhere
    BY <2>1 DEF Serving, StepTypes, Serves, Elsewhere
  <2>3. ASSUME NEW r \in Requests PROVE Paid(r)'
    BY <2>1, PaidFrame DEF reqVars, PaidInv
  <2> QED BY <2>1, <2>2, <2>3, LockKept DEF ReqTypeOK, reqVars, PaidInv
<1> QED BY <1>1, <1>2, <1>3 DEF CommerceNext

\* Whatever its payers and a cancel do in which order, and whichever single
\* write or reading fails, a request is settled once: a second settlement
\* tells of a lost answer, or of a lost status and a lost marker.
THEOREM RequestsPaidOnce == CommerceSpec => []RequestPaidOnce
<1>1. RequestInv => RequestPaidOnce
  BY DEF RequestInv, PaidInv, Paid, Excusable, RequestPaidOnce, ReqTypeOK
<1> QED BY <1>1, RequestInvInit, RequestInvNext, PTL DEF CommerceSpec
=============================================================================
