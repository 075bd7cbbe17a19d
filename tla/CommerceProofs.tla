--------------------------- MODULE CommerceProofs ---------------------------
(***************************************************************************)
(* Proofs about escrows and gas deposits, for any sets of them and any     *)
(* number of invocations, and under every fault.                           *)
(*                                                                         *)
(* One escrow: the action lock is held by one invocation (OneHolder), the  *)
(* record, the two markers and what a reader is about to write back speak  *)
(* of states the vault was in (Mirror), and while nothing went wrong that  *)
(* no record tells of, a locked escrow is written down, marked, or about   *)
(* to be by the holder of the lock (Reach), which is also the one that     *)
(* stands behind a reservation of the daily spend (Spend).  EscGood is all *)
(* of it; Frame carries it over the steps about other escrows.             *)
(*                                                                         *)
(* One deposit: a call that began after the transfer was reported as       *)
(* recorded reaches a step that appends only if a reading before was lost  *)
(* (Brings).                                                               *)
(*                                                                         *)
(* The three components share the invocations and nothing else: StepAbout  *)
(* says what a step of one leaves to the others.                           *)
(***************************************************************************)
EXTENDS RequestProofs

\* What a reader may be about to write back.
LazyWrites == {"recheck", "open", "expired"}
\* The states the vault pays out in, and what an invocation carries at the
\* steps of an action.
PaidStates == {"released", "refunded"}
Paths == [act : Acts, fit : BOOLEAN, marked : BOOLEAN]
PathSteps == (EscLockSteps \ {"e_exit"}) \cup {"e_prior", "e_lock"}
SendSteps == {"l_prior", "l_chain", "l_heal", "l_charge", "l_send", "l_post", "l_note"}

\* What an invocation carries along.
Carries(h) ==
  /\ pc[h] = "e_look" => \E a \in Acts \cup {"get"} : got[h] = [act |-> a]
  /\ pc[h] \in PathSteps => got[h] \in Paths
  /\ pc[h] \in SendSteps => got[h].act = "lock"
  /\ pc[h] \in {"e_prior", "s_send", "s_note"} => got[h].act # "lock"
  /\ pc[h] = "s_note" => PaysOut(got[h].act)

EscTyped == EscTypeOK /\ \A h \in Handlers : Carries(h)

\* A step that does not touch e.
Untouched(e) ==
  /\ escStatus'[e] = escStatus[e] /\ escPhase'[e] = escPhase[e] /\ settleMark'[e] = settleMark[e]
  /\ escLazy'[e] = escLazy[e] /\ spent'[e] = spent[e] /\ past'[e] = past[e] /\ vault'[e] = vault[e]
  /\ unsure'[e] = unsure[e]
  /\ (e \in escAgent' <=> e \in escAgent) /\ (e \in escLock' <=> e \in escLock)
  /\ (e \in lockMark' <=> e \in lockMark)

\* A step of an invocation that acts on an escrow or reads it.
OwnStep(h) ==
  \/ EscLook(h) \/ EscPrior(h) \/ EscTake(h)
  \/ LockPrior(h) \/ LockChain(h) \/ LockHeal(h) \/ LockCharge(h) \/ LockSend(h)
  \/ LockPost(h) \/ LockNote(h)
  \/ SettleSend(h) \/ SettleNote(h)
  \/ TransitionRead(h) \/ TransitionWrite(h) \/ GiveBackEscLock(h) \/ CrashEscrow(h)

\* The state of the vault that an action leads to.
LEMMA ToFacts ==
  /\ To("lock") = "open" /\ To("dispute") = "disputed"
  /\ \A a \in Acts : To(a) \in VaultStates /\ (PaysOut(a) => To(a) \in PaidStates)
  /\ "lock" \in Acts /\ ~PaysOut("lock") /\ ~PaysOut("dispute")
BY DEF To, Acts, VaultStates, PaysOut, PaidStates

\* A mined action moves the vault of its escrow on, once.
LEMMA MineFacts ==
  ASSUME EscTypeOK, NEW e \in Escrows, NEW a \in Acts, Mine(e, a)
  PROVE  /\ vault' = [vault EXCEPT ![e] = To(a)] /\ past' = [past EXCEPT ![e] = @ \cup {To(a)}]
         /\ vault[e] \notin PaidStates /\ (a = "lock" <=> vault[e] = "none")
BY DEF Mine, Allows, PaidStates, EscTypeOK, Acts

\* An invocation that sends knows its escrow and its action.
LEMMA Sending ==
  ASSUME Serving, EscTyped, NEW h \in Handlers, pc[h] \in {"l_send", "s_send"}
  PROVE  on[h] \in Escrows /\ got[h] \in Paths /\ Act(h) \in Acts
         /\ (pc[h] = "l_send" <=> Act(h) = "lock")
BY DEF Serving, Serves, EscTyped, Carries, Act, Paths, PathSteps, SendSteps, EscSteps, EscLockSteps

\* A step of an invocation is about its own escrow.
LEMMA Own ==
  ASSUME Serving, EscTyped, NEW h \in Handlers, OwnStep(h)
  PROVE  /\ on[h] \in Escrows /\ pc[h] \in EscSteps /\ Moves(h)
         /\ \/ pc'[h] \in EscSteps /\ on'[h] = on[h]
            \/ pc'[h] = "idle" /\ on'[h] = None
         /\ escAgent' = escAgent /\ escPhase' = escPhase
         /\ unsure[on[h]] \subseteq unsure'[on[h]]
         /\ \A x \in Escrows \ {on[h]} : Untouched(x)
<1>1. pc[h] \in EscSteps /\ EscNext(h) /\ EscDoubt(h)
  BY EscSends, EscOthers DEF OwnStep
<1>2. on[h] \in Escrows /\ Escrows \subseteq Things /\ None \notin Escrows
  BY <1>1, CommerceAssumption DEF Serving, Serves, Things
<1>3. EscSteps \subseteq CommerceSteps /\ "idle" \in CommerceSteps /\ EscSteps \cap ReqSteps = {}
  BY DEF CommerceSteps, EscSteps, EscLockSteps, ReqSteps, LockSteps
<1>4. Sure \/ \E x \in Things, why \in SUBSET Worries : Doubt(x, why)
  BY <1>1, <1>2 DEF EscDoubt
<1>5. Moves(h) /\ pc'[h] \in EscSteps \cup {"idle"}
  BY <1>1, <1>2, <1>3, <1>4, GoesOn DEF EscNext
<1>6. \/ pc'[h] \in EscSteps /\ on'[h] = on[h]
      \/ pc'[h] = "idle" /\ on'[h] = None
  BY <1>1, <1>3 DEF EscNext, Goto, Keep, Finish, Serving, StepTypes
<1>7. unsure[on[h]] \subseteq unsure'[on[h]] /\ \A x \in Escrows \ {on[h]} : unsure'[x] = unsure[x]
  BY <1>1, <1>2 DEF EscDoubt, Sure, Doubt, Serving, StepTypes
<1>8. escAgent' = escAgent /\ escPhase' = escPhase
  BY DEF OwnStep, EscLook, EscPrior, EscTake, LockPrior, LockChain, LockHeal, LockCharge, LockSend,
     LockPost, LockNote, SettleSend, SettleNote, TransitionRead, TransitionWrite, GiveBackEscLock,
     CrashEscrow, escVars
<1>9. ASSUME NEW x \in Escrows, x # on[h]
      PROVE  Untouched(x)
  <2> USE <1>2, <1>7, <1>8, <1>9 DEF Untouched, EscTyped, EscTypeOK
  <2>1. CASE EscPrior(h) \/ LockPrior(h) \/ LockChain(h) \/ TransitionRead(h)
    BY <2>1 DEF EscPrior, LockPrior, LockChain, TransitionRead, escVars
  <2>2. CASE EscLook(h) \/ EscTake(h) \/ GiveBackEscLock(h)
    BY <2>2 DEF EscLook, EscTake, GiveBackEscLock, Lazy, recVars, chainVars
  <2>3. CASE LockHeal(h) \/ LockNote(h) \/ SettleNote(h) \/ TransitionWrite(h)
    BY <2>3 DEF LockHeal, LockNote, SettleNote, TransitionWrite, chainVars
  <2>4. CASE LockCharge(h) \/ LockPost(h)
    BY <2>4 DEF LockCharge, LockPost, Unspend, recVars, chainVars
  <2>5. CASE LockSend(h) \/ SettleSend(h) \/ CrashEscrow(h)
    BY <2>5 DEF LockSend, SettleSend, CrashEscrow, Unspend, Mine, recVars, chainVars
  <2> QED BY <2>1, <2>2, <2>3, <2>4, <2>5 DEF OwnStep
<1> QED BY <1>1, <1>2, <1>5, <1>6, <1>7, <1>8, <1>9

-----------------------------------------------------------------------------
(* What holds of one escrow *)

\* The action lock is held by one invocation.
OneHolder(e) == \A h \in Handlers : on[h] = e /\ pc[h] \in EscLockSteps =>
  e \in escLock /\ \A g \in Handlers : on[g] = e /\ pc[g] \in EscLockSteps => g = h

\* The vault pays out once, and does not forget.
VaultTold(e) ==
  /\ vault[e] # "none" => vault[e] \in past[e]
  /\ past[e] # {} => vault[e] # "none"
  /\ \A s \in past[e] \cap PaidStates : vault[e] = s

\* What h is about to write down has happened on the chain.
Told(h, e) ==
  /\ pc[h] = "l_heal" => "open" \in past[e]
  /\ pc[h] \in {"l_note", "t_read", "t_write"} => "noop" \in unsure[e] \/ To(got[h].act) \in past[e]
  /\ pc[h] = "s_note" => vault[e] = To(got[h].act)

\* The record and its markers against the vault.
Mirror(e) ==
  /\ \A h \in Handlers : on[h] = e => Told(h, e)
  /\ settleMark[e] # None => settleMark[e] \in PaidStates /\ vault[e] = settleMark[e]
  /\ \/ "noop" \in unsure[e]
     \/ /\ escStatus[e] \in VaultStates => escStatus[e] \in past[e]
        /\ e \in lockMark => "open" \in past[e]
        /\ "open" \in escLazy[e] => "open" \in past[e]

\* Before the deadline nobody has read the record as overdue, and before it is
\* created nobody serves it.
Early(e) ==
  /\ escPhase[e] = 0 =>
       escLazy[e] = {} /\ escStatus[e] # "expired" /\ \A h \in Handlers : on[h] = e => pc[h] # "e_look"
  /\ escStatus[e] = "none" =>
       vault[e] = "none" /\ spent[e] = 0 /\ \A h \in Handlers : on[h] # e

\* A lock that took effect and whose record is still pending.
Unwritten(h, e) ==
  on[h] = e /\ pc[h] \in {"l_post", "l_note", "t_read", "t_write"} /\ got[h].act = "lock"

\* What h knows of e as long as nothing went wrong around e.
Knows(h, e) ==
  /\ pc[h] \in (EscLockSteps \ {"e_exit"}) \cup {"e_lock"} /\ got[h].act = "lock" => escPhase[e] = 0
  /\ pc[h] = "e_look" => vault[e] = "none" \/ e \in lockMark
  /\ pc[h] = "l_chain" => e \notin lockMark
  /\ pc[h] \in {"l_charge", "l_send"} => vault[e] = "none"
  /\ pc[h] = "l_post" => vault[e] \in {"none", "open"}
  /\ pc[h] = "l_heal" => escStatus[e] \in VaultStates
  /\ pc[h] \in {"t_read", "t_write"} /\ got[h].act = "lock" /\ got[h].marked =>
       e \in lockMark \/ escStatus[e] \in VaultStates

\* A locked escrow is written down, or about to be.
Reach(e) == unsure[e] = {} =>
  /\ \A h \in Handlers : on[h] = e => Knows(h, e)
  /\ vault[e] # "none" =>
       \/ escStatus[e] \in VaultStates
       \/ escStatus[e] = "pending" /\ (e \in lockMark \/ \E h \in Handlers : Unwritten(h, e))
  /\ escLazy[e] \cap {"recheck", "expired"} # {} => vault[e] = "none"

\* A reservation of the daily spend that a lock under way stands behind.
Charged(h, e) == on[h] = e /\ pc[h] \in {"l_send", "l_post"} /\ e \in escAgent

\* The daily spend of an agent wallet against the locks under way.
Spend(e) ==
  /\ \A h \in Handlers : Charged(h, e) => spent[e] > 0
  /\ e \in escAgent /\ unsure[e] = {} =>
       spent[e] = IF vault[e] = "none" /\ ~\E h \in Handlers : Charged(h, e) THEN 0 ELSE 1

EscGood(e) == OneHolder(e) /\ VaultTold(e) /\ Mirror(e) /\ Early(e) /\ Reach(e) /\ Spend(e)

\* A step that touches neither e nor who serves it leaves all of EscGood.
LEMMA Frame ==
  ASSUME NEW e \in Escrows, EscGood(e), Untouched(e),
         \A q \in Handlers : on[q] = e \/ on'[q] = e => on'[q] = on[q] /\ pc'[q] = pc[q] /\ got'[q] = got[q]
  PROVE  EscGood(e)'
<1> USE DEF EscGood, Untouched
<1>1. OneHolder(e)'
  BY DEF OneHolder
<1>2. VaultTold(e)'
  BY DEF VaultTold
<1>3. Mirror(e)'
  BY DEF Mirror, Told
<1>4. Early(e)'
  BY DEF Early
<1>5. Reach(e)'
  <2>1. \A h \in Handlers : Unwritten(h, e) => Unwritten(h, e)'
    BY DEF Unwritten
  <2>2. unsure[e] = {} => \A h \in Handlers : on'[h] = e => Knows(h, e)'
    BY DEF Reach, Knows
  <2> QED BY <2>1, <2>2 DEF Reach
<1>6. Spend(e)'
  <2>1. \A h \in Handlers : Charged(h, e)' <=> Charged(h, e)
    BY DEF Charged
  <2> QED BY <2>1 DEF Spend
<1> QED BY <1>1, <1>2, <1>3, <1>4, <1>5, <1>6

\* What a step of h does to its own escrow.
LEMMA OthersOf ==
  ASSUME NEW h \in Handlers, NEW e \in Escrows, Moves(h), on[h] = e, on'[h] \in {e, None},
         NEW q \in Handlers \ {h}
  PROVE  pc'[q] = pc[q] /\ on'[q] = on[q] /\ got'[q] = got[q]
BY DEF Moves, Others

\* The steps under the lock are those of its holder.
LEMMA HolderStep ==
  ASSUME Serving, EscTyped, NEW h \in Handlers, OwnStep(h), NEW e \in Escrows, e = on[h], EscGood(e)
  PROVE  OneHolder(e)' /\ (pc[h] \notin EscLockSteps \/ e \in escLock)
<1>1. /\ \A q \in Handlers \ {h} : pc'[q] = pc[q] /\ on'[q] = on[q]
      /\ None \notin Escrows /\ pc \in [Handlers -> CommerceSteps] /\ on \in [Handlers -> Things \cup {None}]
      /\ \/ pc'[h] \in EscSteps /\ on'[h] = on[h]
         \/ pc'[h] = "idle" /\ on'[h] = None
      /\ OneHolder(e)
  BY Own, CommerceAssumption DEF Moves, Others, EscGood, Serving, StepTypes
<1>2. CASE EscTake(h)
  BY <1>1, <1>2 DEF EscTake, At, Goto, Finish, Leave, Keep, OneHolder, EscLockSteps
<1>3. CASE GiveBackEscLock(h)
  BY <1>1, <1>3 DEF GiveBackEscLock, At, Finish, OneHolder, EscLockSteps
<1>4. CASE ~EscTake(h) /\ ~GiveBackEscLock(h)
  <2>1. escLock' = escLock
    BY <1>4 DEF OwnStep, EscLook, EscPrior, LockPrior, LockChain, LockHeal, LockCharge, LockSend,
       LockPost, LockNote, SettleSend, SettleNote, TransitionRead, TransitionWrite, CrashEscrow, escVars
  <2>2. pc[h] \in EscLockSteps \/ pc'[h] \notin EscLockSteps
    BY <1>1, <1>4 DEF OwnStep, EscLook, EscPrior, LockPrior, LockChain, LockHeal, LockCharge, LockSend,
       LockPost, LockNote, SettleSend, SettleNote, TransitionRead, TransitionWrite, CrashEscrow, At, Goto, Finish,
       Keep, AfterRead, EscLockSteps
  <2> QED BY <1>1, <2>1, <2>2 DEF OneHolder
<1> QED BY <1>1, <1>2, <1>3, <1>4 DEF OneHolder

\* The vault moves when a transaction of h is mined.
LEMMA VaultMoves ==
  ASSUME Serving, EscTyped, NEW h \in Handlers, OwnStep(h), NEW e \in Escrows, e = on[h]
  PROVE  UNCHANGED chainVars \/ (pc[h] \in {"l_send", "s_send"} /\ Mine(e, Act(h)))
<1>1. CASE LockSend(h)
  <2>1. pc[h] = "l_send" /\ Act(h) = "lock"
    BY <1>1, Sending DEF LockSend, At
  <2> QED BY <1>1, <2>1 DEF LockSend
<1>2. CASE SettleSend(h) \/ CrashEscrow(h)
  BY <1>2 DEF SettleSend, CrashEscrow, At
<1>3. CASE ~(LockSend(h) \/ SettleSend(h) \/ CrashEscrow(h))
  BY <1>3 DEF OwnStep, EscLook, EscPrior, EscTake, LockPrior, LockChain, LockHeal, LockCharge,
   LockPost, LockNote, SettleNote, TransitionRead, TransitionWrite, GiveBackEscLock, escVars, chainVars
<1> QED BY <1>1, <1>2, <1>3

\* The vault pays out once.
LEMMA VaultStep ==
  ASSUME Serving, EscTyped, NEW h \in Handlers, OwnStep(h), NEW e \in Escrows, e = on[h], EscGood(e)
  PROVE  /\ VaultTold(e)' /\ past[e] \subseteq past'[e]
         /\ vault[e] # "none" => vault'[e] # "none"
         /\ vault[e] \in PaidStates => vault'[e] = vault[e]
         /\ vault'[e] = vault[e] \/ pc[h] \in {"l_send", "s_send"}
         /\ vault[e] = "none" /\ vault'[e] # "none" => pc[h] = "l_send" /\ Act(h) = "lock"
<1>1. UNCHANGED chainVars \/ (pc[h] \in {"l_send", "s_send"} /\ Mine(e, Act(h)))
  BY VaultMoves
<1>2. VaultTold(e)
  BY DEF EscGood
<1>3. CASE UNCHANGED chainVars
  BY <1>2, <1>3 DEF chainVars, VaultTold
<1>4. CASE pc[h] \in {"l_send", "s_send"} /\ Mine(e, Act(h))
  <2>1. Act(h) \in Acts /\ (pc[h] = "l_send" <=> Act(h) = "lock")
    BY <1>4, Sending
  <2>2. PICK a \in Acts : a = Act(h)
    BY <2>1
  <2>3. /\ vault' = [vault EXCEPT ![e] = To(a)] /\ past' = [past EXCEPT ![e] = @ \cup {To(a)}]
        /\ vault[e] \notin PaidStates /\ (a = "lock" <=> vault[e] = "none")
    BY <1>4, <2>2, MineFacts DEF EscTyped
  <2>4. vault'[e] = To(a) /\ past'[e] = past[e] \cup {To(a)} /\ To(a) # "none" /\ past[e] \subseteq VaultStates
    BY <2>3, ToFacts DEF EscTyped, EscTypeOK, VaultStates
  <2>5. past[e] \cap PaidStates = {}
    BY <1>2, <2>3 DEF VaultTold
  <2> QED BY <1>2, <1>4, <2>1, <2>2, <2>3, <2>4, <2>5 DEF VaultTold
<1> QED BY <1>1, <1>3, <1>4

\* What is written of an escrow has happened on the chain.
LEMMA MirrorStep ==
  ASSUME Serving, EscTyped, NEW h \in Handlers, OwnStep(h), NEW e \in Escrows, e = on[h], EscGood(e)
  PROVE  Mirror(e)'
<1>1. /\ \A q \in Handlers \ {h} : pc'[q] = pc[q] /\ on'[q] = on[q] /\ got'[q] = got[q]
      /\ None \notin Escrows /\ pc \in [Handlers -> CommerceSteps] /\ on \in [Handlers -> Things \cup {None}]
      /\ got = [q \in Handlers |-> got[q]] /\ unsure \in [Things -> SUBSET Worries] /\ Escrows \subseteq Things
      /\ (pc'[h] = "idle" /\ on'[h] = None) \/ on'[h] = e
      /\ unsure[e] \subseteq unsure'[e] /\ EscTypeOK /\ escLazy \in [Escrows -> SUBSET LazyWrites]
  BY Own, CommerceAssumption DEF Moves, Others, EscGood, Serving, StepTypes, Things, EscTyped, EscTypeOK,
     LazyWrites
<1>2. /\ past[e] \subseteq past'[e] /\ Mirror(e) /\ Carries(h) /\ VaultTold(e) /\ VaultTold(e)'
      /\ vault[e] \in PaidStates => vault'[e] = vault[e]
  BY VaultStep DEF EscGood, EscTyped
<1>3. ASSUME NEW q \in Handlers \ {h}, on'[q] = e PROVE Told(q, e)'
  <2>1. on[q] = e /\ Told(q, e) /\ pc'[q] = pc[q] /\ got'[q] = got[q] /\ Carries(q)
    BY <1>1, <1>2, <1>3 DEF Mirror, EscTyped
  <2>2. pc[q] = "s_note" => To(got[q].act) \in PaidStates
    BY <2>1, ToFacts DEF Carries, Paths, PathSteps, EscLockSteps
  <2> QED BY <1>1, <1>2, <2>1, <2>2 DEF Told
<1>4. ASSUME on'[h] = e PROVE Told(h, e)'
  <2>0. /\ {"idle", "e_lock", "e_exit", "e_prior", "l_prior", "l_chain", "l_charge", "l_send", "l_post", "s_send"} \cap
            {"l_heal", "l_note", "t_read", "t_write", "s_note"} = {}
        /\ pc[h] \in PathSteps => got[h] \in Paths
        /\ pc[h] \in SendSteps => got[h].act = "lock"
    BY <1>2 DEF Carries
  <2>1. CASE \/ EscLook(h) \/ EscPrior(h) \/ EscTake(h) \/ LockCharge(h) \/ TransitionWrite(h)
             \/ GiveBackEscLock(h) \/ CrashEscrow(h)
    <3>1. pc'[h] \notin {"l_heal", "l_note", "t_read", "t_write", "s_note"}
      BY <1>1, <2>1 DEF EscLook, EscPrior, EscTake, LockCharge, TransitionWrite, GiveBackEscLock, CrashEscrow,
         Goto, Keep, Finish, Leave, AfterRead, AfterWrite
    <3> QED BY <3>1 DEF Told
  <2>2. CASE LockPrior(h)
    <3>1. pc[h] = "l_prior" /\ got' = got /\ To(got[h].act) = "open"
      BY <2>0, <2>2, ToFacts DEF LockPrior, At, Goto, SendSteps
    <3>2. pc'[h] = "l_chain" \/ (pc'[h] = "t_read" /\ e \in lockMark)
      BY <1>1, <2>2 DEF LockPrior, Goto, ReadsMark
    <3> QED BY <1>1, <1>2, <3>1, <3>2 DEF Told, Mirror
  <2>3. CASE LockChain(h) \/ LockPost(h)
    <3>1. pc'[h] \in {"l_charge", "l_send", "e_exit"} \/ (pc'[h] \in {"l_heal", "l_note"} /\ vault[e] = "open" /\ got' = got)
      BY <1>1, <2>3 DEF LockChain, LockPost, Goto, Keep, Leave
    <3>2. pc[h] \in SendSteps
      BY <2>3 DEF LockChain, LockPost, At, SendSteps
    <3> QED BY <1>1, <1>2, <2>0, <3>1, <3>2, ToFacts DEF Told, VaultTold
  <2>4. CASE LockHeal(h) \/ LockNote(h)
    <3>1. pc[h] \in {"l_heal", "l_note"} /\ pc'[h] = "t_read" /\ got'[h].act = got[h].act /\ got[h].act = "lock"
      BY <1>1, <2>0, <2>4 DEF LockHeal, LockNote, At, Goto, Keep, PathSteps, EscLockSteps, SendSteps, Paths
    <3> QED BY <1>1, <1>2, <3>1, ToFacts DEF Told, Mirror
  <2>5. CASE LockSend(h)
    <3>1. pc[h] = "l_send" /\ got[h].act = "lock" /\ on[h] \in Escrows
      BY <2>0, <2>5 DEF LockSend, At, SendSteps
    <3>2. \/ pc'[h] \in {"e_exit", "l_post"}
          \/ pc'[h] = "l_note" /\ got' = got /\ "noop" \in unsure'[e]
          \/ pc'[h] = "l_note" /\ got' = got /\ Mine(e, "lock")
      BY <1>1, <2>5 DEF LockSend, Goto, Keep, Leave, Doubt
    <3>3. Mine(e, "lock") => "open" \in past'[e]
      BY <1>1, ToFacts DEF Mine, EscTypeOK
    <3> QED BY <3>1, <3>2, <3>3, ToFacts DEF Told
  <2>6. CASE SettleSend(h)
    <3>1. pc[h] = "s_send" /\ Act(h) \in Acts
      BY <2>6, Sending DEF SettleSend, At
    <3>2. pc'[h] = "e_exit" \/ (pc'[h] \in {"s_note", "t_read"} /\ got' = got /\ Mine(e, Act(h)))
      BY <1>1, <2>6 DEF SettleSend, Goto, Keep, Leave
    <3>3. PICK a \in Acts : a = Act(h)
      BY <3>1
    <3>4. Mine(e, a) => To(a) \in past'[e] /\ vault'[e] = To(a)
      BY <1>1, MineFacts DEF EscTypeOK
    <3> QED BY <3>2, <3>3, <3>4 DEF Told, Act
  <2>7. CASE SettleNote(h)
    <3>1. /\ pc[h] = "s_note" /\ pc'[h] = "t_read" /\ got'[h].act = got[h].act /\ vault' = vault
          /\ got[h].act \in Acts
      BY <1>1, <2>0, <2>7 DEF SettleNote, At, Goto, Keep, PathSteps, EscLockSteps, Paths, chainVars
    <3>2. vault[e] = To(got[h].act) /\ vault[e] # "none"
      BY <1>2, <3>1, ToFacts DEF Mirror, Told, VaultStates
    <3> QED BY <1>2, <3>1, <3>2 DEF Told, VaultTold
  <2>8. CASE TransitionRead(h)
    <3>1. pc[h] = "t_read" /\ (pc'[h] \in {"idle", "e_exit"} \/ (pc'[h] = "t_write" /\ got' = got))
      BY <1>1, <2>8 DEF TransitionRead, At, Goto, AfterWrite, Leave, Keep, Finish
    <3> QED BY <1>1, <1>2, <3>1 DEF Told, Mirror
  <2> QED BY <2>1, <2>2, <2>3, <2>4, <2>5, <2>6, <2>7, <2>8 DEF OwnStep
<1>5. settleMark'[e] # None => settleMark'[e] \in PaidStates /\ vault'[e] = settleMark'[e]
  <2>1. settleMark'[e] = settleMark[e] \/ (pc[h] = "s_note" /\ vault' = vault /\ settleMark'[e] = To(Act(h)))
    BY <1>1 DEF OwnStep, EscLook, EscPrior, EscTake, LockPrior, LockChain, LockHeal, LockCharge, LockSend,
     LockPost, LockNote, SettleSend, SettleNote, TransitionRead, TransitionWrite, GiveBackEscLock,
     CrashEscrow, escVars, recVars, chainVars, At, EscTypeOK
  <2>2. pc[h] = "s_note" => vault[e] = To(Act(h)) /\ To(Act(h)) \in PaidStates
    BY <1>2, ToFacts DEF Mirror, Told, Act, Carries, Paths, PathSteps, EscLockSteps
  <2> QED BY <1>2, <2>1, <2>2 DEF Mirror
<1>6. "noop" \in unsure'[e] \/ (escStatus'[e] \in VaultStates => escStatus'[e] \in past'[e])
  <2>1. escStatus'[e] = escStatus[e] \/ (pc[h] = "t_write" /\ escStatus'[e] = To(got[h].act))
    BY <1>1 DEF OwnStep, EscLook, EscPrior, EscTake, LockPrior, LockChain, LockHeal, LockCharge, LockSend,
     LockPost, LockNote, SettleSend, SettleNote, TransitionRead, TransitionWrite, GiveBackEscLock,
     CrashEscrow, escVars, recVars, At, EscTypeOK, Act
  <2>2. pc[h] = "t_write" => "noop" \in unsure[e] \/ To(got[h].act) \in past[e]
    BY <1>2 DEF Mirror, Told
  <2> QED BY <1>1, <1>2, <2>1, <2>2 DEF Mirror
<1>7. "noop" \in unsure'[e] \/ (e \in lockMark' => "open" \in past'[e])
  <2>1. (e \in lockMark' => e \in lockMark) \/ pc[h] \in {"l_heal", "l_note"}
    BY <1>1 DEF OwnStep, EscLook, EscPrior, EscTake, LockPrior, LockChain, LockHeal, LockCharge, LockSend,
     LockPost, LockNote, SettleSend, SettleNote, TransitionRead, TransitionWrite, GiveBackEscLock,
     CrashEscrow, escVars, recVars, At
  <2>2. pc[h] \in {"l_heal", "l_note"} => "noop" \in unsure[e] \/ "open" \in past[e]
    BY <1>2, ToFacts DEF Mirror, Told, Carries, SendSteps
  <2> QED BY <1>1, <1>2, <2>1, <2>2 DEF Mirror
<1>8. "noop" \in unsure'[e] \/ ("open" \in escLazy'[e] => "open" \in past'[e])
  <2>1. ("open" \in escLazy'[e] => "open" \in escLazy[e]) \/ e \in lockMark
    BY <1>1 DEF OwnStep, EscLook, EscPrior, EscTake, LockPrior, LockChain, LockHeal, LockCharge, LockSend,
     LockPost, LockNote, SettleSend, SettleNote, TransitionRead, TransitionWrite, GiveBackEscLock,
     CrashEscrow, escVars, recVars, ReadsMark, Lazy, WriteOf
  <2> QED BY <1>1, <1>2, <2>1 DEF Mirror
<1> QED BY <1>3, <1>4, <1>5, <1>6, <1>7, <1>8 DEF Mirror

\* What a step of h on its own escrow e leaves as it was.
LEMMA Setting ==
  ASSUME Serving, EscTyped, NEW h \in Handlers, OwnStep(h), NEW e \in Escrows, e = on[h]
  PROVE  /\ \A q \in Handlers \ {h} : pc'[q] = pc[q] /\ on'[q] = on[q] /\ got'[q] = got[q]
         /\ None \notin Escrows /\ pc \in [Handlers -> CommerceSteps] /\ on \in [Handlers -> Things \cup {None}]
         /\ got = [q \in Handlers |-> got[q]] /\ unsure \in [Things -> SUBSET Worries] /\ e \in Things
         /\ (pc'[h] = "idle" /\ on'[h] = None) \/ (pc'[h] \in EscSteps /\ on'[h] = e)
         /\ unsure[e] \subseteq unsure'[e] /\ EscTypeOK /\ escLazy \in [Escrows -> SUBSET LazyWrites]
         /\ escPhase' = escPhase /\ escAgent' = escAgent /\ Carries(h)
BY Own, CommerceAssumption DEF Moves, Others, Serving, StepTypes, Things, EscTyped, EscTypeOK, LazyWrites

\* What an invocation takes from a read of the record.
LEMMA ReadFacts ==
  ASSUME NEW a \in Acts, NEW v
  PROVE  Read(a, v) \in Paths /\ (Read(a, v).act = "lock" => a = "lock" /\ v = "pending")
BY DEF Read, Paths, Acts, From, PaysOut

\* A lost marker write is remembered and nothing else changes.
LEMMA Unmarked ==
  ASSUME NEW g \in Paths
  PROVE  [g EXCEPT !.marked = FALSE] \in Paths /\ [g EXCEPT !.marked = FALSE].act = g.act
         /\ ~[g EXCEPT !.marked = FALSE].marked
BY DEF Paths

\* What an invocation carries along, after a step.
LEMMA CarriesStep ==
  ASSUME Serving, EscTyped, NEW h \in Handlers, OwnStep(h)
  PROVE  \A q \in Handlers : Carries(q)'
<1> PICK e \in Escrows : e = on[h]
  BY Own
<1>0. /\ \A q \in Handlers \ {h} : pc'[q] = pc[q] /\ got'[q] = got[q]
      /\ pc \in [Handlers -> CommerceSteps] /\ got = [q \in Handlers |-> got[q]] /\ Carries(h)
  BY Setting
<1>1. ASSUME NEW q \in Handlers \ {h} PROVE Carries(q)'
  <2>1. Carries(q) /\ pc'[q] = pc[q] /\ got'[q] = got[q]
    BY <1>0 DEF EscTyped
  <2> QED BY <2>1 DEF Carries
<1>2. Carries(h)'
  <2> USE <1>0
  <2>1. CASE EscLook(h)
    <3>1. PICK a \in Acts \cup {"get"} : got[h] = [act |-> a]
      BY <2>1 DEF EscLook, At, Carries
    <3>2. pc'[h] = "idle" \/ (a \in Acts /\ pc'[h] = AfterRead(a) /\ \E v : got'[h] = Read(a, v))
      BY <2>1, <3>1 DEF EscLook, Act, Finish, Keep
    <3>3. ASSUME a \in Acts, NEW v PROVE Read(a, v) \in Paths /\ (Read(a, v).act = "lock" => a = "lock")
      BY <3>3, ReadFacts
    <3>4. AfterRead(a) \in {"e_prior", "e_lock"} /\ (AfterRead(a) = "e_prior" => a # "lock")
      BY ToFacts DEF AfterRead
    <3> QED BY <3>2, <3>3, <3>4 DEF Carries, PathSteps, SendSteps, EscLockSteps
  <2>2. CASE EscPrior(h) \/ EscTake(h)
    BY <2>2 DEF EscPrior, EscTake, At, Finish, Goto, Leave, Keep, Carries, PathSteps, SendSteps, EscLockSteps, Act
  <2>3. CASE LockPrior(h) \/ LockChain(h) \/ LockHeal(h) \/ LockCharge(h) \/ LockSend(h) \/ LockPost(h) \/ LockNote(h)
    <3>1. pc[h] \in SendSteps /\ got[h] \in Paths /\ got[h].act = "lock"
      BY <2>3 DEF LockPrior, LockChain, LockHeal, LockCharge, LockSend, LockPost, LockNote, At, SendSteps, PathSteps,
         EscLockSteps, Carries
    <3>2. \/ pc'[h] = "e_exit"
          \/ /\ pc'[h] \in SendSteps \cup {"t_read"}
             /\ got'[h] = got[h] \/ got'[h] = [got[h] EXCEPT !.marked = FALSE]
      BY <2>3 DEF LockPrior, LockChain, LockHeal, LockCharge, LockSend, LockPost, LockNote, Goto, Keep, Leave, SendSteps
    <3> QED BY <3>1, <3>2, Unmarked DEF Carries, SendSteps, PathSteps, EscLockSteps
  <2>4. CASE SettleSend(h) \/ SettleNote(h)
    <3>1. pc[h] \in {"s_send", "s_note"} /\ got[h] \in Paths /\ got[h].act # "lock"
      BY <2>4 DEF SettleSend, SettleNote, At, PathSteps, EscLockSteps, Carries
    <3>2. \/ pc'[h] = "e_exit"
          \/ pc'[h] = "t_read" /\ (got'[h] = got[h] \/ got'[h] = [got[h] EXCEPT !.marked = FALSE])
          \/ pc'[h] = "s_note" /\ got'[h] = got[h] /\ PaysOut(got[h].act)
      BY <2>4 DEF SettleSend, SettleNote, Goto, Keep, Leave, Act
    <3> QED BY <3>1, <3>2, Unmarked DEF Carries, SendSteps, PathSteps, EscLockSteps
  <2>5. CASE TransitionRead(h) \/ TransitionWrite(h) \/ GiveBackEscLock(h) \/ CrashEscrow(h)
    BY <2>5 DEF TransitionRead, TransitionWrite, GiveBackEscLock, CrashEscrow, AfterWrite, At, Goto, Leave, Keep, Finish,
       Carries, PathSteps, SendSteps, EscLockSteps
  <2> QED BY <2>1, <2>2, <2>3, <2>4, <2>5 DEF OwnStep
<1> QED BY <1>1, <1>2

\* No invocation makes an escrow early again.
LEMMA EarlyStep ==
  ASSUME Serving, EscTyped, NEW h \in Handlers, OwnStep(h), NEW e \in Escrows, e = on[h], EscGood(e)
  PROVE  Early(e)'
<1>1. Early(e) /\ escStatus[e] # "none"
  BY DEF EscGood, Early
<1>2. escStatus'[e] # "none"
  BY <1>1, Setting, ToFacts DEF OwnStep, EscLook, EscPrior, EscTake, LockPrior, LockChain, LockHeal, LockCharge, LockSend,
     LockPost, LockNote, SettleSend, SettleNote, TransitionRead, TransitionWrite, GiveBackEscLock,
     CrashEscrow, escVars, recVars, At, EscTypeOK, VaultStates, Act, Carries, PathSteps, Paths, EscLockSteps
<1>3. escPhase[e] = 0 => pc[h] # "e_look" /\ escLazy[e] = {}
  BY <1>1 DEF Early
<1>6. escStatus'[e] = "expired" => escStatus[e] = "expired"
  BY <1>1, Setting, ToFacts DEF OwnStep, EscLook, EscPrior, EscTake, LockPrior, LockChain, LockHeal, LockCharge, LockSend,
     LockPost, LockNote, SettleSend, SettleNote, TransitionRead, TransitionWrite, GiveBackEscLock,
     CrashEscrow, escVars, recVars, At, EscTypeOK, VaultStates, Act, Carries, PathSteps, Paths, EscLockSteps
<1>4. pc[h] # "e_look" => escLazy' = escLazy
  BY DEF OwnStep, EscLook, EscPrior, EscTake, LockPrior, LockChain, LockHeal, LockCharge, LockSend,
     LockPost, LockNote, SettleSend, SettleNote, TransitionRead, TransitionWrite, GiveBackEscLock,
     CrashEscrow, escVars, recVars, At
<1>5. pc'[h] # "e_look"
  BY Setting DEF OwnStep, EscLook, EscPrior, EscTake, LockPrior, LockChain, LockHeal, LockCharge, LockSend,
     LockPost, LockNote, SettleSend, SettleNote, TransitionRead, TransitionWrite, GiveBackEscLock,
     CrashEscrow, Goto, Keep, Leave, Finish, AfterRead, AfterWrite
<1> QED BY <1>1, <1>2, <1>3, <1>4, <1>5, <1>6, Setting DEF Early

\* A locked escrow stays within reach of release and refund.
LEMMA ReachStep ==
  ASSUME Serving, EscTyped, NEW h \in Handlers, OwnStep(h), NEW e \in Escrows, e = on[h], EscGood(e)
  PROVE  Reach(e)'
<1> SUFFICES ASSUME unsure'[e] = {}
             PROVE  /\ \A q \in Handlers : on'[q] = e => Knows(q, e)'
                    /\ vault'[e] # "none" =>
                         \/ escStatus'[e] \in VaultStates
                         \/ /\ escStatus'[e] = "pending"
                            /\ e \in lockMark' \/ \E q \in Handlers : Unwritten(q, e)'
                    /\ escLazy'[e] \cap {"recheck", "expired"} # {} => vault'[e] = "none"
  BY DEF Reach
<1>1. /\ \A q \in Handlers \ {h} : pc'[q] = pc[q] /\ on'[q] = on[q] /\ got'[q] = got[q]
      /\ pc \in [Handlers -> CommerceSteps] /\ on \in [Handlers -> Things \cup {None}] /\ None \notin Escrows
      /\ got = [q \in Handlers |-> got[q]] /\ unsure \in [Things -> SUBSET Worries] /\ e \in Things
      /\ (pc'[h] = "idle" /\ on'[h] = None) \/ (pc'[h] \in EscSteps /\ on'[h] = e)
      /\ EscTypeOK /\ escLazy \in [Escrows -> SUBSET LazyWrites] /\ escPhase'[e] = escPhase[e] /\ Carries(h)
      /\ unsure[e] = {}
  BY Setting
<1>2. /\ \A q \in Handlers : on[q] = e => Knows(q, e)
      /\ vault[e] # "none" => \/ escStatus[e] \in VaultStates
                              \/ /\ escStatus[e] = "pending"
                                 /\ e \in lockMark \/ \E q \in Handlers : Unwritten(q, e)
      /\ escLazy[e] \cap {"recheck", "expired"} # {} => vault[e] = "none"
      /\ OneHolder(e) /\ Early(e) /\ VaultTold(e) /\ Knows(h, e)
  BY <1>1 DEF EscGood, Reach
<1>3. /\ vault[e] # "none" => vault'[e] # "none"
      /\ vault'[e] = vault[e] \/ pc[h] \in {"l_send", "s_send"}
      /\ vault[e] = "none" /\ vault'[e] # "none" => pc[h] = "l_send" /\ got[h].act = "lock" /\ escPhase[e] = 0
  BY <1>2, VaultStep DEF Act, Knows, EscLockSteps
<1>4. e \in lockMark => e \in lockMark'
  BY DEF OwnStep, EscLook, EscPrior, EscTake, LockPrior, LockChain, LockHeal, LockCharge, LockSend,
     LockPost, LockNote, SettleSend, SettleNote, TransitionRead, TransitionWrite, GiveBackEscLock,
     CrashEscrow, escVars, recVars
<1>5. pc[h] \notin EscLockSteps => vault'[e] = vault[e] /\ lockMark' = lockMark /\ escStatus' = escStatus
  <2>1. pc[h] \notin EscLockSteps => EscLook(h) \/ EscPrior(h) \/ EscTake(h)
    BY DEF OwnStep, LockPrior, LockChain, LockHeal, LockCharge, LockSend,
     LockPost, LockNote, SettleSend, SettleNote, TransitionRead, TransitionWrite, GiveBackEscLock,
     CrashEscrow, At, EscLockSteps
  <2> QED BY <2>1 DEF EscLook, EscPrior, EscTake, escVars, recVars, chainVars
<1>6. ASSUME NEW q \in Handlers \ {h}, on'[q] = e PROVE Knows(q, e)'
  <2>1. on[q] = e /\ Knows(q, e) /\ pc'[q] = pc[q] /\ got'[q] = got[q]
    BY <1>1, <1>2, <1>6
  <2>2. pc[q] \in EscLockSteps => pc[h] \notin EscLockSteps
    BY <1>2, <2>1 DEF OneHolder
  <2>3. pc[q] = "e_look" => escPhase[e] # 0
    BY <1>2, <2>1 DEF Early
  <2> QED BY <1>1, <1>3, <1>4, <1>5, <2>1, <2>2, <2>3 DEF Knows, EscLockSteps
<1>7. ASSUME on'[h] = e PROVE Knows(h, e)'
  <2>0. /\ Knows(h, e)
        /\ pc[h] \in PathSteps => got[h] \in Paths
        /\ pc[h] \in SendSteps => got[h].act = "lock"
    BY <1>1, <1>2 DEF Carries
  <2>1. CASE EscLook(h)
    <3>1. PICK a \in Acts \cup {"get"} : got[h] = [act |-> a]
      BY <1>1, <2>1 DEF EscLook, At, Carries
    <3>2. a \in Acts /\ pc'[h] = AfterRead(a) /\ \E seen \in BOOLEAN : got'[h] = Read(a, ViewOf(seen))
      BY <1>1, <1>7, <2>1, <3>1 DEF EscLook, Act, Finish, Keep
    <3>3. got'[h].act # "lock"
      BY <3>2, ReadFacts DEF ViewOf
    <3>4. AfterRead(a) \in {"e_prior", "e_lock"}
      BY DEF AfterRead
    <3> QED BY <3>2, <3>3, <3>4 DEF Knows, EscLockSteps
  <2>2. CASE EscPrior(h)
    <3>1. pc[h] = "e_prior" /\ pc'[h] = "e_lock" /\ got'[h].act # "lock"
      BY <1>1, <1>7, <2>2 DEF EscPrior, At, Goto, Finish, Carries
    <3> QED BY <3>1 DEF Knows, EscLockSteps
  <2>3. CASE EscTake(h)
    <3>1. /\ pc[h] = "e_lock" /\ (pc'[h] = "e_exit" \/ (pc'[h] \in {"l_prior", "s_send"} /\ got' = got))
      BY <1>1, <1>7, <2>3 DEF EscTake, At, Goto, Finish, Keep, Leave
    <3> QED BY <1>1, <2>0, <3>1 DEF Knows, EscLockSteps
  <2>4. CASE LockPrior(h)
    <3>1. /\ pc[h] = "l_prior" /\ got' = got /\ lockMark' = lockMark
          /\ (pc'[h] = "t_read" /\ e \in lockMark) \/ (pc'[h] = "l_chain" /\ e \notin lockMark)
      BY <1>1, <2>4 DEF LockPrior, At, Goto, ReadsMark, Doubt, escVars
    <3> QED BY <1>1, <2>0, <3>1 DEF Knows, EscLockSteps
  <2>5. CASE LockChain(h)
    <3>1. /\ pc[h] = "l_chain" /\ UNCHANGED escVars
          /\ \/ pc'[h] = "e_exit"
             \/ pc'[h] \in {"l_charge", "l_send"} /\ vault[e] = "none" /\ got' = got
             \/ pc'[h] = "l_heal" /\ vault[e] = "open" /\ got' = got
      BY <1>1, <2>5 DEF LockChain, At, Goto, Keep, Leave, Doubt
    <3>2. \A q \in Handlers : ~Unwritten(q, e)
      BY <1>2, <3>1 DEF OneHolder, Unwritten, EscLockSteps
    <3>3. vault[e] = "open" => escStatus[e] \in VaultStates
      BY <1>2, <2>0, <3>1, <3>2 DEF Knows
    <3> QED BY <1>1, <2>0, <3>1, <3>3 DEF Knows, EscLockSteps, escVars
  <2>6. CASE LockHeal(h) \/ LockCharge(h)
    <3>1. /\ (got' = got /\ vault' = vault /\ escStatus' = escStatus) \/ pc'[h] = "e_exit"
          /\ (pc[h] = "l_heal" /\ pc'[h] = "t_read") \/ (pc[h] = "l_charge" /\ pc'[h] \in {"e_exit", "l_send"})
      BY <1>1, <2>6 DEF LockHeal, LockCharge, At, Goto, Keep, Leave, chainVars, recVars
    <3> QED BY <1>1, <2>0, <3>1 DEF Knows, EscLockSteps
  <2>7. CASE LockSend(h)
    <3>1. pc[h] = "l_send" /\ got[h].act = "lock" /\ vault[e] = "none" /\ escPhase[e] = 0
      BY <2>0, <2>7 DEF LockSend, At, SendSteps, Knows, EscLockSteps
    <3>2. \/ pc'[h] = "e_exit"
          \/ pc'[h] \in {"l_post", "l_note"} /\ got' = got /\ (Mine(e, "lock") \/ vault' = vault)
      BY <1>1, <2>7 DEF LockSend, Goto, Keep, Leave, chainVars
    <3>3. Mine(e, "lock") => vault'[e] = "open"
      BY <1>1, ToFacts DEF Mine, EscTypeOK
    <3> QED BY <1>1, <3>1, <3>2, <3>3 DEF Knows, EscLockSteps
  <2>8. CASE LockPost(h)
    <3>1. pc[h] = "l_post" /\ (pc'[h] = "e_exit" \/ (pc'[h] = "l_note" /\ got' = got))
      BY <1>1, <2>8 DEF LockPost, At, Goto, Keep, Leave
    <3> QED BY <1>1, <2>0, <3>1 DEF Knows, EscLockSteps
  <2>9. CASE LockNote(h)
    <3>1. pc[h] = "l_note" /\ pc'[h] = "t_read" /\ got[h] \in Paths
      BY <1>1, <2>0, <2>9 DEF LockNote, At, Goto, Keep, PathSteps, EscLockSteps
    <3>2. got'[h].act = got[h].act /\ (e \in lockMark' \/ ~got'[h].marked)
      BY <1>1, <2>9, <3>1, Unmarked DEF LockNote, Goto, Keep
    <3> QED BY <1>1, <2>0, <3>1, <3>2 DEF Knows, EscLockSteps
  <2>10. CASE SettleSend(h) \/ SettleNote(h)
    <3>1. pc[h] \in {"s_send", "s_note"} /\ got[h] \in Paths /\ got[h].act # "lock"
      BY <1>1, <2>10 DEF SettleSend, SettleNote, At, PathSteps, EscLockSteps, Carries
    <3>2. pc'[h] = "e_exit" \/ (pc'[h] \in {"s_note", "t_read"} /\ got'[h].act = got[h].act)
      BY <1>1, <2>10, <3>1, Unmarked DEF SettleSend, SettleNote, Goto, Keep, Leave
    <3> QED BY <3>1, <3>2 DEF Knows, EscLockSteps
  <2>11. CASE TransitionRead(h)
    <3>1. /\ pc[h] = "t_read" /\ escStatus' = escStatus /\ lockMark' = lockMark
          /\ pc'[h] = "e_exit" \/ (pc'[h] = "t_write" /\ got' = got)
      BY <1>1, <1>7, <2>11 DEF TransitionRead, At, Goto, AfterWrite, Leave, Keep, Finish, escVars
    <3> QED BY <1>1, <2>0, <3>1 DEF Knows, EscLockSteps
  <2>12. CASE TransitionWrite(h) \/ GiveBackEscLock(h) \/ CrashEscrow(h)
    <3>1. pc'[h] = "e_exit"
      BY <1>1, <1>7, <2>12 DEF TransitionWrite, GiveBackEscLock, CrashEscrow, AfterWrite, Leave, Keep, Finish
    <3> QED BY <3>1 DEF Knows, EscLockSteps
  <2> QED BY <2>1, <2>2, <2>3, <2>4, <2>5, <2>6, <2>7, <2>8, <2>9, <2>10, <2>11, <2>12 DEF OwnStep
<1>8. ASSUME vault'[e] # "none"
      PROVE  \/ escStatus'[e] \in VaultStates
             \/ /\ escStatus'[e] = "pending"
                /\ e \in lockMark' \/ \E q \in Handlers : Unwritten(q, e)'
  <2>1. CASE TransitionWrite(h)
    <3>1. pc[h] = "t_write" /\ got[h] \in Paths /\ To(got[h].act) \in VaultStates /\ UNCHANGED <<lockMark, vault>>
      BY <1>1, <2>1, ToFacts DEF TransitionWrite, At, Carries, PathSteps, EscLockSteps, Paths, chainVars
    <3>2. CASE escStatus' = [escStatus EXCEPT ![e] = To(Act(h))]
      BY <1>1, <3>1, <3>2 DEF Act, EscTypeOK
    <3>3. CASE escStatus' = escStatus /\ got[h].marked
      <4>1. \A q \in Handlers : Unwritten(q, e) => q = h
        BY <1>2, <3>1 DEF Unwritten, OneHolder, EscLockSteps
      <4>2. Unwritten(h, e) => e \in lockMark \/ escStatus[e] \in VaultStates
        BY <1>2, <3>1, <3>3 DEF Unwritten, Knows
      <4> QED BY <1>2, <1>8, <3>1, <3>3, <4>1, <4>2
    <3> QED BY <1>1, <2>1, <3>2, <3>3 DEF TransitionWrite, Doubt
  <2>2. CASE ~TransitionWrite(h) /\ vault[e] = "none"
    <3>1. pc[h] = "l_send" /\ got[h].act = "lock" /\ escPhase[e] = 0
      BY <1>3, <1>8, <2>2
    <3>2. LockSend(h)
      BY <1>1, <3>1 DEF OwnStep, EscLook, EscPrior, EscTake, LockPrior, LockChain, LockHeal, LockCharge, LockPost,
         LockNote, SettleSend, SettleNote, TransitionRead, TransitionWrite, GiveBackEscLock, CrashEscrow, At, Doubt
    <3>3. pc'[h] \in {"l_post", "l_note"} /\ on'[h] = e /\ got' = got
      <4>1. vault' # vault
        BY <1>8, <2>2
      <4>2. ~Unspend(e, {"lost"})
        <5>1. (\E why \in SUBSET Worries : Doubt(e, {"lost"} \cup why)) => "lost" \in unsure'[e]
          BY <1>1 DEF Doubt
        <5> QED BY <5>1 DEF Unspend, Worries
      <4>3. (Goto(h, "l_post") \/ Goto(h, "l_note")) /\ on[h] = e
        BY <1>1, <3>2, <4>1, <4>2 DEF LockSend, chainVars
      <4> QED BY <1>1, <4>3 DEF Goto
    <3>4. Unwritten(h, e)'
      BY <3>1, <3>3 DEF Unwritten
    <3>5. escStatus'[e] \in VaultStates \cup {"pending"}
      BY <1>1, <1>2, <3>1, <3>2 DEF Early, LockSend, recVars, EscTypeOK
    <3> QED BY <3>4, <3>5
  <2>3. CASE ~TransitionWrite(h) /\ vault[e] # "none"
    <3>1. escStatus' = escStatus
      BY <2>3 DEF OwnStep, EscLook, EscPrior, EscTake, LockPrior, LockChain, LockHeal, LockCharge, LockSend,
        LockPost, LockNote, SettleSend, SettleNote, TransitionRead, GiveBackEscLock, CrashEscrow, escVars, recVars
    <3>2. ASSUME NEW q \in Handlers, Unwritten(q, e), escStatus[e] = "pending"
          PROVE  Unwritten(q, e)' \/ e \in lockMark'
      <4>1. CASE q # h
        BY <1>1, <3>2, <4>1 DEF Unwritten
      <4>2. CASE q = h
        <5>1. pc[h] \in {"l_post", "l_note", "t_read"} /\ got[h].act = "lock"
          BY <1>1, <2>3, <3>2, <4>2 DEF Unwritten, OwnStep, EscLook, EscPrior, EscTake, LockPrior, LockChain, LockHeal,
             LockCharge, LockSend, LockPost, LockNote, SettleSend, SettleNote, TransitionRead, GiveBackEscLock,
             CrashEscrow, At, Doubt
        <5>2. LockPost(h) \/ LockNote(h) \/ TransitionRead(h)
          BY <1>1, <2>3, <5>1 DEF OwnStep, EscLook, EscPrior, EscTake, LockPrior, LockChain, LockHeal,
             LockCharge, LockSend, SettleSend, SettleNote, GiveBackEscLock, CrashEscrow, At, Doubt
        <5>3. CASE LockPost(h)
          <6>1. vault[e] = "open" /\ Goto(h, "l_note")
            BY <1>1, <1>2, <2>3, <5>3 DEF LockPost, At, Knows, Unspend, Doubt
          <6> QED BY <1>1, <4>2, <5>1, <6>1 DEF Goto, Unwritten
        <5>4. CASE LockNote(h)
          <6>1. pc[h] = "l_note" /\ pc'[h] = "t_read" /\ got[h] \in Paths
            BY <1>1, <5>4 DEF LockNote, At, Goto, Keep, PathSteps, EscLockSteps, Carries
          <6>2. got'[h].act = got[h].act /\ on'[h] = e
            BY <1>1, <5>4, <6>1, Unmarked DEF LockNote, Goto, Keep
          <6> QED BY <4>2, <5>1, <6>1, <6>2 DEF Unwritten
        <5>5. CASE TransitionRead(h)
          <6>1. "pending" \in From(Act(h))
            BY <5>1 DEF From, Act
          <6>2. Goto(h, "t_write")
            BY <3>2, <5>5, <6>1 DEF TransitionRead
          <6> QED BY <1>1, <4>2, <5>1, <6>2 DEF Goto, Unwritten
        <5> QED BY <5>2, <5>3, <5>4, <5>5
      <4> QED BY <4>1, <4>2
    <3> QED BY <1>2, <1>4, <2>3, <3>1, <3>2
  <2> QED BY <2>1, <2>2, <2>3
<1>9. escLazy'[e] \cap {"recheck", "expired"} # {} => vault'[e] = "none"
  <2>1. CASE EscLook(h)
    <3>1. PICK seen \in BOOLEAN : ReadsMark(e, seen) /\ Lazy(e, {}, WriteOf(seen)) 
      BY <2>1 DEF EscLook
    <3>2. vault' = vault /\ pc[h] = "e_look"
      BY <2>1 DEF EscLook, chainVars, At
    <3>3. e \in lockMark => seen
      BY <1>1, <3>1 DEF ReadsMark, Doubt
    <3>4. seen => escLazy'[e] = escLazy[e] \cup {"open"}
      BY <1>1, <3>1 DEF Lazy, WriteOf
    <3> QED BY <1>2, <3>2, <3>3, <3>4 DEF Knows
  <2>2. CASE ~EscLook(h)
    <3>1. escLazy' = escLazy
      BY <2>2 DEF OwnStep, EscPrior, EscTake, LockPrior, LockChain, LockHeal, LockCharge, LockSend,
        LockPost, LockNote, SettleSend, SettleNote, TransitionRead, TransitionWrite, GiveBackEscLock,
        CrashEscrow, escVars, recVars
    <3> QED BY <1>2, <1>3, <3>1 DEF Early
  <2> QED BY <2>1, <2>2
<1> QED BY <1>6, <1>7, <1>8, <1>9

\* A reservation is made with a lock and returned with its failure.
LEMMA SpendStep ==
  ASSUME Serving, EscTyped, NEW h \in Handlers, OwnStep(h), NEW e \in Escrows, e = on[h], EscGood(e)
  PROVE  Spend(e)' /\ spent' \in [Escrows -> 0 .. DailyLocks]
<1>1. /\ \A q \in Handlers \ {h} : pc'[q] = pc[q] /\ on'[q] = on[q]
      /\ pc \in [Handlers -> CommerceSteps] /\ on \in [Handlers -> Things \cup {None}] /\ None \notin Escrows
      /\ unsure \in [Things -> SUBSET Worries] /\ e \in Things
      /\ (pc'[h] = "idle" /\ on'[h] = None) \/ (pc'[h] \in EscSteps /\ on'[h] = e)
      /\ unsure[e] \subseteq unsure'[e] /\ escAgent' = escAgent /\ on[h] = e
  BY Setting
<1>2. /\ spent \in [Escrows -> 0 .. DailyLocks] /\ DailyLocks \in Nat /\ spent[e] \in 0 .. DailyLocks
      /\ vault \in [Escrows -> VaultStates \cup {"none"}] /\ past \in [Escrows -> SUBSET VaultStates]
  BY CommerceAssumption DEF EscTyped, EscTypeOK
<1>3. OneHolder(e) /\ Spend(e) /\ (unsure[e] = {} => Knows(h, e))
  BY <1>1 DEF EscGood, Reach
<1>4. /\ vault[e] # "none" => vault'[e] # "none"
      /\ vault[e] = "none" /\ vault'[e] # "none" => pc[h] = "l_send"
  BY VaultStep
<1> DEFINE mine == pc[h] \in {"l_send", "l_post"} /\ e \in escAgent
           mineNext == pc'[h] \in {"l_send", "l_post"} /\ e \in escAgent
\* No other invocation stands behind a reservation while h holds the lock.
<1>5. /\ pc[h] \in EscLockSteps => ((\E q \in Handlers : Charged(q, e)) <=> mine)
      /\ pc[h] \in EscLockSteps => ((\E q \in Handlers : Charged(q, e)') <=> mineNext)
      /\ pc[h] \notin EscLockSteps /\ pc'[h] \notin {"l_send", "l_post"} =>
           \A q \in Handlers : Charged(q, e)' <=> Charged(q, e)
  <2>1. \A q \in Handlers : Charged(q, e) /\ pc[h] \in EscLockSteps => q = h
    BY <1>1, <1>3 DEF Charged, OneHolder, EscLockSteps
  <2>2. \A q \in Handlers : Charged(q, e)' /\ pc[h] \in EscLockSteps => q = h
    BY <1>1, <1>3 DEF Charged, OneHolder, EscLockSteps
  <2>3. (Charged(h, e) <=> mine) /\ (Charged(h, e)' <=> mineNext)
    BY <1>1 DEF Charged
  <2>4. pc[h] \notin EscLockSteps => pc[h] \notin {"l_send", "l_post"}
    BY DEF EscLockSteps
  <2>5. \A q \in Handlers \ {h} : Charged(q, e)' <=> Charged(q, e)
    BY <1>1 DEF Charged
  <2> QED BY <2>1, <2>2, <2>3, <2>4, <2>5
<1>6. ASSUME pc[h] \in EscLockSteps, spent' \in [Escrows -> 0 .. DailyLocks],
             mineNext => spent'[e] > 0,
             e \in escAgent /\ unsure'[e] = {} =>
               spent'[e] = IF vault'[e] = "none" /\ ~mineNext THEN 0 ELSE 1
      PROVE  Spend(e)' /\ spent' \in [Escrows -> 0 .. DailyLocks]
  BY <1>1, <1>5, <1>6 DEF Spend
<1>7. /\ mine /\ pc[h] \in EscLockSteps => spent[e] > 0
      /\ e \in escAgent /\ unsure'[e] = {} /\ pc[h] \in EscLockSteps =>
           spent[e] = IF vault[e] = "none" /\ ~mine THEN 0 ELSE 1
  BY <1>1, <1>3, <1>5 DEF Spend
<1>8. ASSUME NEW why, Unspend(e, why), mine \/ e \notin escAgent
      PROVE  /\ spent' \in [Escrows -> 0 .. DailyLocks]
             /\ e \in escAgent /\ unsure'[e] = {} => spent'[e] = spent[e] - 1 /\ why = {}
  <2>1. Doubt(e, why) \/ Doubt(e, why \cup {"kept"})
    BY <1>8 DEF Unspend
  <2>2. unsure'[e] = {} => why = {}
    BY <1>1, <2>1 DEF Doubt
  <2>3. e \in escAgent => pc[h] \in EscLockSteps /\ spent[e] - 1 \in 0 .. DailyLocks
    BY <1>2, <1>7, <1>8 DEF EscLockSteps
  <2>4. spent' = spent \/ (e \in escAgent /\ spent' = [spent EXCEPT ![e] = @ - 1])
    BY <1>8 DEF Unspend
  <2>5. Doubt(e, why \cup {"kept"}) => unsure'[e] # {}
    BY <1>1 DEF Doubt
  <2>6. e \in escAgent /\ unsure'[e] = {} => spent'[e] = spent[e] - 1
    BY <1>2, <1>8, <2>5 DEF Unspend
  <2> QED BY <1>2, <2>2, <2>3, <2>4, <2>6
<1>9. CASE LockCharge(h)
  <2>1. pc[h] = "l_charge" /\ pc[h] \in EscLockSteps /\ vault' = vault /\ ~mine
    BY <1>9 DEF LockCharge, At, EscLockSteps, chainVars
  <2>2. CASE spent[e] < DailyLocks /\ spent' = [spent EXCEPT ![e] = @ + 1] /\ Goto(h, "l_send")
    <3>1. spent'[e] = spent[e] + 1 /\ spent' \in [Escrows -> 0 .. DailyLocks] /\ pc'[h] = "l_send"
      BY <1>1, <1>2, <2>2 DEF Goto
    <3>2. unsure'[e] = {} => vault[e] = "none"
      BY <1>1, <1>3, <2>1 DEF Knows
    <3> QED BY <1>2, <1>6, <1>7, <2>1, <3>1, <3>2
  <2>3. CASE UNCHANGED spent /\ Leave(h)
    <3>1. pc'[h] = "e_exit"
      BY <1>1, <2>3 DEF Leave, Keep
    <3> QED BY <1>2, <1>6, <1>7, <2>1, <2>3, <3>1
  <2> QED BY <1>1, <1>9, <2>2, <2>3 DEF LockCharge
<1>10. CASE LockSend(h)
  <2>1. pc[h] = "l_send" /\ pc[h] \in EscLockSteps /\ (unsure'[e] = {} => vault[e] = "none")
    BY <1>1, <1>3, <1>10 DEF LockSend, At, EscLockSteps, Knows
  <2>2. CASE spent' = spent /\ pc'[h] = IF e \in escAgent THEN "l_post" ELSE "l_note"
    BY <1>2, <1>6, <1>7, <2>1, <2>2
  <2>3. CASE Unspend(e, {}) /\ pc'[h] = "e_exit" /\ vault' = vault
    BY <1>2, <1>6, <1>7, <1>8, <2>1, <2>3
  <2>4. CASE Unspend(e, {"lost"}) /\ pc'[h] = "e_exit"
    BY <1>2, <1>6, <1>7, <1>8, <2>1, <2>4
  <2> QED BY <1>1, <1>10, <2>2, <2>3, <2>4 DEF LockSend, Goto, Leave, Keep, chainVars
<1>11. CASE LockPost(h)
  <2>1. pc[h] = "l_post" /\ pc[h] \in EscLockSteps /\ (unsure'[e] = {} => vault[e] \in {"none", "open"}) /\ vault' = vault
    BY <1>1, <1>3, <1>11 DEF LockPost, At, EscLockSteps, Knows, chainVars
  <2>2. CASE spent' = spent /\ pc'[h] = "l_note" /\ vault[e] = "open"
    BY <1>2, <1>6, <1>7, <2>1, <2>2
  <2>3. CASE Unspend(e, {}) /\ pc'[h] = "e_exit" /\ vault[e] # "open"
    BY <1>2, <1>6, <1>7, <1>8, <2>1, <2>3
  <2>4. CASE Unspend(e, {"lost"}) /\ pc'[h] = "e_exit"
    BY <1>2, <1>6, <1>7, <1>8, <2>1, <2>4
  <2> QED BY <1>1, <1>11, <2>2, <2>3, <2>4 DEF LockPost, Goto, Leave, Keep
<1>12. CASE ~(LockCharge(h) \/ LockSend(h) \/ LockPost(h))
  <2>1. spent' = spent
    BY <1>12 DEF OwnStep, EscLook, EscPrior, EscTake, LockPrior, LockChain, LockHeal, LockNote, SettleSend, SettleNote,
       TransitionRead, TransitionWrite, GiveBackEscLock, CrashEscrow, escVars
  <2>2. ~mineNext
    BY <1>1, <1>12 DEF OwnStep, EscLook, EscPrior, EscTake, LockPrior, LockChain, LockHeal, LockNote, SettleSend,
       SettleNote, TransitionRead, TransitionWrite, GiveBackEscLock, CrashEscrow, Goto, Keep, Leave, Finish, AfterRead,
       AfterWrite
  <2>3. CASE pc[h] \in EscLockSteps
    <3>1. mine => unsure'[e] # {}
      BY <1>1, <1>12 DEF OwnStep, EscLook, EscPrior, EscTake, LockPrior, LockChain, LockHeal, LockNote, SettleSend,
         SettleNote, TransitionRead, TransitionWrite, GiveBackEscLock, CrashEscrow, At, Doubt
    <3>2. pc[h] = "l_send" => unsure'[e] # {}
      BY <1>1, <1>12 DEF OwnStep, EscLook, EscPrior, EscTake, LockPrior, LockChain, LockHeal, LockNote, SettleSend,
         SettleNote, TransitionRead, TransitionWrite, GiveBackEscLock, CrashEscrow, At, Doubt
    <3> QED BY <1>2, <1>4, <1>6, <1>7, <2>1, <2>2, <2>3, <3>1, <3>2
  <2>4. CASE pc[h] \notin EscLockSteps
    <3>1. pc'[h] \notin {"l_send", "l_post"} /\ vault' = vault
      BY <1>1, <2>4 DEF OwnStep, EscLook, EscPrior, EscTake, LockPrior, LockChain, LockHeal, LockCharge, LockSend,
        LockPost, LockNote, SettleSend, SettleNote, TransitionRead, TransitionWrite, GiveBackEscLock, CrashEscrow,
        At, EscLockSteps, Goto, Keep, Leave, Finish, AfterRead, escVars, chainVars
    <3> QED BY <1>1, <1>2, <1>3, <1>5, <2>1, <2>4, <3>1 DEF Spend
  <2> QED BY <2>3, <2>4
<1> QED BY <1>9, <1>10, <1>11, <1>12

\* Types, after a step of an invocation.
LEMMA OwnTypes ==
  ASSUME Serving, EscTyped, NEW h \in Handlers, OwnStep(h), \A e \in Escrows : EscGood(e)
  PROVE  EscTyped'
<1> PICK e \in Escrows : e = on[h]
  BY Own
<1>1. /\ EscTypeOK /\ escLazy \in [Escrows -> SUBSET LazyWrites] /\ Carries(h)
      /\ escPhase' = escPhase /\ escAgent' = escAgent
  BY Setting
<1>2. spent' \in [Escrows -> 0 .. DailyLocks] /\ \A q \in Handlers : Carries(q)'
  BY SpendStep, CarriesStep
<1>3. escLock' \subseteq Escrows /\ lockMark' \subseteq Escrows /\ escAgent' \subseteq Escrows
      /\ escPhase' \in [Escrows -> 0 .. 2]
  BY <1>1 DEF EscTypeOK, OwnStep, EscLook, EscPrior, EscTake, LockPrior, LockChain, LockHeal, LockCharge, LockSend,
     LockPost, LockNote, SettleSend, SettleNote, TransitionRead, TransitionWrite, GiveBackEscLock,
     CrashEscrow, escVars, recVars
<1>4. escLazy' \in [Escrows -> SUBSET LazyWrites]
  <2>1. CASE EscLook(h)
    <3>1. PICK seen \in BOOLEAN : Lazy(e, {}, WriteOf(seen))
      BY <2>1 DEF EscLook
    <3>2. (escLazy[e] \ {}) \cup WriteOf(seen) \in SUBSET LazyWrites
      BY <1>1 DEF WriteOf, LazyWrites
    <3> QED BY <1>1, <3>1, <3>2 DEF Lazy
  <2>2. CASE ~EscLook(h)
    BY <1>1, <2>2 DEF OwnStep, EscPrior, EscTake, LockPrior, LockChain, LockHeal, LockCharge, LockSend,
     LockPost, LockNote, SettleSend, SettleNote, TransitionRead, TransitionWrite, GiveBackEscLock,
     CrashEscrow, escVars, recVars
  <2> QED BY <2>1, <2>2
<1>5. escStatus' \in [Escrows -> VaultStates \cup {"none", "pending", "expired"}]
      /\ settleMark' \in [Escrows -> VaultStates \cup {None}]
  <2>1. pc[h] \in {"s_note", "t_write"} => To(Act(h)) \in VaultStates
    BY <1>1, ToFacts DEF Carries, PathSteps, EscLockSteps, Paths, Act
  <2>2. escStatus' = escStatus \/ (pc[h] = "t_write" /\ escStatus' = [escStatus EXCEPT ![e] = To(Act(h))])
    BY DEF OwnStep, EscLook, EscPrior, EscTake, LockPrior, LockChain, LockHeal, LockCharge, LockSend,
     LockPost, LockNote, SettleSend, SettleNote, TransitionRead, TransitionWrite, GiveBackEscLock,
     CrashEscrow, escVars, recVars, At
  <2>3. settleMark' = settleMark \/ (pc[h] = "s_note" /\ settleMark' = [settleMark EXCEPT ![e] = To(Act(h))])
    BY DEF OwnStep, EscLook, EscPrior, EscTake, LockPrior, LockChain, LockHeal, LockCharge, LockSend,
     LockPost, LockNote, SettleSend, SettleNote, TransitionRead, TransitionWrite, GiveBackEscLock,
     CrashEscrow, escVars, recVars, At
  <2> QED BY <1>1, <2>1, <2>2, <2>3 DEF EscTypeOK
<1>6. past' \in [Escrows -> SUBSET VaultStates] /\ vault' \in [Escrows -> VaultStates \cup {"none"}]
  <2>1. UNCHANGED chainVars \/ (pc[h] \in {"l_send", "s_send"} /\ Mine(e, Act(h)))
    BY VaultMoves
  <2>2. CASE UNCHANGED chainVars
    BY <1>1, <2>2 DEF chainVars, EscTypeOK
  <2>3. CASE pc[h] \in {"l_send", "s_send"} /\ Mine(e, Act(h))
    <3>1. To(Act(h)) \in VaultStates
      BY <2>3, Sending, ToFacts
    <3>2. vault' = [vault EXCEPT ![e] = To(Act(h))] /\ past' = [past EXCEPT ![e] = @ \cup {To(Act(h))}]
      BY <2>3 DEF Mine
    <3>3. past[e] \cup {To(Act(h))} \in SUBSET VaultStates
      BY <1>1, <3>1 DEF EscTypeOK
    <3> QED BY <1>1, <3>1, <3>2, <3>3 DEF EscTypeOK
  <2> QED BY <2>1, <2>2, <2>3
<1> QED BY <1>1, <1>2, <1>3, <1>4, <1>5, <1>6 DEF EscTyped, EscTypeOK, LazyWrites

-----------------------------------------------------------------------------
(* An invocation that begins *)

\* An idle invocation serves nothing.
Idle == \A h \in Handlers : pc[h] = "idle" => on[h] = None

EscInv == Serving /\ Idle /\ EscTyped /\ \A e \in Escrows : EscGood(e)

\* A request that comes in reads the record and changes nothing of its escrow.
LEMMA StartStep ==
  ASSUME EscInv, NEW h \in Handlers, EscStart(h) \/ EscStartOverdue(h)
  PROVE  /\ Moves(h) /\ pc[h] = "idle" /\ pc'[h] \in EscSteps /\ on[h] = None /\ on'[h] \in Escrows
         /\ unsure' = unsure /\ EscTyped' /\ \A x \in Escrows : EscGood(x)'
<1>0. PICK e \in Escrows, a \in Acts \cup {"get"}, l \in EscSteps :
        \/ /\ a \in Acts /\ ~Overdue(e) /\ escStatus[e] # "none" /\ l = AfterRead(a)
           /\ Begin(h, "escrow", l, e, Read(a, escStatus[e]))
        \/ l = "e_look" /\ Overdue(e) /\ Begin(h, "escrow", l, e, [act |-> a])
  BY DEF EscStart, EscStartOverdue, AfterRead, EscSteps, EscLockSteps
<1>1. Sure /\ UNCHANGED escVars
  BY DEF EscStart, EscStartOverdue
<1>2. EscSteps \subseteq CommerceSteps
  BY DEF EscSteps, EscLockSteps, CommerceSteps
<1>3. Moves(h) /\ pc[h] = "idle" /\ pc'[h] = l /\ on'[h] = e
  BY <1>0, <1>1, <1>2, Begins DEF EscInv
<1>4. /\ \A q \in Handlers \ {h} : pc'[q] = pc[q] /\ on'[q] = on[q] /\ got'[q] = got[q]
      /\ on[h] = None /\ None \notin Escrows /\ EscTypeOK /\ EscTyped
      /\ \A x \in Escrows : Untouched(x)
  BY <1>1, <1>3, CommerceAssumption DEF Moves, Others, EscInv, Idle, EscTyped, Untouched, escVars, Sure
<1>5. \/ l = "e_look" /\ Overdue(e) /\ got'[h] = [act |-> a]
      \/ /\ l \in {"e_prior", "e_lock"} /\ got'[h] \in Paths /\ (l = "e_prior" => got'[h].act # "lock")
         /\ ~Overdue(e) /\ escStatus[e] # "none" /\ (got'[h].act = "lock" => escStatus[e] = "pending")
  <2>1. \A v : a \in Acts => Read(a, v) \in Paths /\ (Read(a, v).act = "lock" => a = "lock" /\ v = "pending")
    BY ReadFacts
  <2>2. AfterRead(a) \in {"e_prior", "e_lock"} /\ (AfterRead(a) = "e_prior" => a # "lock")
    BY ToFacts DEF AfterRead
  <2>3. ASSUME NEW g, Begin(h, "escrow", l, e, g) PROVE got'[h] = g
    BY <2>3 DEF Begin, EscInv, Serving, StepTypes
  <2> QED BY <1>0, <2>1, <2>2, <2>3
<1>6. EscTyped'
  <2>1. \A q \in Handlers \ {h} : Carries(q)'
    BY <1>4 DEF EscTyped, Carries
  <2>2. Carries(h)'
    BY <1>3, <1>5 DEF Carries, PathSteps, EscLockSteps, SendSteps
  <2> QED BY <1>1, <1>4, <2>1, <2>2 DEF EscTyped, EscTypeOK, escVars
<1>7. ASSUME NEW x \in Escrows, x # e PROVE EscGood(x)'
  BY <1>3, <1>4, <1>7, Frame DEF EscInv
<1>8. EscGood(e)'
  <2>1. EscGood(e) /\ Untouched(e)
    BY <1>4 DEF EscInv
  <2>2. pc'[h] \in {"e_look", "e_prior", "e_lock"} /\ pc'[h] \notin EscLockSteps
    BY <1>3, <1>5 DEF EscLockSteps
  <2>3. /\ escStatus[e] # "none" /\ (pc'[h] = "e_look" => escStatus[e] = "pending" /\ escPhase[e] # 0)
        /\ pc'[h] = "e_lock" /\ got'[h].act = "lock" => escPhase[e] = 0
    BY <1>3, <1>4, <1>5 DEF Overdue, EscTypeOK
  <2>4. OneHolder(e)'
    BY <1>3, <1>4, <2>1, <2>2 DEF EscGood, Untouched, OneHolder
  <2>5. VaultTold(e)'
    BY <2>1 DEF EscGood, Untouched, VaultTold
  <2>6. Mirror(e)'
    <3>1. \A q \in Handlers : on'[q] = e => Told(q, e)'
      BY <1>3, <1>4, <2>1, <2>2 DEF EscGood, Untouched, Mirror, Told
    <3> QED BY <2>1, <3>1 DEF EscGood, Untouched, Mirror
  <2>7. Early(e)'
    BY <1>3, <1>4, <2>1, <2>3 DEF EscGood, Untouched, Early
  <2>8. Reach(e)'
    <3> SUFFICES ASSUME unsure[e] = {} PROVE Reach(e)'
      BY <2>1 DEF Untouched, Reach
    <3>1. /\ \A q \in Handlers : on[q] = e => Knows(q, e)
          /\ vault[e] # "none" => \/ escStatus[e] \in VaultStates
                                  \/ /\ escStatus[e] = "pending"
                                     /\ e \in lockMark \/ \E q \in Handlers : Unwritten(q, e)
      BY <2>1 DEF EscGood, Reach
    <3>2. \A q \in Handlers : Unwritten(q, e) => Unwritten(q, e)' /\ escPhase[e] = 0
      BY <1>3, <1>4, <3>1 DEF Unwritten, Knows, EscLockSteps
    <3>3. ASSUME NEW q \in Handlers, on'[q] = e, q # h PROVE Knows(q, e)'
      BY <1>4, <2>1, <3>1, <3>3 DEF Knows, Untouched
    <3>4. Knows(h, e)'
      <4>1. pc'[h] = "e_look" => vault[e] = "none" \/ e \in lockMark
        BY <2>3, <3>1, <3>2 DEF VaultStates
      <4> QED BY <2>1, <2>2, <2>3, <4>1 DEF Knows, Untouched
    <3> QED BY <2>1, <3>1, <3>2, <3>3, <3>4 DEF EscGood, Reach, Untouched
  <2>9. Spend(e)'
    <3>1. \A q \in Handlers : Charged(q, e)' <=> Charged(q, e)
      BY <1>3, <1>4, <2>1, <2>2 DEF Charged, Untouched
    <3> QED BY <2>1, <3>1 DEF EscGood, Spend, Untouched
  <2> QED BY <2>4, <2>5, <2>6, <2>7, <2>8, <2>9 DEF EscGood
<1> QED BY <1>1, <1>3, <1>4, <1>6, <1>7, <1>8 DEF Sure

-----------------------------------------------------------------------------
(* Time, and the readers that write back *)

\* Creation, the deadline, the TTL of the lock and the readers that write back.
LEMMA ClockStep ==
  ASSUME EscInv, NEW e \in Escrows,
         CreateEscrow(e) \/ PassDeadline(e) \/ ExpireEscLock(e) \/ RecheckOverdue(e) \/ WriteView(e)
  PROVE  EscTyped' /\ UNCHANGED <<pc, on, got>> /\ unsure' \in [Things -> SUBSET Worries]
         /\ (\A x \in Things \ {e} : unsure'[x] = unsure[x]) /\ \A x \in Escrows : EscGood(x)'
<1>1. /\ UNCHANGED <<pc, on, got>>
      /\ unsure' = unsure \/ (PassDeadline(e) /\ \E why \in SUBSET Worries : Doubt(e, why))
  BY DEF CreateEscrow, PassDeadline, ExpireEscLock, RecheckOverdue, WriteView, jobVars, Worries
<1>2. /\ EscTypeOK /\ escLazy \in [Escrows -> SUBSET LazyWrites] /\ unsure \in [Things -> SUBSET Worries]
      /\ \A h \in Handlers : Carries(h)
      /\ e \in Things
  BY DEF EscInv, EscTyped, EscTypeOK, LazyWrites, Serving, StepTypes, Things
<1>3. /\ unsure' \in [Things -> SUBSET Worries] /\ unsure[e] \subseteq unsure'[e]
      /\ \A x \in Things \ {e} : unsure'[x] = unsure[x]
  BY <1>1, <1>2 DEF Doubt
<1>4. EscTyped'
  <2>1. \A h \in Handlers : Carries(h)'
    BY <1>1, <1>2 DEF Carries
  <2>2. CASE CreateEscrow(e)
    BY <1>2, <2>1, <2>2 DEF CreateEscrow, EscTyped, EscTypeOK, chainVars
  <2>3. CASE PassDeadline(e)
    <3>1. escPhase[e] + 1 \in 0 .. 2
      BY <1>2, <2>3 DEF PassDeadline, EscTypeOK
    <3> QED BY <1>2, <2>1, <2>3, <3>1 DEF PassDeadline, EscTyped, EscTypeOK, chainVars
  <2>4. CASE ExpireEscLock(e)
    BY <1>2, <2>1, <2>4 DEF ExpireEscLock, EscTyped, EscTypeOK, chainVars, recVars
  <2>5. CASE RecheckOverdue(e)
    <3>1. \A to \in SUBSET LazyWrites : (escLazy[e] \ {"recheck"}) \cup to \in SUBSET LazyWrites
      BY <1>2
    <3>2. {} \in SUBSET LazyWrites /\ {"expired"} \in SUBSET LazyWrites
      BY DEF LazyWrites
    <3>3. escLazy' \in [Escrows -> SUBSET LazyWrites]
      BY <1>2, <2>5, <3>1, <3>2 DEF RecheckOverdue, Lazy
    <3> QED BY <1>2, <2>1, <2>5, <3>3 DEF RecheckOverdue, EscTyped, EscTypeOK, LazyWrites, chainVars
  <2>6. CASE WriteView(e)
    <3>1. PICK s \in {"open", "expired"} :
            /\ escLazy' = [escLazy EXCEPT ![e] = (@ \ {s}) \cup {}]
            /\ escStatus' = escStatus \/ escStatus' = [escStatus EXCEPT ![e] = s]
      BY <2>6 DEF WriteView, Lazy
    <3>2. escLazy' \in [Escrows -> SUBSET LazyWrites]
      BY <1>2, <3>1
    <3>3. escStatus' \in [Escrows -> VaultStates \cup {"none", "pending", "expired"}]
      BY <1>2, <3>1 DEF EscTypeOK, VaultStates
    <3> QED BY <1>2, <2>1, <2>6, <3>2, <3>3 DEF WriteView, EscTyped, EscTypeOK, LazyWrites, chainVars
  <2> QED BY <2>2, <2>3, <2>4, <2>5, <2>6
<1>5. ASSUME NEW x \in Escrows, x # e PROVE EscGood(x)'
  <2>1. Untouched(x)
    BY <1>2, <1>3, <1>5 DEF CreateEscrow, PassDeadline, ExpireEscLock, RecheckOverdue, WriteView, Untouched, EscTypeOK,
       recVars, chainVars, Lazy, Things
  <2> QED BY <1>1, <2>1, Frame DEF EscInv
<1>6. EscGood(e)'
  <2>1. EscGood(e)
    BY DEF EscInv
  <2>2. CASE CreateEscrow(e)
    <3>1. /\ vault[e] = "none" /\ spent[e] = 0 /\ (\A h \in Handlers : on[h] # e) /\ unsure' = unsure
          /\ escStatus'[e] = "pending"
          /\ UNCHANGED <<escPhase, escLock, lockMark, settleMark, escLazy, spent, past, vault>>
      BY <1>2, <2>1, <2>2 DEF EscGood, Early, CreateEscrow, EscTypeOK, chainVars, jobVars
    <3>2. ~\E h \in Handlers : Charged(h, e)'
      BY <1>1, <3>1 DEF Charged
    <3> QED BY <1>1, <2>1, <3>1, <3>2 DEF EscGood, OneHolder, VaultTold, Mirror, Early, Reach, Spend, Charged, VaultStates
  <2>3. CASE PassDeadline(e)
    <3>1. /\ UNCHANGED <<escStatus, escAgent, escLock, lockMark, settleMark, escLazy, spent, past, vault>>
          /\ escPhase'[e] # 0
      BY <1>2, <2>3 DEF PassDeadline, EscTypeOK, chainVars
    <3>2. OneHolder(e)' /\ VaultTold(e)' /\ Early(e)'
      BY <1>1, <2>1, <3>1 DEF EscGood, OneHolder, VaultTold, Early
    <3>3. Mirror(e)'
      BY <1>1, <1>3, <2>1, <3>1 DEF EscGood, Mirror, Told
    <3>4. Spend(e)'
      <4>1. \A h \in Handlers : Charged(h, e)' <=> Charged(h, e)
        BY <1>1, <3>1 DEF Charged
      <4> QED BY <1>3, <2>1, <3>1, <4>1 DEF EscGood, Spend
    <3>5. Reach(e)'
      <4> SUFFICES ASSUME unsure'[e] = {} PROVE Reach(e)'
        BY DEF Reach
      <4>1. Reach(e) /\ unsure[e] = {}
        BY <1>3, <2>1 DEF EscGood
      <4>2. escPhase[e] = 0 => \A h \in Handlers : ~Locking(h, e)
        BY <1>2, <2>3 DEF PassDeadline, Doubt
      <4>3. ASSUME NEW h \in Handlers, on[h] = e PROVE Knows(h, e)'
        BY <1>1, <3>1, <4>1, <4>2, <4>3 DEF Reach, Knows, Locking, EscLockSteps
      <4>4. \A h \in Handlers : Unwritten(h, e)' <=> Unwritten(h, e)
        BY <1>1 DEF Unwritten
      <4> QED BY <1>1, <3>1, <4>1, <4>3, <4>4 DEF Reach
    <3> QED BY <3>2, <3>3, <3>4, <3>5 DEF EscGood
  <2>4. CASE ExpireEscLock(e)
    <3>1. /\ UNCHANGED <<escStatus, escAgent, escPhase, lockMark, settleMark, escLazy, spent, past, vault, unsure>>
          /\ \A h \in Handlers : on[h] = e => pc[h] \notin EscLockSteps
      BY <2>4 DEF ExpireEscLock, recVars, chainVars, jobVars
    <3>2. OneHolder(e)'
      BY <1>1, <3>1 DEF OneHolder
    <3>3. VaultTold(e)' /\ Early(e)' /\ Mirror(e)'
      BY <1>1, <2>1, <3>1 DEF EscGood, VaultTold, Early, Mirror, Told
    <3>4. (\A h \in Handlers : Charged(h, e)' <=> Charged(h, e)) /\ \A h \in Handlers : Unwritten(h, e)' <=> Unwritten(h, e)
      BY <1>1, <3>1 DEF Charged, Unwritten
    <3>5. Spend(e)'
      BY <2>1, <3>1, <3>4 DEF EscGood, Spend
    <3>6. \A h \in Handlers : Knows(h, e)' <=> Knows(h, e)
      BY <1>1, <3>1 DEF Knows
    <3>7. Reach(e)'
      BY <1>1, <2>1, <3>1, <3>4, <3>6 DEF EscGood, Reach
    <3> QED BY <3>2, <3>3, <3>5, <3>7 DEF EscGood
  <2>5. CASE RecheckOverdue(e) \/ WriteView(e)
    <3>1. /\ UNCHANGED <<escAgent, escPhase, escLock, lockMark, settleMark, spent, past, vault, unsure>>
          /\ escPhase[e] # 0
      BY <2>1, <2>5 DEF RecheckOverdue, WriteView, chainVars, jobVars, EscGood, Early
    <3>2. /\ escStatus'[e] = escStatus[e] \/ (escStatus'[e] = "open" /\ "open" \in escLazy[e])
             \/ (escStatus'[e] = "expired" /\ "expired" \in escLazy[e])
          /\ "open" \in escLazy'[e] => "open" \in escLazy[e]
          /\ escLazy'[e] \cap {"recheck", "expired"} # {} => escLazy[e] \cap {"recheck", "expired"} # {}
      <4>1. CASE RecheckOverdue(e)
        <5>1. /\ escStatus' = escStatus /\ "recheck" \in escLazy[e]
              /\ escLazy'[e] \subseteq (escLazy[e] \ {"recheck"}) \cup {"expired"}
          BY <1>2, <4>1 DEF RecheckOverdue, Lazy
        <5> QED BY <5>1
      <4>2. CASE WriteView(e)
        <5>1. PICK s \in escLazy[e] \cap {"open", "expired"} :
                /\ escLazy' = [escLazy EXCEPT ![e] = (@ \ {s}) \cup {}]
                /\ escStatus' = escStatus \/ escStatus' = [escStatus EXCEPT ![e] = s]
          BY <4>2 DEF WriteView, Lazy
        <5>2. escLazy'[e] \subseteq escLazy[e] /\ (escStatus'[e] = escStatus[e] \/ escStatus'[e] = s)
          BY <1>2, <5>1 DEF EscTypeOK
        <5> QED BY <5>1, <5>2
      <4> QED BY <2>5, <4>1, <4>2
    <3>3. OneHolder(e)' /\ VaultTold(e)'
      BY <1>1, <2>1, <3>1 DEF EscGood, OneHolder, VaultTold
    <3>4. Early(e)'
      BY <1>1, <2>1, <3>1, <3>2 DEF EscGood, Early
    <3>5. Mirror(e)'
      <4>1. \A h \in Handlers : Told(h, e)' <=> Told(h, e)
        BY <1>1, <3>1 DEF Told
      <4>2. escStatus'[e] \in VaultStates =>
              escStatus'[e] = escStatus[e] \/ (escStatus'[e] = "open" /\ "open" \in escLazy[e])
        BY <3>2 DEF VaultStates
      <4> QED BY <1>1, <2>1, <3>1, <3>2, <4>1, <4>2 DEF EscGood, Mirror
    <3>6. Spend(e)'
      <4>1. \A h \in Handlers : Charged(h, e)' <=> Charged(h, e)
        BY <1>1, <3>1 DEF Charged
      <4> QED BY <2>1, <3>1, <4>1 DEF EscGood, Spend
    <3>7. Reach(e)'
      <4> SUFFICES ASSUME unsure[e] = {} PROVE Reach(e)'
        BY <3>1 DEF Reach
      <4>1. Reach(e) /\ escStatus'[e] # escStatus[e] =>
              escStatus'[e] \in VaultStates \/ vault[e] = "none"
        BY <3>2 DEF Reach, VaultStates
      <4>2. \A h \in Handlers : on[h] = e => Knows(h, e)
        BY <2>1 DEF EscGood, Reach
      <4>3. ASSUME NEW h \in Handlers, on[h] = e PROVE Knows(h, e)'
        <5>1. Knows(h, e) /\ Carries(h)
          BY <1>2, <4>2, <4>3
        <5>2. pc[h] # "l_heal"
          BY <3>1, <5>1 DEF Knows, Carries, SendSteps, EscLockSteps
        <5> QED BY <1>1, <3>1, <5>1, <5>2 DEF Knows, EscLockSteps
      <4>4. \A h \in Handlers : Unwritten(h, e)' <=> Unwritten(h, e)
        BY <1>1 DEF Unwritten
      <4> QED BY <1>1, <2>1, <3>1, <3>2, <4>1, <4>3, <4>4 DEF EscGood, Reach
    <3> QED BY <3>3, <3>4, <3>5, <3>6, <3>7 DEF EscGood
  <2> QED BY <2>2, <2>3, <2>4, <2>5
<1> QED BY <1>1, <1>3, <1>4, <1>5, <1>6

-----------------------------------------------------------------------------
(* What the steps of the three kinds leave each other *)

\* A step about the things of S, of an invocation at one of the steps L or of
\* none.
StepAbout(S, L) ==
  /\ \A x \in Things \ S : unsure'[x] = unsure[x]
  /\ \/ \E h \in Handlers : /\ Moves(h) /\ {on[h], on'[h]} \subseteq S \cup {None}
                            /\ {pc[h], pc'[h]} \subseteq L \cup {"idle"}
                            /\ pc'[h] = "idle" => on'[h] = None
     \/ UNCHANGED <<pc, on, got>> /\ unsure' \in [Things -> SUBSET Worries]

\* Who serves what, after a step of one kind.
LEMMA ServingStep ==
  ASSUME Serving, Idle, NEW S, NEW L, StepAbout(S, L)
  PROVE  Serving' /\ Idle'
<1>1. CASE UNCHANGED <<pc, on, got>> /\ unsure' \in [Things -> SUBSET Worries]
  BY <1>1 DEF Serving, Idle, StepTypes, Serves
<1>2. ASSUME NEW h \in Handlers, Moves(h), pc'[h] = "idle" => on'[h] = None PROVE Serving' /\ Idle'
  <2>1. \A q \in Handlers : Serves(q)'
    BY <1>2 DEF Serving, Serves, Moves, Others
  <2>2. Idle'
    BY <1>2 DEF Idle, Moves, Others
  <2> QED BY <1>2, <2>1, <2>2 DEF Serving, Moves
<1> QED BY <1>1, <1>2 DEF StepAbout

\* A step of another kind leaves the escrows alone.
LEMMA EscrowKept ==
  ASSUME EscInv, NEW S, NEW L, StepAbout(S, L), S \cap Escrows = {}, L \cap EscSteps = {}, UNCHANGED escVars
  PROVE  EscInv'
<1>1. /\ Serving' /\ Idle' /\ None \notin Escrows /\ "idle" \notin EscSteps /\ EscTyped
      /\ Escrows \subseteq Things
  BY ServingStep, CommerceAssumption DEF EscInv, EscSteps, EscLockSteps, Things
<1>2. \A q \in Handlers : \/ pc'[q] = pc[q] /\ on'[q] = on[q] /\ got'[q] = got[q]
                          \/ on[q] \notin Escrows /\ on'[q] \notin Escrows /\ pc'[q] \notin EscSteps
  BY <1>1 DEF StepAbout, Moves, Others
<1>3. \A e \in Escrows : Untouched(e)
  BY <1>1 DEF StepAbout, Untouched, escVars
<1>4. ASSUME NEW e \in Escrows PROVE EscGood(e)'
  BY <1>2, <1>3, Frame DEF EscInv
<1>5. \A q \in Handlers : Carries(q)'
  BY <1>1, <1>2 DEF EscTyped, Carries, PathSteps, SendSteps, EscSteps, EscLockSteps
<1>6. EscTypeOK'
  BY <1>1 DEF EscTyped, EscTypeOK, escVars
<1> QED BY <1>1, <1>4, <1>5, <1>6 DEF EscInv, EscTyped

\* The steps of the escrow component.
LEMMA EscrowSteps ==
  ASSUME EscInv, EscrowStep
  PROVE  EscInv' /\ StepAbout(Escrows, EscSteps)
<1>1. ASSUME NEW e \in Escrows,
             CreateEscrow(e) \/ PassDeadline(e) \/ ExpireEscLock(e) \/ RecheckOverdue(e) \/ WriteView(e)
      PROVE  EscInv' /\ StepAbout(Escrows, EscSteps)
  <2>1. EscTyped' /\ (\A x \in Escrows : EscGood(x)') /\ StepAbout(Escrows, EscSteps)
    BY <1>1, ClockStep DEF StepAbout
  <2> QED BY <2>1, ServingStep DEF EscInv
<1>2. ASSUME NEW h \in Handlers, EscStart(h) \/ EscStartOverdue(h)
      PROVE  EscInv' /\ StepAbout(Escrows, EscSteps)
  <2>1. /\ Moves(h) /\ pc[h] = "idle" /\ pc'[h] \in EscSteps /\ on[h] = None /\ on'[h] \in Escrows
        /\ unsure' = unsure /\ EscTyped' /\ (\A x \in Escrows : EscGood(x)') /\ "idle" \notin EscSteps
    BY <1>2, StartStep DEF EscSteps, EscLockSteps
  <2>2. StepAbout(Escrows, EscSteps)
    BY <2>1 DEF StepAbout
  <2> QED BY <2>1, <2>2, ServingStep DEF EscInv
<1>3. ASSUME NEW h \in Handlers, OwnStep(h)
      PROVE  EscInv' /\ StepAbout(Escrows, EscSteps)
  <2>1. PICK e \in Escrows : e = on[h]
    BY <1>3, Own DEF EscInv
  <2>2. /\ pc[h] \in EscSteps /\ Moves(h) /\ (\A x \in Escrows \ {e} : Untouched(x))
        /\ \/ pc'[h] \in EscSteps /\ on'[h] = on[h]
           \/ pc'[h] = "idle" /\ on'[h] = None
        /\ EscDoubt(h) /\ None \notin Escrows /\ "idle" \notin EscSteps
    BY <1>3, <2>1, Own, EscSends, EscOthers, CommerceAssumption DEF EscInv, OwnStep, EscSteps, EscLockSteps
  <2>3. \A x \in Things \ Escrows : unsure'[x] = unsure[x]
    BY <2>1, <2>2 DEF EscDoubt, Sure, Doubt, EscInv, Serving, StepTypes
  <2>4. StepAbout(Escrows, EscSteps)
    BY <2>1, <2>2, <2>3 DEF StepAbout
  <2>5. EscTyped'
    BY <1>3, OwnTypes DEF EscInv
  <2>6. EscGood(e)'
    BY <1>3, <2>1, HolderStep, VaultStep, MirrorStep, EarlyStep, ReachStep, SpendStep DEF EscInv, EscGood
  <2>7. ASSUME NEW x \in Escrows \ {e} PROVE EscGood(x)'
    <3>1. \A q \in Handlers : on[q] = x \/ on'[q] = x => on'[q] = on[q] /\ pc'[q] = pc[q] /\ got'[q] = got[q]
      BY <2>1, <2>2 DEF Moves, Others
    <3> QED BY <2>2, <3>1, Frame DEF EscInv
  <2> QED BY <2>4, <2>5, <2>6, <2>7, ServingStep DEF EscInv
<1> QED BY <1>1, <1>2, <1>3 DEF EscrowStep, OwnStep

\* The steps of the payment requests are about requests.
LEMMA RequestSteps ==
  ASSUME Serving, Idle, ReqTypeOK, RequestStep
  PROVE  StepAbout(Requests, ReqSteps)
<1>1. ASSUME NEW r \in Requests,
             CreateRequest(r) \/ RequestDue(r) \/ FlipRead(r) \/ FlipWrite(r) \/ ExpirePayLock(r)
      PROVE  StepAbout(Requests, ReqSteps)
  BY <1>1 DEF CreateRequest, RequestDue, FlipRead, FlipWrite, ExpirePayLock, jobVars, StepAbout, Serving, StepTypes
<1>2. ASSUME NEW h \in Handlers, PayStart(h) \/ CancelStart(h)
      PROVE  StepAbout(Requests, ReqSteps)
  <2>1. /\ Moves(h) /\ pc[h] = "idle" /\ pc'[h] \in {"p_mark", "x_lock"} /\ unsure' = unsure
        /\ on'[h] \in Requests /\ on[h] = None
    BY <1>2, ReqBegins DEF Idle
  <2> QED BY <2>1 DEF StepAbout, ReqSteps
<1>3. ASSUME NEW h \in Handlers, ReqRest(h) \/ CrashPay(h)
      PROVE  StepAbout(Requests, ReqSteps)
  <2>1. on[h] \in Requests /\ ReqNext(h) /\ ReqDoubt(h) /\ Moves(h)
    BY <1>3, ReqGoesOn
  <2>2. \A x \in Things \ Requests : unsure'[x] = unsure[x]
    BY <2>1 DEF ReqDoubt, Sure, Doubt, Serving, StepTypes
  <2>3. pc[h] \in ReqSteps \cup {"idle"}
    BY <1>3, <2>1, CommerceAssumption DEF Serving, Serves, StepTypes, CommerceSteps, ReqSteps, LockSteps, EscSteps,
       EscLockSteps, DepSteps, Things
  <2>4. \/ pc'[h] = "idle" /\ on'[h] = None
        \/ pc'[h] \in ReqSteps /\ on'[h] = on[h]
    BY <2>1 DEF ReqNext, Finish, Goto, Serving, StepTypes
  <2>5. "idle" \notin ReqSteps
    BY DEF ReqSteps, LockSteps
  <2> QED BY <2>1, <2>2, <2>3, <2>4, <2>5 DEF StepAbout
<1> QED BY <1>1, <1>2, <1>3 DEF RequestStep, ReqRest

-----------------------------------------------------------------------------
(* Deposits *)

\* A transfer reported as recorded is in the list, unless something was lost.
Recorded(t) == ledger[t] > 0 \/ unsure[t] # {}

\* What a call of addGasDeposit carries along: whether the transfer had been
\* reported as recorded when it began, and the list as read.
Brings(h) == pc[h] \in DepSteps =>
  /\ got[h] \in [late : BOOLEAN, list : Ledgers \cup {None}]
  /\ pc[h] = "d_set" => got[h].list \in Ledgers
  /\ got[h].late => on[h] \in recorded
  /\ got[h].late /\ pc[h] \in {"d_push", "d_set"} => unsure[on[h]] # {}

DepInv == /\ Serving /\ Idle /\ DepTypeOK /\ (\A t \in recorded : Recorded(t))
          /\ \A h \in Handlers : Brings(h)

DepOwn(h) == DepositMark(h) \/ DepositList(h) \/ DepositPush(h) \/ DepositOld(h) \/ DepositSet(h) \/ CrashDeposit(h)

\* An appended list holds the transfer, and the others as before.
LEMMA AppendedFacts ==
  ASSUME NEW l \in Ledgers, NEW t \in Transfers
  PROVE  /\ Appended(l, t) \in Ledgers /\ Appended(l, t)[t] > 0
         /\ \A x \in Transfers \ {t} : Appended(l, t)[x] = l[x]
<1>1. MaxCredits \in Nat /\ MaxCredits > 0
  BY CommerceAssumption
<1>2. \A x \in Transfers : l[x] \in 0 .. MaxCredits
  BY DEF Ledgers
<1>3. (IF l[t] < MaxCredits THEN l[t] + 1 ELSE l[t]) \in 1 .. MaxCredits
  BY <1>1, <1>2
<1>4. Appended(l, t) = [l EXCEPT ![t] = IF l[t] < MaxCredits THEN l[t] + 1 ELSE l[t]]
  BY DEF Appended
<1>5. DEFINE v == IF l[t] < MaxCredits THEN l[t] + 1 ELSE l[t]
<1>6. v \in 0 .. MaxCredits /\ v > 0
  BY <1>1, <1>3
<1>7. Appended(l, t) = [l EXCEPT ![t] = v] /\ l \in [Transfers -> 0 .. MaxCredits]
  BY <1>4 DEF Ledgers
<1> HIDE DEF v
<1> QED BY <1>6, <1>7 DEF Ledgers

\* The empty list.
LEMMA NothingFacts == Nothing \in Ledgers /\ \A t \in Transfers : Nothing[t] = 0
BY CommerceAssumption DEF Nothing, Ledgers

\* What a step of h does to its own transfer, and to what others have been told.
LEMMA DepSteady ==
  ASSUME DepInv, NEW h \in Handlers, DepOwn(h)
  PROVE  /\ on[h] \in Transfers /\ Serving'
         /\ \A x \in Things : unsure[x] \subseteq unsure'[x] /\ (x \notin Transfers => unsure'[x] = unsure[x])
         /\ \A q \in Handlers \ {h} : pc'[q] = pc[q] /\ on'[q] = on[q] /\ got'[q] = got[q]
         /\ recorded \subseteq recorded'
         /\ pc[h] \in DepSteps
         /\ \/ pc'[h] = "idle" /\ on'[h] = None
            \/ pc'[h] \in DepSteps /\ on'[h] = on[h]
<1>1. /\ pc \in [Handlers -> CommerceSteps] /\ on \in [Handlers -> Things \cup {None}]
      /\ got = [q \in Handlers |-> got[q]] /\ unsure \in [Things -> SUBSET Worries]
      /\ Transfers \subseteq Things /\ None \notin Transfers
  BY CommerceAssumption DEF DepInv, Serving, StepTypes, Things
<1>2. on[h] \in Transfers
  BY DEF DepInv, Serving, Serves, DepOwn, DepositMark, DepositList, DepositPush, DepositOld, DepositSet, CrashDeposit,
     At, DepSteps
<1>3. Serving'
  BY DepositAside DEF DepInv, DepOwn, DepositStep
<1>4. Finish(h) \/ (\E l \in DepSteps : Goto(h, l)) \/ (\E g : Keep(h, "d_set", g))
  BY DEF DepOwn, DepositMark, DepositList, DepositPush, DepositOld, DepositSet, CrashDeposit, DepositKnown, DepSteps
<1>5. /\ \A q \in Handlers \ {h} : pc'[q] = pc[q] /\ on'[q] = on[q] /\ got'[q] = got[q]
      /\ \/ pc'[h] = "idle" /\ on'[h] = None
         \/ pc'[h] \in DepSteps /\ on'[h] = on[h]
  BY <1>1, <1>4 DEF Finish, Goto, Keep, DepSteps
<1>6. recorded \subseteq recorded'
  BY DEF DepOwn, DepositMark, DepositList, DepositPush, DepositOld, DepositSet, CrashDeposit, DepositKnown, depVars
<1>7. \/ Sure \/ Doubt(on[h], {"read"})
      \/ unsure' = [x \in DOMAIN unsure |->
             IF x \in Transfers /\ ledger'[x] < ledger[x] THEN unsure[x] \cup {"lost"} ELSE unsure[x]]
  BY DEF DepOwn, DepositMark, DepositList, DepositPush, DepositOld, DepositSet, CrashDeposit, Reads
<1>8. \A x \in Things : unsure[x] \subseteq unsure'[x] /\ (x \notin Transfers => unsure'[x] = unsure[x])
  <2>1. CASE Sure \/ Doubt(on[h], {"read"})
    BY <1>1, <1>2, <2>1 DEF Sure, Doubt
  <2>2. CASE unsure' = [x \in DOMAIN unsure |->
             IF x \in Transfers /\ ledger'[x] < ledger[x] THEN unsure[x] \cup {"lost"} ELSE unsure[x]]
    <3> DEFINE fell(x) == x \in Transfers /\ ledger'[x] < ledger[x]
    <3>1. unsure' = [x \in Things |-> IF fell(x) THEN unsure[x] \cup {"lost"} ELSE unsure[x]]
      BY <1>1, <2>2
    <3>2. \A x \in Things : fell(x) => x \in Transfers
      OBVIOUS
    <3> HIDE DEF fell
    <3> QED BY <3>1, <3>2
  <2> QED BY <1>7, <2>1, <2>2
<1>9. pc[h] \in DepSteps
  BY <1>1, <1>2, CommerceAssumption DEF DepOwn, DepositMark, DepositList, DepositPush, DepositOld, DepositSet,
     CrashDeposit, At, DepSteps, DepInv, Serving, Serves, CommerceSteps, Idle, ReqSteps, LockSteps, EscSteps, EscLockSteps
<1> QED BY <1>2, <1>3, <1>5, <1>6, <1>8, <1>9

\* What a call of addGasDeposit knows and what is recorded, after a step.
LEMMA DepKnows ==
  ASSUME DepInv, NEW h \in Handlers, DepOwn(h)
  PROVE  DepTypeOK' /\ (\A t \in recorded' : Recorded(t)') /\ Brings(h)'
<1>1. /\ pc \in [Handlers -> CommerceSteps] /\ got = [q \in Handlers |-> got[q]] /\ ledger \in Ledgers
      /\ dedup \subseteq Transfers /\ recorded \subseteq Transfers /\ Transfers \subseteq Things
      /\ unsure \in [Things -> SUBSET Worries] /\ listShape \in {"list", "json"}
      /\ \A x \in Transfers : ledger[x] \in 0 .. MaxCredits /\ ledger[x] \in Nat
  BY CommerceAssumption DEF DepInv, Serving, StepTypes, Things, DepTypeOK, Ledgers
<1>2. /\ on[h] \in Transfers /\ recorded \subseteq recorded' /\ pc[h] \in DepSteps
      /\ \A x \in Transfers : unsure[x] \subseteq unsure'[x]
      /\ pc'[h] \in DepSteps => on'[h] = on[h]
  BY <1>1, DepSteady, CommerceAssumption DEF DepSteps
<1>3. /\ got[h] \in [late : BOOLEAN, list : Ledgers \cup {None}]
      /\ pc[h] = "d_set" => got[h].list \in Ledgers
      /\ got[h].late => on[h] \in recorded
      /\ got[h].late /\ pc[h] \in {"d_push", "d_set"} => unsure[on[h]] # {}
  BY <1>2 DEF DepInv, Brings
<1>4. \A t \in recorded : Recorded(t)
  BY DEF DepInv
<1>5. PICK t \in Transfers : t = on[h]
  BY <1>2
<1>6. ASSUME UNCHANGED <<ledger, recorded>> PROVE \A x \in recorded' : Recorded(x)'
  BY <1>1, <1>2, <1>4, <1>6 DEF Recorded
<1>7. ASSUME UNCHANGED <<ledger, recorded>> \/ (ledger' = ledger /\ recorded' = recorded \cup {t} /\ ledger[t] > 0)
      PROVE \A x \in recorded' : Recorded(x)'
  BY <1>1, <1>2, <1>4, <1>7 DEF Recorded
<1>8. CASE DepositMark(h) \/ CrashDeposit(h)
  <2>1. UNCHANGED <<ledger, recorded, listShape>> /\ dedup' \subseteq Transfers
    BY <1>1, <1>2, <1>8 DEF DepositMark, CrashDeposit, depVars
  <2>2. pc'[h] = "idle" \/ (pc'[h] \in {"d_list", "d_old"} /\ got' = got)
    BY <1>1, <1>8 DEF DepositMark, CrashDeposit, Finish, Goto
  <2>3. Brings(h)'
    BY <1>2, <1>3, <2>2 DEF Brings, DepSteps
  <2> QED BY <1>1, <1>6, <2>1, <2>3 DEF DepTypeOK
<1>9. CASE DepositList(h) \/ DepositOld(h)
  <2>1. PICK l \in {ledger, Nothing} :
          /\ Reads(h, l) /\ UNCHANGED <<dedup, ledger, listShape>>
          /\ \/ DepositKnown(h, l)
             \/ l[t] = 0 /\ UNCHANGED recorded /\ Goto(h, "d_push")
             \/ l[t] = 0 /\ UNCHANGED recorded /\ Keep(h, "d_set", [got[h] EXCEPT !.list = l])
    BY <1>5, <1>9 DEF DepositList, DepositOld
  <2>2. l \in Ledgers /\ (l[t] > 0 => ledger[t] > 0)
    BY <1>1, NothingFacts
  <2>3. CASE DepositKnown(h, l)
    BY <1>1, <1>2, <1>5, <1>7, <2>1, <2>2, <2>3 DEF DepositKnown, Finish, Brings, DepSteps, DepTypeOK
  <2>4. CASE l[t] = 0 /\ UNCHANGED recorded /\ (Goto(h, "d_push") \/ Keep(h, "d_set", [got[h] EXCEPT !.list = l]))
    <3>1. got[h].late => unsure'[t] # {}
      <4>1. CASE Doubt(t, {"read"})
        BY <1>1, <4>1 DEF Doubt
      <4>2. CASE l = ledger
        BY <1>1, <1>2, <1>3, <1>4, <1>5, <2>4, <4>2 DEF Recorded
      <4> QED BY <1>5, <2>1, <4>1, <4>2 DEF Reads
    <3>2. \/ pc'[h] = "d_push" /\ got'[h] = got[h]
          \/ pc'[h] = "d_set" /\ got'[h] = [got[h] EXCEPT !.list = l]
      BY <1>1, <2>4 DEF Goto, Keep
    <3>3. [got[h] EXCEPT !.list = l] \in [late : BOOLEAN, list : Ledgers]
          /\ [got[h] EXCEPT !.list = l].late = got[h].late
      BY <1>3, <2>2
    <3>4. Brings(h)'
      BY <1>2, <1>3, <1>5, <3>1, <3>2, <3>3 DEF Brings, DepSteps
    <3> QED BY <1>1, <1>7, <2>1, <2>4, <3>4 DEF DepTypeOK
  <2> QED BY <2>1, <2>3, <2>4
<1>10. CASE DepositPush(h)
  <2>1. pc[h] = "d_push" /\ UNCHANGED <<dedup, listShape>>
    BY <1>10 DEF DepositPush, At
  <2>2. /\ ledger' \in {ledger, Appended(ledger, t)}
        /\ \/ recorded' = recorded
           \/ recorded' = recorded \cup {t} /\ ledger' = Appended(ledger, t)
    BY <1>5, <1>10 DEF DepositPush
  <2>3. ledger' \in Ledgers /\ \A x \in Transfers : ledger[x] > 0 => ledger'[x] > 0
    BY <1>1, <2>2, AppendedFacts
  <2>4. \A x \in recorded' : Recorded(x)'
    BY <1>1, <1>2, <1>4, <2>2, <2>3, AppendedFacts DEF Recorded
  <2>5. pc'[h] = "idle" \/ (pc'[h] = "d_old" /\ got' = got)
    BY <1>1, <1>10 DEF DepositPush, Finish, Goto
  <2>6. Brings(h)'
    BY <1>2, <1>3, <2>5 DEF Brings, DepSteps
  <2> QED BY <1>1, <1>2, <2>1, <2>2, <2>3, <2>4, <2>6 DEF DepTypeOK
<1>11. CASE DepositSet(h)
  <2>1. pc[h] = "d_set" /\ Finish(h) /\ dedup' = dedup
    BY <1>11 DEF DepositSet, At
  <2>2. Brings(h)'
    BY <1>1, <2>1 DEF Finish, Brings, DepSteps
  <2>3. CASE UNCHANGED <<ledger, listShape, recorded>>
    BY <1>1, <1>6, <2>1, <2>2, <2>3 DEF DepTypeOK
  <2>4. CASE /\ ledger' = Appended(got[h].list, on[h]) /\ listShape' = "json" /\ recorded' = recorded \cup {on[h]}
             /\ unsure' = [x \in DOMAIN unsure |->
                  IF x \in Transfers /\ ledger'[x] < ledger[x] THEN unsure[x] \cup {"lost"} ELSE unsure[x]]
    <3>1. PICK l \in Ledgers : l = got[h].list
      BY <1>3, <2>1
    <3>2. ledger' \in Ledgers /\ ledger'[t] > 0
      BY <1>5, <2>4, <3>1, AppendedFacts
    <3>3. \A x \in Transfers : ledger'[x] \in 0 .. MaxCredits /\ ledger'[x] \in Nat
      BY <3>2, CommerceAssumption DEF Ledgers
    <3>4. ASSUME NEW x \in recorded PROVE Recorded(x)'
      <4>1. CASE ledger'[x] < ledger[x]
        BY <1>1, <2>4, <4>1 DEF Recorded
      <4>2. CASE ~(ledger'[x] < ledger[x])
        BY <1>1, <1>2, <1>4, <3>3, <4>2 DEF Recorded
      <4> QED BY <4>1, <4>2
    <3> QED BY <1>1, <1>2, <1>5, <2>1, <2>2, <2>4, <3>2, <3>4 DEF DepTypeOK, Recorded
  <2> QED BY <1>11, <2>3, <2>4 DEF DepositSet
<1> QED BY <1>8, <1>9, <1>10, <1>11 DEF DepOwn

\* The steps of the deposit component.
LEMMA DepositSteps ==
  ASSUME DepInv, DepositStep
  PROVE  DepInv' /\ StepAbout(Transfers, DepSteps)
<1>1. "idle" \notin DepSteps /\ DepSteps \subseteq CommerceSteps
  BY DEF DepSteps, CommerceSteps
<1>2. ASSUME NEW h \in Handlers, DepositStart(h) PROVE DepInv' /\ StepAbout(Transfers, DepSteps)
  <2>1. PICK t \in Transfers : Begin(h, "deposit", "d_mark", t, [late |-> t \in recorded, list |-> None])
    BY <1>2 DEF DepositStart
  <2>2. Sure /\ UNCHANGED depVars /\ "d_mark" \in DepSteps
    BY <1>2 DEF DepositStart, DepSteps
  <2>3. Moves(h) /\ pc[h] = "idle" /\ pc'[h] = "d_mark" /\ on'[h] = t /\ on[h] = None
    BY <1>1, <2>1, <2>2, Begins DEF DepInv, Idle
  <2>4. StepAbout(Transfers, DepSteps)
    BY <2>2, <2>3 DEF StepAbout, Sure
  <2>5. Brings(h)'
    <3>1. got'[h] = [late |-> t \in recorded, list |-> None] /\ recorded' = recorded
      BY <2>1, <2>2 DEF Begin, depVars, DepInv, Serving, StepTypes
    <3>2. PICK b \in BOOLEAN : b <=> t \in recorded
      <4>1. CASE t \in recorded
        BY <4>1
      <4>2. CASE t \notin recorded
        BY <4>2
      <4> QED BY <4>1, <4>2
    <3>3. got'[h] = [late |-> b, list |-> None]
      <4>1. (t \in recorded) = b
        BY <3>2
      <4> QED BY <3>1, <4>1
    <3>4. /\ [late |-> b, list |-> None] \in [late : BOOLEAN, list : Ledgers \cup {None}]
          /\ [late |-> b, list |-> None].late = b
      OBVIOUS
    <3>5. pc'[h] \notin {"d_set", "d_push"} /\ (got'[h].late => on'[h] \in recorded')
      BY <2>3, <3>1, <3>2, <3>3, <3>4
    <3> QED BY <3>3, <3>4, <3>5 DEF Brings
  <2>6. \A q \in Handlers \ {h} : Brings(q)'
    BY <2>2, <2>3 DEF DepInv, Brings, Moves, Others, depVars, Sure
  <2>7. DepTypeOK' /\ \A x \in recorded' : Recorded(x)'
    BY <2>2 DEF DepInv, DepTypeOK, Recorded, depVars, Sure
  <2> QED BY <2>4, <2>5, <2>6, <2>7, ServingStep DEF DepInv
<1>3. ASSUME NEW h \in Handlers, DepOwn(h) PROVE DepInv' /\ StepAbout(Transfers, DepSteps)
  <2>1. /\ on[h] \in Transfers /\ Serving'
        /\ \A x \in Things : unsure[x] \subseteq unsure'[x] /\ (x \notin Transfers => unsure'[x] = unsure[x])
        /\ \A q \in Handlers \ {h} : pc'[q] = pc[q] /\ on'[q] = on[q] /\ got'[q] = got[q]
        /\ recorded \subseteq recorded' /\ pc[h] \in DepSteps
        /\ \/ pc'[h] = "idle" /\ on'[h] = None
           \/ pc'[h] \in DepSteps /\ on'[h] = on[h]
    BY <1>3, DepSteady
  <2>2. Moves(h)
    BY <2>1 DEF Moves, Others, Serving
  <2>3. StepAbout(Transfers, DepSteps)
    BY <1>1, <2>1, <2>2 DEF StepAbout
  <2>4. DepTypeOK' /\ (\A t \in recorded' : Recorded(t)') /\ Brings(h)'
    BY <1>3, DepKnows
  <2>5. ASSUME NEW q \in Handlers \ {h} PROVE Brings(q)'
    <3>1. pc[q] \in DepSteps => on[q] \in Things
      BY DEF DepInv, Serving, Serves, Things
    <3> QED BY <2>1, <3>1 DEF DepInv, Brings
  <2> QED BY <2>3, <2>4, <2>5, ServingStep DEF DepInv
<1> QED BY <1>2, <1>3 DEF DepositStep, DepOwn

\* A step of another kind leaves the deposits alone.
LEMMA DepositKept ==
  ASSUME DepInv, NEW S, NEW L, StepAbout(S, L), S \cap Transfers = {}, L \cap DepSteps = {}, UNCHANGED depVars
  PROVE  DepInv'
<1>1. /\ Serving' /\ Idle' /\ "idle" \notin DepSteps /\ recorded \subseteq Transfers
      /\ \A t \in Transfers : unsure'[t] = unsure[t]
  BY ServingStep DEF DepInv, DepSteps, DepTypeOK, StepAbout, Things
<1>2. \A q \in Handlers : \/ pc'[q] = pc[q] /\ on'[q] = on[q] /\ got'[q] = got[q]
                          \/ pc'[q] \notin DepSteps
  BY <1>1 DEF StepAbout, Moves, Others
<1>3. ASSUME NEW q \in Handlers PROVE Brings(q)'
  <2>1. pc[q] \in DepSteps => on[q] \in Transfers
    BY DEF DepInv, Serving, Serves
  <2> QED BY <1>1, <1>2, <2>1 DEF DepInv, Brings, depVars
<1> QED BY <1>1, <1>3 DEF DepInv, DepTypeOK, Recorded, depVars

-----------------------------------------------------------------------------

\* The mix of a behaviour is drawn once.
LEMMA MixStays == CommerceNext => mix' = mix
<1> USE DEF Begin, Goto, Keep, Finish, jobVars
<1>1. RequestStep => mix' = mix
  BY DEF RequestStep, CreateRequest, RequestDue, FlipRead, FlipWrite, ExpirePayLock, PayStart, PayMarker, PayLock,
     PaySettle, PayNote, PayPaid, CancelStart, CancelLock, CancelRead, CancelWrite, GiveBackPayLock, CrashPay, TakePayLock
<1>2. ASSUME NEW h \in Handlers, OwnStep(h) PROVE mix' = mix
  BY <1>2 DEF OwnStep, EscLook, EscPrior, EscTake, LockPrior, LockChain, LockHeal, LockCharge, LockSend,
     LockPost, LockNote, SettleSend, SettleNote, TransitionRead, TransitionWrite, GiveBackEscLock, CrashEscrow, Leave,
     AfterWrite
<1>3. EscrowStep => mix' = mix
  BY <1>2 DEF EscrowStep, OwnStep, CreateEscrow, PassDeadline, ExpireEscLock, RecheckOverdue, WriteView, EscStart,
     EscStartOverdue
<1>4. DepositStep => mix' = mix
  BY DEF DepositStep, DepositStart, DepositMark, DepositList, DepositPush, DepositOld, DepositSet, CrashDeposit,
     DepositKnown
<1> QED BY <1>1, <1>3, <1>4 DEF CommerceNext

\* The inductive invariant of the three components.
CommerceInv == mix \in Mixes /\ RequestInv /\ EscInv /\ DepInv

\* The invariant holds at the start.
LEMMA CommerceInvInit == CommerceInit => CommerceInv
<1> SUFFICES ASSUME CommerceInit PROVE CommerceInv
  OBVIOUS
<1>1. RequestInv /\ Serving /\ Idle /\ mix \in Mixes
  BY RequestInvInit, ServingInit DEF CommerceInit, Idle
<1>2. \A h \in Handlers : pc[h] = "idle" /\ on[h] = None /\ None \notin Escrows
  BY CommerceAssumption DEF CommerceInit
<1>3. EscTyped
  BY <1>2, CommerceAssumption DEF CommerceInit, EscInit, EscTyped, EscTypeOK, Carries, PathSteps, EscLockSteps, SendSteps,
     VaultStates
<1>4. ASSUME NEW e \in Escrows PROVE EscGood(e)
  <2>1. /\ escStatus[e] = "none" /\ vault[e] = "none" /\ past[e] = {} /\ escPhase[e] = 0 /\ settleMark[e] = None
        /\ escLazy[e] = {} /\ spent[e] = 0 /\ escAgent = {} /\ escLock = {} /\ lockMark = {}
    BY DEF CommerceInit, EscInit
  <2> QED BY <1>2, <2>1 DEF EscGood, OneHolder, VaultTold, Mirror, Early, Reach, Spend, Charged, VaultStates
<1>5. DepInv
  BY <1>1, <1>2, CommerceAssumption DEF CommerceInit, DepInit, DepInv, DepTypeOK, Ledgers, Brings, DepSteps
<1> QED BY <1>1, <1>3, <1>4, <1>5 DEF CommerceInv, EscInv

\* Every step of the three components preserves the invariant.
LEMMA CommerceInvNext == CommerceInv /\ [CommerceNext]_commerceVars => CommerceInv'
<1> SUFFICES ASSUME CommerceInv, [CommerceNext]_commerceVars PROVE CommerceInv'
  OBVIOUS
<1>1. RequestInv' /\ Serving /\ Idle /\ ReqTypeOK /\ EscInv /\ DepInv
  BY RequestInvNext DEF CommerceInv, RequestInv, EscInv
<1>2. mix' \in Mixes
  BY MixStays DEF CommerceInv, commerceVars, jobVars
<1>3. /\ Requests \cap Escrows = {} /\ Requests \cap Transfers = {} /\ Escrows \cap Transfers = {}
      /\ ReqSteps \cap EscSteps = {} /\ ReqSteps \cap DepSteps = {} /\ EscSteps \cap DepSteps = {}
  BY CommerceAssumption DEF ReqSteps, LockSteps, EscSteps, EscLockSteps, DepSteps
<1>4. CASE RequestStep /\ UNCHANGED <<escVars, depVars>>
  <2>1. StepAbout(Requests, ReqSteps) /\ UNCHANGED escVars /\ UNCHANGED depVars
    BY <1>1, <1>4, RequestSteps
  <2> QED BY <1>1, <1>2, <1>3, <2>1, EscrowKept, DepositKept DEF CommerceInv
<1>5. CASE EscrowStep /\ UNCHANGED <<reqVars, depVars>>
  <2>1. EscInv' /\ StepAbout(Escrows, EscSteps) /\ UNCHANGED depVars
    BY <1>1, <1>5, EscrowSteps
  <2> QED BY <1>1, <1>2, <1>3, <2>1, DepositKept DEF CommerceInv
<1>6. CASE DepositStep /\ UNCHANGED <<reqVars, escVars>>
  <2>1. DepInv' /\ StepAbout(Transfers, DepSteps) /\ UNCHANGED escVars
    BY <1>1, <1>6, DepositSteps
  <2> QED BY <1>1, <1>2, <1>3, <2>1, EscrowKept DEF CommerceInv
<1>7. CASE UNCHANGED commerceVars
  <2>1. UNCHANGED <<pc, on, got, unsure>> /\ UNCHANGED escVars /\ UNCHANGED depVars
    BY <1>7 DEF commerceVars, jobVars
  <2>2. StepAbout({}, {})
    BY <1>1, <2>1 DEF StepAbout, Serving, StepTypes
  <2> QED BY <1>1, <1>2, <2>1, <2>2, EscrowKept, DepositKept DEF CommerceInv
<1> QED BY <1>4, <1>5, <1>6, <1>7 DEF CommerceNext

\* The invariant holds throughout.
LEMMA CommerceInvariant == CommerceSpec => []CommerceInv
BY CommerceInvInit, CommerceInvNext, PTL DEF CommerceSpec

\* The records of requests, escrows and deposits keep their types: in
\* particular the daily spend of an agent wallet is not given back below zero,
\* whichever invocation returns a reservation.
THEOREM CommerceTypes == CommerceSpec => []CommerceTypeOK
<1>1. CommerceInv => CommerceTypeOK
  BY DEF CommerceInv, RequestInv, EscInv, DepInv, EscTyped, Serving, StepTypes, Things, CommerceTypeOK
<1> QED BY <1>1, CommerceInvariant, PTL

\* The record of an escrow and its two markers are never ahead of the vault.
THEOREM RecordFollowsVault == CommerceSpec => []MirrorTrue
<1>1. CommerceInv => MirrorTrue
  BY DEF CommerceInv, EscInv, EscGood, Mirror, MirrorTrue
<1> QED BY <1>1, CommerceInvariant, PTL

\* Funds that the vault holds stay within reach of refund and release, through
\* any one failed write and the readers that write back.
THEOREM FundsStayReachable == CommerceSpec => []FundsReachable
<1>1. CommerceInv => FundsReachable
  <2> SUFFICES ASSUME CommerceInv, NEW e \in Escrows, vault[e] \in {"open", "disputed"}, unsure[e] = {}, NobodyAt(e)
               PROVE  escStatus[e] \in {"open", "disputed"} \/ (escStatus[e] = "pending" /\ e \in lockMark)
    BY DEF FundsReachable
  <2>1. Mirror(e) /\ VaultTold(e) /\ Reach(e)
    BY DEF CommerceInv, EscInv, EscGood
  <2>2. escStatus[e] \in PaidStates => vault[e] = escStatus[e]
    BY <2>1 DEF Mirror, VaultTold, PaidStates, VaultStates
  <2>3. ~\E h \in Handlers : Unwritten(h, e)
    BY DEF NobodyAt, Unwritten
  <2> QED BY <2>1, <2>2, <2>3 DEF Reach, PaidStates, VaultStates
<1> QED BY <1>1, CommerceInvariant, PTL

\* The daily spend counts a lock that took effect once and one that did not,
\* not at all.
THEOREM SpendsFollowLocks == CommerceSpec => []SpendFollowsLock
<1>1. CommerceInv => SpendFollowsLock
  BY DEF CommerceInv, EscInv, EscTyped, EscTypeOK, EscGood, Spend, Charged, NobodyAt, SpendFollowsLock
<1> QED BY <1>1, CommerceInvariant, PTL

\* A transfer that was reported as recorded is not credited again.
THEOREM DepositsStayRecorded == CommerceSpec => []RecordedIsFinal
<1>1. CommerceInv => RecordedIsFinal
  BY DEF CommerceInv, DepInv, Brings, DepSteps, RecordedIsFinal
<1> QED BY <1>1, CommerceInvariant, PTL
=============================================================================
