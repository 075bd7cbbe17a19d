------------------------------- MODULE Escrow -------------------------------
(***************************************************************************)
(* Escrow: the record, the two markers and the action lock of escrow.ts,   *)
(* the action route over them, signed by the client or, for a buyer that   *)
(* is an agent wallet, by the server, and the vault on the chain, which    *)
(* holds the funds and is external.                                        *)
(***************************************************************************)
EXTENDS Storefront

CONSTANTS Escrows,
          DailyLocks    \* the locks of one escrow's amount the daily limit has room for

Acts == {"lock", "dispute", "release", "refund", "toSeller", "toBuyer"}

VaultStates == {"open", "disputed", "released", "refunded"}

VARIABLES
  escStatus,    \* the status of escrow:{id}, "none" before it is created
  escAgent,     \* escrows whose buyer is an agent wallet
  escPhase,     \* 0 before the release deadline, 1 after it, 2 after the resolve window too
  escLock,      \* the escrows whose escrow:lock:{id} exists
  lockMark,     \* the escrows whose escrow:locked:{id} exists
  settleMark,   \* escrow:settled:{id}
  escLazy,      \* escLazy[e]: the write-backs of readers that are under way
  spent,        \* spent[e]: how often its amount is counted in the wallet's daily spend
  past          \* past[e]: the states the vault has been in; the last is vault[e]

VARIABLE vault  \* external: the state of the escrow in Q402EscrowVault

escVars == <<escStatus, escAgent, escPhase, escLock, lockMark, settleMark, escLazy, spent, past, vault>>
recVars == <<escStatus, lockMark, settleMark, escLazy>>
chainVars == <<past, vault>>

EscTypeOK ==
  /\ escStatus \in [Escrows -> VaultStates \cup {"none", "pending", "expired"}]
  /\ escPhase \in [Escrows -> 0 .. 2]
  /\ escAgent \subseteq Escrows /\ escLock \subseteq Escrows /\ lockMark \subseteq Escrows
  /\ settleMark \in [Escrows -> VaultStates \cup {None}]
  /\ escLazy \in [Escrows -> SUBSET {"recheck", "open", "expired"}]
  /\ spent \in [Escrows -> 0 .. DailyLocks]
  /\ past \in [Escrows -> SUBSET VaultStates] /\ vault \in [Escrows -> VaultStates \cup {"none"}]

EscInit ==
  /\ escStatus = [e \in Escrows |-> "none"] /\ vault = [e \in Escrows |-> "none"]
  /\ past = [e \in Escrows |-> {}] /\ escPhase = [e \in Escrows |-> 0]
  /\ escAgent = {} /\ escLock = {} /\ lockMark = {}
  /\ settleMark = [e \in Escrows |-> None] /\ escLazy = [e \in Escrows |-> {}]
  /\ spent = [e \in Escrows |-> 0]

\* The buyer is the creator or an agent wallet of the creator's.
CreateEscrow(e) ==
  /\ "escrow" \in mix /\ escStatus[e] = "none"
  /\ escStatus' = [escStatus EXCEPT ![e] = "pending"]
  /\ escAgent' \in {escAgent, escAgent \cup {e}}
  /\ UNCHANGED <<escPhase, escLock, lockMark, settleMark, escLazy, spent, chainVars, jobVars>>

Locking(h, e) == on[h] = e /\ pc[h] # "e_exit" /\ got[h].act = "lock"

\* Time.
PassDeadline(e) ==
  /\ escStatus[e] # "none" /\ escPhase[e] < 2
  /\ escPhase' = [escPhase EXCEPT ![e] = @ + 1]
  /\ Doubt(e, IF escPhase[e] = 0 /\ \E h \in Handlers : Locking(h, e) THEN {"lost"} ELSE {})
  /\ UNCHANGED <<mix, pc, on, got, escStatus, escAgent, escLock, lockMark, settleMark, escLazy,
                 spent, chainVars>>

-----------------------------------------------------------------------------
(* getEscrow: a pending record past its deadline is read as open when the   *)
(* lock marker says so, else as expired, and written back as what it was    *)
(* read as, which the reader does not wait for.  Only the expiry looks      *)
(* again before it writes.                                                  *)

Overdue(e) == escStatus[e] = "pending" /\ escPhase[e] > 0

Lazy(e, from, to) == escLazy' = [escLazy EXCEPT ![e] = (@ \ from) \cup to]

ViewOf(seesMark) == IF seesMark THEN "open" ELSE "expired"
WriteOf(seesMark) == IF seesMark THEN {"open"} ELSE {"recheck"}

\* Mutant: the marker is not looked for.
MarkUnread(e, seen) == ~seen /\ Sure

\* The marker, or none when it cannot be read.
ReadsMark(e, seen) ==
  \/ seen = (e \in lockMark) /\ Sure
  \/ Fault("kv_read") /\ e \in lockMark /\ ~seen /\ Doubt(e, {"lost"})

RecheckOverdue(e) ==
  /\ "recheck" \in escLazy[e]
  /\ Lazy(e, {"recheck"}, IF Overdue(e) THEN {"expired"} ELSE {})
  /\ UNCHANGED <<escStatus, escAgent, escPhase, escLock, lockMark, settleMark, spent, chainVars,
                 jobVars>>

WriteView(e) ==
  /\ \E s \in escLazy[e] \cap {"open", "expired"} :
       /\ Lazy(e, {s}, {})
       /\ \/ escStatus' = [escStatus EXCEPT ![e] = s]
          \/ Fault("kv_write") /\ UNCHANGED escStatus
  /\ UNCHANGED <<escAgent, escPhase, escLock, lockMark, settleMark, spent, chainVars, jobVars>>

-----------------------------------------------------------------------------
(* POST /api/escrow/[id]/{lock|dispute|release|refund|resolve}: got[h] holds *)
(* the action, whether the record as first read allows it, and whether the   *)
(* marker of what was done stands.  GET /api/escrow/[id] reads and leaves.   *)

Act(h) == got[h].act
From(a) == CASE a = "lock" -> {"pending"}
             [] a \in {"dispute", "release"} -> {"open"}
             [] a = "refund" -> {"open", "disputed"}
             [] OTHER -> {"disputed"}
To(a) == CASE a = "lock" -> "open" [] a = "dispute" -> "disputed"
           [] a \in {"release", "toSeller"} -> "released"
           [] OTHER -> "refunded"
PaysOut(a) == a \notin {"lock", "dispute"}

AfterRead(a) == IF PaysOut(a) THEN "e_prior" ELSE "e_lock"

\* Actions that the record does not allow take the lock and give it back: of
\* those only whether they look for a payout first is kept.
Read(a, status) ==
  LET fit == status \in From(a)
  IN  [act |-> IF fit THEN a ELSE IF PaysOut(a) THEN "release" ELSE "dispute",
       fit |-> fit, marked |-> TRUE]

EscStart(h) ==
  /\ \E e \in Escrows, a \in Acts :
       /\ escStatus[e] # "none" /\ ~Overdue(e)
       /\ Begin(h, "escrow", AfterRead(a), e, Read(a, escStatus[e]))
  /\ Sure /\ UNCHANGED escVars

EscStartOverdue(h) ==
  /\ \E e \in Escrows, a \in Acts \cup {"get"} :
       Overdue(e) /\ Begin(h, "escrow", "e_look", e, [act |-> a])
  /\ Sure /\ UNCHANGED escVars

EscLook(h) ==
  /\ At(h, "e_look")
  /\ \E seen \in BOOLEAN :
       /\ ReadsMark(on[h], seen) /\ Lazy(on[h], {}, WriteOf(seen))
       /\ IF Act(h) = "get" THEN Finish(h)
          ELSE Keep(h, AfterRead(Act(h)), Read(Act(h), ViewOf(seen)))
  /\ UNCHANGED <<escStatus, escAgent, escPhase, escLock, lockMark, settleMark, spent, chainVars>>

EscPrior(h) ==
  /\ At(h, "e_prior")
  /\ \/ settleMark[on[h]] # None /\ Finish(h)
     \/ settleMark[on[h]] = None /\ Goto(h, "e_lock")
     \/ Fault("kv_read") /\ Goto(h, "e_lock")
  /\ Sure /\ UNCHANGED escVars

\* Gives the action lock back: what was read no longer matters.
Leave(h) == Keep(h, "e_exit", None)

\* SET NX; the record is judged as it was read before.
EscTake(h) ==
  /\ At(h, "e_lock")
  /\ \/ on[h] \in escLock /\ Finish(h) /\ UNCHANGED escLock
     \/ /\ on[h] \notin escLock /\ escLock' = escLock \cup {on[h]}
        /\ IF ~got[h].fit THEN Leave(h)
           ELSE Goto(h, IF Act(h) = "lock" THEN "l_prior" ELSE "s_send")
     \/ Fault("kv_write") /\ escLock' = escLock \cup {on[h]} /\ Finish(h)
  /\ Sure /\ UNCHANGED <<recVars, escAgent, escPhase, spent, chainVars>>

-----------------------------------------------------------------------------
(* The vault.  A transaction that is mined takes effect if the vault allows *)
(* it.                                                                      *)

Allows(e, a) ==
  CASE a = "lock" -> vault[e] = "none"
    [] a \in {"dispute", "release"} -> vault[e] = "open"
    [] a = "refund" -> \/ vault[e] = "open" /\ escPhase[e] > 0
                       \/ vault[e] = "disputed" /\ escPhase[e] = 2
    [] OTHER -> vault[e] = "disputed"

Mine(e, a) ==
  /\ Allows(e, a)
  /\ vault' = [vault EXCEPT ![e] = To(a)]
  /\ past' = [past EXCEPT ![e] = @ \cup {To(a)}]

-----------------------------------------------------------------------------
(* lock *)

LockPrior(h) ==
  /\ At(h, "l_prior")
  /\ \E seen \in BOOLEAN : ReadsMark(on[h], seen) /\ Goto(h, IF seen THEN "t_read" ELSE "l_chain")
  /\ UNCHANGED escVars

\* No marker: an escrow that the chain already has is healed, and an answer
\* that does not come is taken for none.
LockChain(h) ==
  /\ At(h, "l_chain")
  /\ LET e == on[h]
         send == IF e \in escAgent THEN "l_charge" ELSE "l_send"
     IN  \/ vault[e] = "none" /\ Goto(h, send) /\ Sure
         \/ vault[e] = "open" /\ Goto(h, "l_heal") /\ Sure
         \/ vault[e] \notin {"none", "open"} /\ Leave(h) /\ Sure
         \/ Fault("answer") /\ vault[e] # "none" /\ Goto(h, send) /\ Doubt(e, {"lost"})
  /\ UNCHANGED escVars

\* The result of this marker write is not looked at.
LockHeal(h) ==
  /\ At(h, "l_heal") /\ Goto(h, "t_read")
  /\ lockMark' = lockMark \cup {on[h]} \/ (Fault("kv_write") /\ UNCHANGED lockMark)
  /\ Sure /\ UNCHANGED <<escStatus, escAgent, escPhase, escLock, settleMark, escLazy, spent, chainVars>>

LockCharge(h) ==
  /\ At(h, "l_charge")
  /\ \/ /\ spent[on[h]] < DailyLocks
        /\ spent' = [spent EXCEPT ![on[h]] = @ + 1] /\ Goto(h, "l_send")
     \/ spent[on[h]] = DailyLocks /\ UNCHANGED spent /\ Leave(h)
  /\ Sure /\ UNCHANGED <<recVars, escAgent, escPhase, escLock, chainVars>>

\* Mutant: the reservation of a lock that failed is kept.
KeepSpend(e, why) == UNCHANGED spent /\ Doubt(e, why)

\* Mutant: a reservation is given back for every buyer.
UnspendForAll(e, why) == spent' = [spent EXCEPT ![e] = @ - 1] /\ Doubt(e, why)

\* The reservation of an agent wallet is given back, or the failure to do so
\* is passed over.
Unspend(e, why) ==
  \/ e \notin escAgent /\ UNCHANGED spent /\ Doubt(e, why)
  \/ e \in escAgent /\ spent' = [spent EXCEPT ![e] = @ - 1] /\ Doubt(e, why)
  \/ e \in escAgent /\ Fault("kv_write") /\ UNCHANGED spent /\ Doubt(e, why \cup {"kept"})

\* Confirmed; refused or reverted; confirmed with the answer lost; or mined
\* with status 1 and no effect, which only the agent path looks for.
LockSend(h) ==
  LET e == on[h]
      next == IF e \in escAgent THEN "l_post" ELSE "l_note"
  IN  /\ At(h, "l_send")
      /\ \/ Mine(e, "lock") /\ Goto(h, next) /\ Sure /\ UNCHANGED spent
         \/ Unspend(e, {}) /\ Leave(h) /\ UNCHANGED chainVars
         \/ Fault("answer") /\ Mine(e, "lock") /\ Unspend(e, {"lost"}) /\ Leave(h)
         \/ /\ Fault("answer") /\ Goto(h, next) /\ UNCHANGED <<spent, chainVars>>
            /\ Doubt(e, IF e \in escAgent THEN {} ELSE {"noop"})
      /\ UNCHANGED <<recVars, escAgent, escPhase, escLock>>

\* Mutant: the lock is not looked up on the chain after it was sent.
PostUnread(h) ==
  /\ At(h, "l_post") /\ Goto(h, "l_note") /\ Sure
  /\ UNCHANGED <<recVars, escAgent, escPhase, escLock, spent, chainVars>>

LockPost(h) ==
  /\ At(h, "l_post")
  /\ LET e == on[h]
     IN  \/ vault[e] = "open" /\ Goto(h, "l_note") /\ Sure /\ UNCHANGED spent
         \/ vault[e] # "open" /\ Unspend(e, {}) /\ Leave(h)
         \/ Fault("answer") /\ Unspend(e, {"lost"}) /\ Leave(h)
  /\ UNCHANGED <<recVars, escAgent, escPhase, escLock, chainVars>>

LockNote(h) ==
  /\ At(h, "l_note")
  /\ \/ lockMark' = lockMark \cup {on[h]} /\ Goto(h, "t_read")
     \/ /\ Fault("kv_write") /\ UNCHANGED lockMark
        /\ Keep(h, "t_read", [got[h] EXCEPT !.marked = FALSE])
  /\ Sure /\ UNCHANGED <<escStatus, escAgent, escPhase, escLock, settleMark, escLazy, spent, chainVars>>

-----------------------------------------------------------------------------
(* dispute, release, refund and resolve *)

SettleSend(h) ==
  LET e == on[h]
      a == Act(h)
  IN  /\ At(h, "s_send")
      /\ \/ Mine(e, a) /\ Goto(h, IF PaysOut(a) THEN "s_note" ELSE "t_read") /\ Sure
         \/ Leave(h) /\ Sure /\ UNCHANGED chainVars
         \/ Fault("answer") /\ Mine(e, a) /\ Leave(h) /\ Doubt(e, {"lost"})
      /\ UNCHANGED <<recVars, escAgent, escPhase, escLock, spent>>

SettleNote(h) ==
  /\ At(h, "s_note")
  /\ \/ settleMark' = [settleMark EXCEPT ![on[h]] = To(Act(h))] /\ Goto(h, "t_read")
     \/ /\ Fault("kv_write") /\ UNCHANGED settleMark
        /\ Keep(h, "t_read", [got[h] EXCEPT !.marked = FALSE])
  /\ Sure /\ UNCHANGED <<escStatus, escAgent, escPhase, escLock, lockMark, escLazy, spent, chainVars>>

-----------------------------------------------------------------------------
(* transition: read the record, and write it if the step is a legal one *)

\* A payout keeps the lock to expire, the others give it back.
AfterWrite(h) == IF PaysOut(Act(h)) THEN Finish(h) ELSE Leave(h)

TransitionRead(h) ==
  /\ At(h, "t_read")
  /\ \/ escStatus[on[h]] \in From(Act(h)) /\ Goto(h, "t_write")
     \/ escStatus[on[h]] \notin From(Act(h)) /\ AfterWrite(h)
  /\ Sure /\ UNCHANGED escVars

\* A write that throws leaves the lock to expire if the marker failed too.
TransitionWrite(h) ==
  /\ At(h, "t_write")
  /\ \/ /\ escStatus' = [escStatus EXCEPT ![on[h]] = To(Act(h))]
        /\ AfterWrite(h) /\ Sure
     \/ /\ Fault("kv_write") /\ UNCHANGED escStatus
        /\ IF got[h].marked THEN Leave(h) ELSE Finish(h)
        /\ Doubt(on[h], IF got[h].marked THEN {} ELSE {"lost"})
  /\ UNCHANGED <<escAgent, escPhase, escLock, lockMark, settleMark, escLazy, spent, chainVars>>

\* DEL, without looking whose lock it is.
GiveBackEscLock(h) ==
  /\ At(h, "e_exit") /\ Finish(h)
  /\ escLock' = escLock \ {on[h]} \/ (Fault("kv_write") /\ UNCHANGED escLock)
  /\ Sure /\ UNCHANGED <<recVars, escAgent, escPhase, spent, chainVars>>

-----------------------------------------------------------------------------

EscLockSteps == {"l_prior", "l_chain", "l_heal", "l_charge", "l_send", "l_post", "l_note",
                 "s_send", "s_note", "t_read", "t_write", "e_exit"}

\* 120 s, longer than an invocation lives.
ExpireEscLock(e) ==
  /\ e \in escLock /\ escLock' = escLock \ {e}
  /\ \A h \in Handlers : on[h] = e => pc[h] \notin EscLockSteps
  /\ UNCHANGED <<recVars, escAgent, escPhase, spent, chainVars, jobVars>>

\* Killed with the lock held; what it has broadcast is mined without it, and
\* what it has reserved or done and not recorded stays so.
CrashEscrow(h) ==
  /\ Fault("crash") /\ on[h] \in Escrows /\ pc[h] \in EscLockSteps /\ Finish(h)
  /\ UNCHANGED chainVars \/ (pc[h] \in {"l_send", "s_send"} /\ Mine(on[h], Act(h)))
  /\ Doubt(on[h], IF pc[h] \in {"l_send", "l_post", "l_note", "t_read", "t_write"} THEN {"lost"}
                  ELSE {})
  /\ UNCHANGED <<recVars, escAgent, escPhase, escLock, spent>>

EscrowStep ==
  \/ \E e \in Escrows : \/ CreateEscrow(e) \/ PassDeadline(e) \/ ExpireEscLock(e)
                        \/ RecheckOverdue(e) \/ WriteView(e)
  \/ \E h \in Handlers :
       \/ EscStart(h) \/ EscStartOverdue(h) \/ EscLook(h) \/ EscPrior(h) \/ EscTake(h)
       \/ LockPrior(h) \/ LockChain(h) \/ LockHeal(h) \/ LockCharge(h) \/ LockSend(h)
       \/ LockPost(h) \/ LockNote(h)
       \/ SettleSend(h) \/ SettleNote(h)
       \/ TransitionRead(h) \/ TransitionWrite(h) \/ GiveBackEscLock(h) \/ CrashEscrow(h)

-----------------------------------------------------------------------------

NobodyAt(e) == escLazy[e] = {} /\ \A h \in Handlers : on[h] # e

\* The record and its markers are never ahead of the chain: they speak of a
\* state the vault has been in, and the settled marker of its last, unless a
\* lock without effect was reported to a client as mined.
MirrorTrue == \A e \in Escrows :
  \/ "noop" \in unsure[e]
  \/ /\ escStatus[e] \in VaultStates => escStatus[e] \in past[e]
     /\ e \in lockMark => "open" \in past[e]
     /\ settleMark[e] # None => vault[e] = settleMark[e]

\* Funds in the vault stay within reach of refund and release: whatever one
\* failed write and the readers that write back did, the record ends up open
\* or disputed, or pending with the marker that will open it.
FundsReachable == \A e \in Escrows :
  vault[e] \in {"open", "disputed"} /\ unsure[e] = {} /\ NobodyAt(e) =>
    escStatus[e] \in {"open", "disputed"} \/ (escStatus[e] = "pending" /\ e \in lockMark)

\* The daily spend of an agent wallet counts a lock that took effect once,
\* and one that did not, not at all, though two of them were sent.
SpendFollowsLock == \A e \in escAgent :
  unsure[e] = {} /\ NobodyAt(e) => spent[e] = IF vault[e] = "none" THEN 0 ELSE 1
=============================================================================
