------------------------------ MODULE Receipts ------------------------------
(***************************************************************************)
(* Trust receipts: createReceipt, run twice by the relay route after a     *)
(* settlement, the backfill queue it falls back on, and the cron that      *)
(* works the queue off.                                                    *)
(*                                                                         *)
(*   c_claim, c_body   createReceipt in the relay, tries[h] = 1, 2         *)
(*   c_queue .. c_page queueReceiptBackfill: two writes at once            *)
(*   g_list .. g_srem  the cron reads the queue                            *)
(*   g_lock .. g_unlock  processBackfillEntry                              *)
(***************************************************************************)
EXTENDS RelayRoute

CONSTANT MaxAttempts  \* MAX_ATTEMPTS, 5 in the code

\* newReceiptId: a call of createReceipt never draws the id of another.
ReceiptIds == Handlers \X {1, 2}

ASSUME ReceiptAssumption == MaxAttempts \in Nat \ {0} /\ None \notin ReceiptIds

VARIABLES
  receiptOf,  \* receipt-by-tx:{tx}
  bodies,     \* receipt:{id}, with the settlement each is about
  queue,      \* receipt-backfill-queue
  entry,      \* receipt-backfill:{tx}, its count of attempts
  fillLock,   \* receipt-backfill-lock:{tx}
  gaveUp,     \* settlements the cron gave up on
  paged,      \* settlements ops were asked to write a receipt for
  rid,        \* rid[h]: the receipt id handler h is writing
  tries       \* tries[h]: attempts it made, or read in the entry

fillVars == <<queue, entry, fillLock, gaveUp, paged>>
receiptVars == <<receiptOf, bodies, fillVars, rid, tries>>

ReceiptTypeOK ==
  /\ receiptOf \in [Txs -> ReceiptIds \cup {None}]
  /\ bodies \in SUBSET (ReceiptIds \X Txs)
  /\ queue \in SUBSET Txs
  /\ entry \in [Txs -> Nat \cup {None}]
  /\ fillLock \in [Txs -> Handlers \cup {None}]
  /\ gaveUp \in SUBSET Txs /\ paged \in SUBSET Txs
  /\ rid \in [Handlers -> ReceiptIds \cup {None}]
  /\ tries \in [Handlers -> Nat]

ReceiptInit ==
  /\ receiptOf = [t \in Txs |-> None] /\ bodies = {}
  /\ queue = {} /\ entry = [t \in Txs |-> None] /\ fillLock = [t \in Txs |-> None]
  /\ gaveUp = {} /\ paged = {}
  /\ rid = [h \in Handlers |-> None] /\ tries = [h \in Handlers |-> 1]

\* The count is not read any more.
Forget(h) == tries' = [tries EXCEPT ![h] = 1]

HasBody(t) == \E i \in ReceiptIds : <<i, t>> \in bodies

\* Mutant: SET without NX.
ClaimReceiptBlindly(h, i, won, lost) ==
  /\ Goto(h, won) /\ rid' = [rid EXCEPT ![h] = i]
  /\ receiptOf' = [receiptOf EXCEPT ![item[h]] = i]

\* Mutant: a body that cannot be written is dropped from the queue.
FillBodyForgetting(h) ==
  /\ pc[h] = "g_body" /\ CanFail("refused") /\ Goto(h, "g_member")
  /\ UNCHANGED <<receiptOf, bodies, rid, fillVars, tries, txScope, accountVars>>

-----------------------------------------------------------------------------
(* createReceipt *)

\* SET NX on the settlement.  The loser returns the receipt that is there, or
\* takes over the id of a claim without a body.
ClaimReceipt(h, i, won, lost) ==
  LET t == item[h]
  IN \/ /\ receiptOf[t] = None /\ Goto(h, won)
        /\ receiptOf' = [receiptOf EXCEPT ![t] = i] /\ rid' = [rid EXCEPT ![h] = i]
     \/ /\ receiptOf[t] # None /\ <<receiptOf[t], t>> \notin bodies /\ Goto(h, won)
        /\ rid' = [rid EXCEPT ![h] = receiptOf[t]] /\ UNCHANGED receiptOf
     \/ /\ receiptOf[t] # None /\ <<receiptOf[t], t>> \in bodies /\ Goto(h, lost)
        /\ UNCHANGED <<receiptOf, rid>>

\* The body, then the claim once more; either write, or signing, may throw.
WriteBody(h) == bodies' = bodies \cup {<<rid[h], item[h]>>}
WriteReceipt(h) == WriteBody(h) /\ receiptOf' = [receiptOf EXCEPT ![item[h]] = rid[h]]
WriteReceiptThrows(h) == CanFail("refused") /\ (WriteBody(h) \/ UNCHANGED bodies) /\ UNCHANGED receiptOf

InlineClaim(h) ==
  /\ pc[h] = "c_claim"
  /\ \/ ClaimReceipt(h, <<h, tries[h]>>, "c_body", "r_mirror") /\ UNCHANGED tries
     \/ /\ CanFail("refused") \/ CanFail("kv_read")
        /\ Goto(h, IF tries[h] = 1 THEN "c_claim" ELSE "c_queue")
        /\ tries' = [tries EXCEPT ![h] = @ + 1] /\ UNCHANGED <<receiptOf, rid>>
  /\ UNCHANGED <<bodies, fillVars, txScope, accountVars>>

InlineBody(h) ==
  /\ pc[h] = "c_body"
  /\ \/ WriteReceipt(h) /\ Goto(h, "r_mirror") /\ UNCHANGED tries
     \/ /\ WriteReceiptThrows(h)
        /\ Goto(h, IF tries[h] = 1 THEN "c_claim" ELSE "c_queue")
        /\ tries' = [tries EXCEPT ![h] = @ + 1]
  /\ rid' = [rid EXCEPT ![h] = None]
  /\ UNCHANGED <<fillVars, txScope, accountVars>>

\* Promise.all([SADD, SET]): either may arrive first.  If one is refused the
\* other may still arrive, and ops are paged.
Enqueue(h) ==
  /\ pc[h] = "c_queue"
  /\ \/ queue' = queue \cup {item[h]} /\ Goto(h, "c_entry") /\ UNCHANGED entry
     \/ entry' = [entry EXCEPT ![item[h]] = 0] /\ Goto(h, "c_member") /\ UNCHANGED queue
     \/ CanFail("refused") /\ Goto(h, "c_page") /\ UNCHANGED <<queue, entry>>
  /\ Forget(h)
  /\ UNCHANGED <<receiptOf, bodies, fillLock, gaveUp, paged, rid, txScope, accountVars>>

EnqueueRest(h) ==
  /\ \/ /\ pc[h] = "c_entry" /\ Goto(h, "r_mirror")
        /\ entry' = [entry EXCEPT ![item[h]] = 0] /\ UNCHANGED queue
     \/ /\ pc[h] = "c_member" /\ Goto(h, "r_mirror")
        /\ queue' = queue \cup {item[h]} /\ UNCHANGED entry
     \/ /\ CanFail("refused") /\ pc[h] \in {"c_entry", "c_member"} /\ Goto(h, "c_page")
        /\ UNCHANGED <<queue, entry>>
  /\ UNCHANGED <<receiptOf, bodies, fillLock, gaveUp, paged, rid, tries, txScope, accountVars>>

PageReceipt(h) ==
  /\ pc[h] = "c_page" /\ paged' = paged \cup {item[h]} /\ Goto(h, "r_mirror")
  /\ UNCHANGED <<receiptOf, bodies, queue, entry, fillLock, gaveUp, rid, tries, txScope, accountVars>>

InlineReceipt(h) == InlineClaim(h) \/ InlineBody(h) \/ Enqueue(h) \/ EnqueueRest(h) \/ PageReceipt(h)

-----------------------------------------------------------------------------
(* The backfill cron: one entry per handler *)

FillStart(h) ==
  /\ Begin(h, "backfill")
  /\ \E t \in queue : item' = [item EXCEPT ![h] = t]
  /\ pc' = [pc EXCEPT ![h] = "g_list"]
  /\ UNCHANGED <<seen, key, txScope, accountVars, receiptVars>>

\* A member of the queue without an entry is an orphan.
FillRead(h) ==
  LET t == item[h]
  IN /\ pc[h] = "g_list"
     /\ \/ /\ entry[t] # None /\ Goto(h, "g_lock") /\ tries' = [tries EXCEPT ![h] = entry[t]]
        \/ entry[t] = None /\ Goto(h, "g_srem") /\ UNCHANGED tries
        \/ CanFail("kv_read") /\ End(h) /\ UNCHANGED tries
     /\ UNCHANGED <<receiptOf, bodies, fillVars, rid, txScope, accountVars>>

FillDropOrphan(h) ==
  /\ pc[h] = "g_srem"
  /\ queue' = queue \ {item[h]} \/ (CanFail("refused") /\ UNCHANGED queue)
  /\ End(h)
  /\ UNCHANGED <<receiptOf, bodies, entry, fillLock, gaveUp, paged, rid, tries, txScope, accountVars>>

FillLock(h) ==
  /\ pc[h] = "g_lock"
  /\ \/ /\ fillLock[item[h]] = None /\ Goto(h, "g_claim")
        /\ fillLock' = [fillLock EXCEPT ![item[h]] = h]
     \/ (fillLock[item[h]] # None \/ CanFail("refused")) /\ End(h) /\ UNCHANGED fillLock
  /\ UNCHANGED <<receiptOf, bodies, queue, entry, gaveUp, paged, rid, tries, txScope, accountVars>>

FillClaim(h) ==
  /\ pc[h] = "g_claim"
  /\ \/ ClaimReceipt(h, <<h, 1>>, "g_body", "g_member")
     \/ (CanFail("refused") \/ CanFail("kv_read")) /\ Goto(h, "g_bump") /\ UNCHANGED <<receiptOf, rid>>
  /\ UNCHANGED <<bodies, fillVars, tries, txScope, accountVars>>

FillBody(h) ==
  /\ pc[h] = "g_body"
  /\ \/ WriteReceipt(h) /\ Goto(h, "g_member")
     \/ WriteReceiptThrows(h) /\ Goto(h, "g_bump")
  /\ rid' = [rid EXCEPT ![h] = None]
  /\ UNCHANGED <<fillVars, tries, txScope, accountVars>>

\* dequeue: SREM and DEL at once; a reader finds the member alone only for
\* the time in between.
Dequeue(t) == queue' = queue \ {t} /\ entry' = [entry EXCEPT ![t] = None]
DequeueThrows(t) ==
  /\ CanFail("refused")
  /\ \/ queue' = queue \ {t} /\ UNCHANGED entry
     \/ entry' = [entry EXCEPT ![t] = None] /\ UNCHANGED queue
     \/ UNCHANGED <<queue, entry>>

\* Inside the try block: a refused dequeue counts as a failed attempt, and
\* the entry is written again.
FillDequeue(h) ==
  /\ pc[h] = "g_member"
  /\ \/ Dequeue(item[h]) /\ Goto(h, "g_unlock")
     \/ DequeueThrows(item[h]) /\ Goto(h, "g_bump")
  /\ UNCHANGED <<receiptOf, bodies, fillLock, gaveUp, paged, rid, tries, txScope, accountVars>>

FillGiveUp(h) ==
  /\ pc[h] = "g_gone" /\ Goto(h, "g_unlock")
  /\ Dequeue(item[h]) \/ DequeueThrows(item[h])
  /\ UNCHANGED <<receiptOf, bodies, fillLock, gaveUp, paged, rid, tries, txScope, accountVars>>

\* The count is written from the entry that was read; the last attempt gives
\* up.  If the write fails the cron run ends with the error.
FillBump(h) ==
  /\ pc[h] = "g_bump"
  /\ \/ /\ entry' = [entry EXCEPT ![item[h]] = tries[h] + 1]
        /\ IF tries[h] + 1 >= MaxAttempts
           THEN gaveUp' = gaveUp \cup {item[h]} /\ Goto(h, "g_gone")
           ELSE UNCHANGED gaveUp /\ Goto(h, "g_unlock")
     \/ CanFail("refused") /\ Goto(h, "g_unlock") /\ UNCHANGED <<entry, gaveUp>>
  /\ UNCHANGED <<receiptOf, bodies, queue, fillLock, paged, rid, tries, txScope, accountVars>>

FillUnlock(h) ==
  /\ pc[h] = "g_unlock"
  /\ \/ fillLock' = [fillLock EXCEPT ![item[h]] = None]
     \/ CanFail("refused") /\ UNCHANGED fillLock
  /\ End(h) /\ Forget(h)
  /\ UNCHANGED <<receiptOf, bodies, queue, entry, gaveUp, paged, rid, txScope, accountVars>>

FillStep(h) == FillRead(h) \/ FillDropOrphan(h) \/ FillLock(h) \/ FillClaim(h) \/ FillBody(h)
                 \/ FillDequeue(h) \/ FillBump(h) \/ FillGiveUp(h) \/ FillUnlock(h)
=============================================================================
