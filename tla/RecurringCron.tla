--------------------------- MODULE RecurringCron ----------------------------
(***************************************************************************)
(* GET /api/cron/recurring-payouts: a tick pulls the rule when its score   *)
(* is due, announces the fire a cancel window ahead, and at the slot pays  *)
(* the recipients one by one through the relay.                            *)
(*                                                                         *)
(*   t_rule    stale slot, alert or fire; read the wallet                  *)
(*   t_charge  reserve the whole amount      t_marker look for a marker    *)
(*   t_claim   SET NX the fire lock          t_fresh  read the rule again  *)
(*   t_lane    take the lease                t_last   read the rule again  *)
(*   t_row     pay one recipient                                           *)
(*   t_doubt   nothing known to be paid, the last answer lost              *)
(*   t_fired   refund what is unpaid         t_mark   write the marker     *)
(*   t_read    read the rule a last time                                   *)
(*   t_free, t_undo   give the fire lock back                              *)
(*   t_back, t_unpay, t_lapsed, t_again   refund; then stop, retry, stop   *)
(*                    for good, or store that the slot is over             *)
(*   t_put, t_add     write the record, add it to the queue                *)
(*   t_retry, t_soon  the same after a failure, due at once                *)
(*   t_stop, t_rem    the same for a rule that may not fire any more       *)
(***************************************************************************)
EXTENDS RecurringRules

Stale(h) == at[h] > seen[h].next
Slot(h) == seen[h].next
\* How a tick stores that the slot is over.
Advanced(r, h) == [r EXCEPT !.pending = FALSE, !.next = NextFire(Slot(h), at[h])]
StillDue(h) == RuleIs("active") /\ rule.next = Slot(h)

FreeSlot(h) == fireLock' = [fireLock EXCEPT ![Slot(h)] = None]

-----------------------------------------------------------------------------
\* Mutant: only the lock keeps a slot from firing again.
MarkerUnread(h) == pc[h] = "t_marker" /\ Goto(h, "t_claim") /\ UNCHANGED storeVars
-----------------------------------------------------------------------------

\* pullDueRules drops a member without a record.
TickStart(h) ==
  /\ zset # None /\ zset <= clock
  /\ Begin(h, "tick", IF rule = None THEN "t_rem" ELSE "t_pull", None)
  /\ UNCHANGED storeVars

TickPull(h) ==
  /\ pc[h] = "t_pull"
  /\ \/ rule # None /\ Take(h, "t_rule", rule)
     \/ rule = None /\ Goto(h, "t_rem")
     \/ CanFail("kv_read") /\ End(h)
  /\ UNCHANGED storeVars

\* A rule above a limit, or that a hook blocks, is stopped for good.
TickRule(h) ==
  /\ pc[h] = "t_rule"
  /\ \/ /\ Stale(h) /\ at[h] + 1 \in Slots
        /\ Take(h, "t_put", [seen[h] EXCEPT !.pending = FALSE, !.next = at[h] + 1])
     \/ /\ ~Stale(h) /\ ~seen[h].pending /\ Window > 0 /\ Usable(Main)
        /\ Take(h, "t_put", [seen[h] EXCEPT !.pending = TRUE])
     \/ /\ ~Stale(h) /\ (seen[h].pending \/ Window = 0) /\ Usable(Main)
        /\ \/ Goto(h, "t_charge")
           \/ Take(h, "t_stop", [seen[h] EXCEPT !.pending = FALSE, !.status = "fired-cap-exceeded"])
     \/ ~Stale(h) /\ ~Usable(Main) /\ Goto(h, "t_rem")
     \/ CanFail("kv_read") /\ End(h)
  /\ UNCHANGED storeVars

TickCharge(h) ==
  /\ pc[h] = "t_charge"
  /\ \/ /\ Charge(Rows) /\ pc' = [pc EXCEPT ![h] = "t_marker"]
        /\ pay' = [pay EXCEPT ![h].day = clock] /\ UNCHANGED <<seen, item, at>>
     \/ RejectCharge(Rows) /\ Goto(h, "t_retry")
  /\ UNCHANGED <<clock, walletVars, lane, sendVars, ruleVars, onDay, lapsed>>

\* Before it the plan and the key of the owner are looked up.
TickMarker(h) ==
  /\ pc[h] = "t_marker"
  /\ \/ Goto(h, IF Slot(h) \in fired THEN "t_again" ELSE "t_claim")
     \/ Goto(h, "t_lapsed")
     \/ CanFail("kv_read") /\ End(h)
  /\ UNCHANGED storeVars

TickClaim(h) ==
  /\ pc[h] = "t_claim"
  /\ \/ /\ fireLock[Slot(h)] = None
        /\ fireLock' = [fireLock EXCEPT ![Slot(h)] = h] /\ Goto(h, "t_fresh")
     \/ fireLock[Slot(h)] # None /\ Goto(h, "t_back") /\ UNCHANGED fireLock
     \/ CanFail("kv_write") /\ End(h) /\ UNCHANGED fireLock
  /\ UNCHANGED <<clock, walletVars, lane, budgetVars, sendVars, rule, zset, fired, paid, onDay, lapsed>>

TickFresh(h) ==
  /\ pc[h] = "t_fresh"
  /\ \/ Goto(h, IF StillDue(h) THEN "t_lane" ELSE "t_free")
     \/ CanFail("kv_read") /\ End(h)
  /\ UNCHANGED storeVars

TickLane(h) ==
  /\ pc[h] = "t_lane"
  /\ \/ TakeLane(h) /\ Goto(h, "t_last")
     \/ lane # None /\ Goto(h, "t_undo") /\ UNCHANGED lane
     \/ CanFail("kv_write") /\ End(h) /\ UNCHANGED lane
  /\ UNCHANGED <<clock, walletVars, budgetVars, sendVars, ruleVars, onDay, lapsed>>

\* This return forgets the lease, which runs out by itself.
TickLast(h) ==
  /\ pc[h] = "t_last"
  /\ \/ Goto(h, IF StillDue(h) THEN "t_row" ELSE "t_free")
     \/ CanFail("kv_read") /\ End(h)
  /\ UNCHANGED storeVars

\* Without a row known to be settled a refusal ends the fire and is retried,
\* a lost answer ends it in doubt; after one, a row that fails is left out.
TickRow(h) ==
  /\ pc[h] = "t_row" /\ pay[h].row < Rows
  /\ \E a \in Answers :
       LET none == pay[h].ok = 0 /\ a.says # "yes" IN
       /\ Tally(h, a)
       /\ pc' = [pc EXCEPT ![h] = IF none /\ a.says = "no" THEN "t_undo"
                                  ELSE IF none THEN "t_doubt"
                                  ELSE IF pay[h].row + 1 = Rows THEN "t_fired" ELSE "t_row"]
       /\ IF a.settles
          THEN paid' = [paid EXCEPT ![Slot(h)][pay[h].row + 1] = @ + 1] /\ Settle(h)
          ELSE UNCHANGED <<paid, onDay>>
       /\ IF a.settles /\ none /\ a.says = "no" THEN Lapse(Slot(h)) ELSE UNCHANGED lapsed
  /\ UNCHANGED <<seen, item, at, clock, walletVars, lane, budgetVars, sendVars, rule, zset, fireLock, fired>>

\* DEL of the fire lock, by whoever aborts before anything was paid.
TickFree(h, l, next) ==
  /\ pc[h] = l
  /\ \/ FreeSlot(h) /\ Goto(h, next)
     \/ CanFail("kv_write") /\ End(h) /\ UNCHANGED fireLock
  /\ UNCHANGED <<clock, walletVars, lane, budgetVars, sendVars, rule, zset, fired, paid, onDay, lapsed>>

RefundAll(h) == Refund(Rows, pay[h].day, Rows - pay[h].won)
RefundKeeps == <<clock, walletVars, lane, sendVars, ruleVars, onDay, lapsed>>

TickRefund(h) ==
  /\ \/ pc[h] = "t_back" /\ End(h)
     \/ pc[h] = "t_unpay" /\ Goto(h, "t_retry")
     \/ pc[h] = "t_lapsed" /\ Take(h, "t_stop", [seen[h] EXCEPT !.pending = FALSE, !.status = "fired-cap-exceeded"])
     \/ pc[h] = "t_again" /\ Advanced(seen[h], h).next \in Slots /\ Take(h, "t_put", Advanced(seen[h], h))
  /\ RefundAll(h) /\ UNCHANGED RefundKeeps

TickFired(h) ==
  /\ pc[h] = "t_fired" /\ Goto(h, "t_mark")
  /\ IF pay[h].ok = Rows THEN UNCHANGED budgetVars
     ELSE Refund(Rows - pay[h].ok, pay[h].day, Rows - pay[h].won)
  /\ UNCHANGED RefundKeeps

\* markSlotFired, as confirmed or as uncertain.
TickMark(h, l, next) ==
  /\ pc[h] = l
  /\ \/ fired' = fired \cup {Slot(h)} /\ Goto(h, next) /\ UNCHANGED lapsed
     \/ /\ CanFail("marker") /\ End(h) /\ UNCHANGED fired
        /\ IF pay[h].won > 0 THEN Lapse(Slot(h)) ELSE UNCHANGED lapsed
  /\ UNCHANGED <<clock, walletVars, lane, budgetVars, sendVars, rule, zset, fireLock, paid, onDay>>

\* recordRuleFired merges into the record as it is now; a rule that is not
\* active any more keeps its slot and stays out of the queue.
TickRead(h) ==
  /\ pc[h] = "t_read"
  /\ \/ rule = None /\ Goto(h, "t_unlane")
     \/ /\ RuleIs("active") /\ Advanced(seen[h], h).next \in Slots
        /\ Take(h, "t_put", [rule EXCEPT !.pending = FALSE, !.next = Advanced(seen[h], h).next])
     \/ rule # None /\ rule.status # "active" /\ Take(h, "t_keep", [rule EXCEPT !.pending = FALSE])
     \/ CanFail("kv_read") /\ End(h)
  /\ UNCHANGED storeVars

TickAdd(h) ==
  /\ \/ pc[h] = "t_add" /\ Queue(h, NextAction(seen[h])) /\ Goto(h, "t_unlane")
     \/ pc[h] = "t_soon" /\ Queue(h, at[h]) /\ Goto(h, "t_unlane")
     \/ pc[h] = "t_rem" /\ Queue(h, None) /\ End(h)

TickStep(h) ==
  \/ TickPull(h) \/ TickRule(h) \/ TickCharge(h) \/ TickMarker(h) \/ TickClaim(h)
  \/ TickFresh(h) \/ TickLane(h) \/ TickLast(h) \/ TickRow(h)
  \/ TickFree(h, "t_free", "t_back") \/ TickFree(h, "t_undo", "t_unpay") \/ TickRefund(h)
  \/ TickFired(h) \/ TickMark(h, "t_mark", "t_read") \/ TickMark(h, "t_doubt", "t_retry") \/ TickRead(h)
  \/ PutRule(h, "t_put", "t_add") \/ PutRule(h, "t_retry", "t_soon")
  \/ PutRule(h, "t_stop", "t_rem") \/ PutRule(h, "t_keep", "t_unlane") \/ TickAdd(h)
  \/ Unlane(h, "t_unlane")
=============================================================================
