--------------------------- MODULE RecurringRules ---------------------------
(***************************************************************************)
(* The recurring rule of Main and the requests that change it: the owner   *)
(* pauses, resumes, skips or cancels it.  Every writer reads the record,   *)
(* and writes it back whole; then it moves the rule in the queue of the    *)
(* cron, a sorted set that is a key of its own.                            *)
(*                                                                         *)
(*   u_read   read the record, decide                                      *)
(*   u_lease  cancel only: take the fire lock of the slot                  *)
(*   u_put    write the record     u_queue  move it in the queue           *)
(***************************************************************************)
EXTENDS AgentSend

\* Also where a write back begins that archive and restore decided on.
WriteBack(h, r) == Take(h, "u_put", r)

\* Mutant: the window is added twice.
FirstFireLate == clock + 2 * Window + 1
\* computeFirstFireAt: a whole cancel window from now at least.
FirstFire == clock + Window + 1

\* skipStaleSlot, recordRuleFired: the next slot after both.
NextFire(s, now) == (IF now > s THEN now ELSE s) + 1

RuleIs(status) == rule # None /\ rule.status = status

\* What applyUserStatusAction makes of the record r; resume rolls a slot
\* forward that is closer than a cancel window.
AfterAction(r, a) ==
  CASE a = "pause" -> [r EXCEPT !.status = "paused", !.pending = FALSE]
    [] a = "resume" -> [r EXCEPT !.status = "active", !.pending = FALSE,
                                 !.next = IF @ < clock + Window THEN FirstFire ELSE @]
    [] a = "skip" -> [r EXCEPT !.next = @ + 1, !.pending = FALSE]
    [] a = "cancel" -> [r EXCEPT !.status = "cancelled", !.pending = FALSE]

Allowed(a) ==
  /\ rule # None /\ rule.status # "cancelled"
  /\ a = "resume" => rule.status \in {"paused", "paused-by-archive", "fired-cap-exceeded"}
  /\ a = "skip" => RuleIs("active") /\ rule.next + 1 \in Slots

-----------------------------------------------------------------------------

UserStart(h) == /\ \E a \in {"pause", "resume", "skip", "cancel"} : Begin(h, a, "u_read", a)
                /\ UNCHANGED storeVars

UserRead(h) ==
  /\ pc[h] = "u_read"
  /\ \/ /\ Allowed(item[h])
        /\ IF item[h] = "cancel" THEN Take(h, "u_lease", AfterAction(rule, item[h]))
           ELSE WriteBack(h, AfterAction(rule, item[h]))
     \/ ~Allowed(item[h]) /\ End(h)
     \/ CanFail("kv_read") /\ End(h)
  /\ UNCHANGED storeVars

\* SET NX, best effort: a tick that has not claimed the slot yet is kept out.
UserLease(h) ==
  /\ pc[h] = "u_lease" /\ Goto(h, "u_put")
  /\ LET s == seen[h].next IN
       \/ fireLock[s] = None /\ fireLock' = [fireLock EXCEPT ![s] = h]
       \/ (fireLock[s] # None \/ CanFail("kv_write")) /\ UNCHANGED fireLock
  /\ UNCHANGED <<clock, walletVars, lane, budgetVars, sendVars, rule, zset, fired, paid, onDay, lapsed>>

PutRule(h, l, next) ==
  /\ pc[h] = l
  /\ \/ rule' = seen[h] /\ Goto(h, next)
     \/ CanFail("kv_write") /\ End(h) /\ UNCHANGED rule
  /\ UNCHANGED <<clock, walletVars, lane, budgetVars, sendVars, zset, fireLock, fired, paid, onDay, lapsed>>

\* ZADD with the score, or ZREM when it is None.
Queue(h, score) ==
  /\ zset' = score \/ (CanFail("kv_write") /\ UNCHANGED zset)
  /\ UNCHANGED <<clock, walletVars, lane, budgetVars, sendVars, rule, fireLock, fired, paid, onDay, lapsed>>

UserQueue(h) ==
  /\ pc[h] = "u_queue" /\ End(h)
  /\ Queue(h, IF seen[h].status \in {"cancelled", "paused", "paused-by-archive"} THEN None
              ELSE NextAction(seen[h]))

UserStep(h) == UserRead(h) \/ UserLease(h) \/ PutRule(h, "u_put", "u_queue") \/ UserQueue(h)
=============================================================================
