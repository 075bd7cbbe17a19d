-------------------------- MODULE WalletLifecycle ---------------------------
(***************************************************************************)
(* Creating, archiving, restoring and renaming wallets, and the cron that  *)
(* destroys archived ones.  Only creation takes the create lock; archiving *)
(* and restoring Main pull its rule along.                                 *)
(*                                                                         *)
(*   d_read d_write d_rule   DELETE: archive       (then u_put, u_queue)   *)
(*   e_read e_write e_rule   restore               (then u_put, u_queue)   *)
(*   l_read l_write          change limits or label, agent id              *)
(*   n_lock n_cap n_new n_list n_add n_unlock      create                  *)
(*   g_read g_rule g_rem g_record g_list g_drop      the cron      *)
(***************************************************************************)
EXTENDS RecurringCron

LifecycleKeeps == <<clock, lane, budgetVars, sendVars, ruleVars, onDay, lapsed>>

\* Archiving stamps deletedAt anew.
PutWallet(h, l, state, next) ==
  /\ pc[h] = l
  /\ \/ /\ wallet' = [wallet EXCEPT ![item[h]] = state]
        /\ expired' = IF l = "d_write" THEN expired \ {item[h]} ELSE expired
        /\ IF next = "done" THEN End(h) ELSE Goto(h, next)
     \/ CanFail("kv_write") /\ End(h) /\ UNCHANGED <<wallet, expired>>
  /\ UNCHANGED <<list, createLock, LifecycleKeeps>>

-----------------------------------------------------------------------------
\* Mutant: the lock is taken by whoever writes it last.
CreateUnlocked(h) == /\ pc[h] = "n_lock" /\ createLock' = h /\ Goto(h, "n_cap")
                     /\ UNCHANGED <<wallet, expired, list, LifecycleKeeps>>
\* Mutant: whatever is archived is destroyed.
GcAtOnce(h) ==
  /\ pc[h] = "g_read" /\ UNCHANGED storeVars
  /\ IF wallet[item[h]] = "archived" THEN Goto(h, "g_rule") ELSE End(h)
-----------------------------------------------------------------------------
(* Archive and restore.  The escrow check of the archive route is external. *)

ArchiveStart(h) == Begin(h, "archive", "d_read", Main) /\ UNCHANGED storeVars

ArchiveRead(h) ==
  /\ pc[h] = "d_read"
  /\ \/ Usable(Main) /\ Goto(h, "d_write")
     \/ (~Usable(Main) \/ CanFail("kv_read")) /\ End(h)
  /\ UNCHANGED storeVars

\* pauseRulesForArchive; failing is logged and leaves the rule queued.
ArchiveRule(h) ==
  /\ pc[h] = "d_rule"
  /\ \/ /\ RuleIs("active")
        /\ WriteBack(h, [rule EXCEPT !.status = "paused-by-archive", !.pending = FALSE])
     \/ (~RuleIs("active") \/ CanFail("kv_read")) /\ End(h)
  /\ UNCHANGED storeVars

RestoreStart(h) == Begin(h, "restore", "e_read", Main) /\ UNCHANGED storeVars

RestoreRead(h) ==
  /\ pc[h] = "e_read"
  /\ \/ Main \in list \ expired /\ wallet[Main] = "archived" /\ Goto(h, "e_write")
     \/ (Main \notin list \ expired \/ wallet[Main] # "archived" \/ CanFail("kv_read")) /\ End(h)
  /\ UNCHANGED storeVars

\* resumeRulesForRestore
RestoreRule(h) ==
  /\ pc[h] = "e_rule"
  /\ \/ /\ RuleIs("paused-by-archive")
        /\ WriteBack(h, [rule EXCEPT !.status = "active", !.pending = FALSE, !.next = FirstFire])
     \/ (~RuleIs("paused-by-archive") \/ CanFail("kv_read")) /\ End(h)
  /\ UNCHANGED storeVars

\* The grace window of seven days is over, and with it every invocation that
\* saw the wallet in use.
GraceEnds(w) ==
  /\ wallet[w] = "archived" /\ w \notin expired /\ expired' = expired \cup {w}
  /\ \A h \in Handlers : Running(h) => \/ pc[h] \in {"e_read", "e_write", "l_read", "g_read"}
                                       \/ pc[h] = "l_write" /\ seen[h] = "archived"
  /\ UNCHANGED <<wallet, list, createLock, LifecycleKeeps>>

-----------------------------------------------------------------------------
(* updateAgenticWalletLimits and setErc8004AgentId write the record back as *)
(* it was read, archived or not.                                            *)

LimitsStart(h) == (\E w \in list : Begin(h, "limits", "l_read", w)) /\ UNCHANGED storeVars

LimitsRead(h) ==
  /\ pc[h] = "l_read"
  /\ \/ item[h] \in list /\ wallet[item[h]] # "none" /\ Take(h, "l_write", wallet[item[h]])
     \/ (item[h] \notin list \/ wallet[item[h]] = "none" \/ CanFail("kv_read")) /\ End(h)
  /\ UNCHANGED storeVars

-----------------------------------------------------------------------------
(* Create *)

\* createRandom: an address nobody has seen.
CreateStart(h) ==
  /\ \E w \in Wallets \ list : /\ wallet[w] = "none" /\ \A g \in Handlers : item[g] # w
                               /\ Begin(h, "create", "n_lock", w)
  /\ UNCHANGED storeVars

CreateLock(h) ==
  /\ pc[h] = "n_lock"
  /\ \/ createLock = None /\ createLock' = h /\ Goto(h, "n_cap")
     \/ (createLock # None \/ CanFail("kv_write")) /\ End(h) /\ UNCHANGED createLock
  /\ UNCHANGED <<wallet, expired, list, LifecycleKeeps>>

\* Archived wallets count until they are destroyed.
CreateCap(h) ==
  /\ pc[h] = "n_cap"
  /\ Goto(h, IF Cardinality({w \in list : wallet[w] # "none"}) < Cap THEN "n_new" ELSE "n_unlock")
       \/ (CanFail("kv_read") /\ Goto(h, "n_unlock"))
  /\ UNCHANGED storeVars

CreateRecord(h) ==
  /\ pc[h] = "n_new"
  /\ \/ wallet' = [wallet EXCEPT ![item[h]] = "active"] /\ Goto(h, "n_list")
     \/ CanFail("kv_write") /\ Goto(h, "n_unlock") /\ UNCHANGED wallet
  /\ UNCHANGED <<expired, list, createLock, LifecycleKeeps>>

CreateReadList(h) ==
  /\ pc[h] = "n_list"
  /\ Take(h, "n_add", list) \/ (CanFail("kv_read") /\ Goto(h, "n_unlock"))
  /\ UNCHANGED storeVars

CreateAppend(h) ==
  /\ pc[h] = "n_add" /\ Goto(h, "n_unlock")
  /\ list' = seen[h] \cup {item[h]} \/ (CanFail("kv_write") /\ UNCHANGED list)
  /\ UNCHANGED <<wallet, expired, createLock, LifecycleKeeps>>

\* DEL without a token.
CreateUnlock(h) ==
  /\ pc[h] = "n_unlock" /\ End(h)
  /\ createLock' = None \/ (CanFail("kv_write") /\ UNCHANGED createLock)
  /\ UNCHANGED <<wallet, expired, list, LifecycleKeeps>>

-----------------------------------------------------------------------------
(* The cron.  Balances, yield and escrows, which it checks after reading the *)
(* record, are external: any of them may hold the wallet.                    *)

GcLabels == {"g_read", "g_rule", "g_rem", "g_record", "g_swept", "g_list", "g_drop"}

\* A scan of the records, one after the other, once a day.
GcStart(h) ==
  /\ \A g \in Handlers : pc[g] \notin GcLabels
  /\ \E w \in Wallets : wallet[w] # "none" /\ Begin(h, "gc", "g_read", w)
  /\ UNCHANGED storeVars

GcRead(h) ==
  /\ pc[h] = "g_read"
  /\ \/ wallet[item[h]] = "archived" /\ item[h] \in expired /\ Goto(h, "g_rule")
     \/ End(h)
  /\ UNCHANGED storeVars

\* The cascade; failing is logged, and the record is destroyed all the same.
GcRule(h) ==
  /\ pc[h] = "g_rule"
  /\ \/ item[h] = Main /\ rule' = None /\ Goto(h, "g_rem")
     \/ (item[h] # Main \/ CanFail("kv_write")) /\ Goto(h, "g_record") /\ UNCHANGED rule
  /\ UNCHANGED <<clock, walletVars, lane, budgetVars, sendVars, zset, fireLock, fired, paid, onDay, lapsed>>

GcRemove(h) == pc[h] = "g_rem" /\ Goto(h, "g_record") /\ Queue(h, None)

\* deleteDerivedWalletKv sweeps the day's counter and the lease, too.
GcDerived(h) ==
  /\ pc[h] = "g_swept" /\ Goto(h, "g_list")
  /\ IF item[h] = Main
     THEN /\ lane' = None
          /\ spent' = [spent EXCEPT ![clock] = 0]
          /\ slack' = [slack EXCEPT ![clock] = @ + (IF spent[clock] > 0 THEN spent[clock] ELSE 0)]
     ELSE UNCHANGED <<lane, budgetVars>>
  /\ UNCHANGED <<clock, walletVars, sendVars, ruleVars, onDay, lapsed>>

GcReadList(h) ==
  /\ pc[h] = "g_list"
  /\ Take(h, "g_drop", list) \/ (CanFail("kv_read") /\ End(h))
  /\ UNCHANGED storeVars

GcDrop(h) ==
  /\ pc[h] = "g_drop" /\ End(h)
  /\ list' = seen[h] \ {item[h]} \/ (CanFail("kv_write") /\ UNCHANGED list)
  /\ UNCHANGED <<wallet, expired, createLock, LifecycleKeeps>>

LifecycleStep(h) ==
  \/ ArchiveRead(h) \/ PutWallet(h, "d_write", "archived", "d_rule") \/ ArchiveRule(h)
  \/ RestoreRead(h) \/ PutWallet(h, "e_write", "active", "e_rule") \/ RestoreRule(h)
  \/ LimitsRead(h) \/ PutWallet(h, "l_write", seen[h], "done")
  \/ CreateLock(h) \/ CreateCap(h) \/ CreateRecord(h) \/ CreateReadList(h)
  \/ CreateAppend(h) \/ CreateUnlock(h)
  \/ GcRead(h) \/ GcRule(h) \/ GcRemove(h) \/ PutWallet(h, "g_record", "none", "g_swept")
  \/ GcDerived(h) \/ GcReadList(h) \/ GcDrop(h)
=============================================================================
