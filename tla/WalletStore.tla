---------------------------- MODULE WalletStore ----------------------------
(***************************************************************************)
(* The records the key-value store keeps of the Agent Wallets of one       *)
(* owner, and the operations agentic-wallet.ts offers on them: the wallet  *)
(* list, the lease on a wallet and chain, and the daily spend counter.     *)
(* All payments are made from the wallet Main, on one chain; a payment     *)
(* moves one unit.  Main has one recurring rule at most.                   *)
(*                                                                         *)
(* Time is counted in periods of the rule, which are days: the clock names *)
(* both the day of the spend counter and the slot that is due.             *)
(***************************************************************************)
EXTENDS Integers, FiniteSets

CONSTANTS
  Handlers,   \* requests and cron invocations
  Wallets,    \* addresses of wallets, existing or to be generated
  Main,       \* the wallet that pays
  Intents,    \* payments a client may ask for: recipient, token and amount
  Keyed,      \* those it sends with an idempotency key of their own
  None,       \* an absent record or value
  Limit,      \* dailyLimitUsd
  Rows,       \* recipients of the rule
  Window,     \* the rule's cancel window, 0 or 1 periods
  Cap,        \* wallets per owner
  MaxClock,   \* the last period
  Jobs,       \* the routes requests may run
  Faults      \* what the environment may do, out of FaultKinds

(***************************************************************************)
(* kv_read   a read of the store throws                                    *)
(* kv_write  a write throws and is not applied                             *)
(* marker    the write of the settled marker, or of the fired marker fails *)
(* lost      the call of the relay throws, whatever the relay did          *)
(* lied      the relay answers with an error although it settled           *)
(* crash     the platform kills an invocation between two awaits           *)
(***************************************************************************)
FaultKinds == {"kv_read", "kv_write", "marker", "lost", "lied", "crash"}

ASSUME WalletAssumption ==
  /\ Main \in Wallets /\ Keyed \subseteq Intents
  /\ Limit \in Nat /\ Rows \in Nat \ {0} /\ Rows <= Limit
  /\ Window \in {0, 1} /\ Cap \in Nat \ {0} /\ MaxClock \in Nat \ {0}
  /\ Faults \subseteq FaultKinds
  /\ None \notin Handlers \cup Wallets \cup Intents \cup Nat /\ Intents \cap Nat = {}

Days == 0..MaxClock
Slots == 1..(MaxClock + 2)
Statuses == {"active", "paused", "paused-by-archive", "cancelled", "fired-cap-exceeded"}
Rule == [status : Statuses, next : Slots, pending : BOOLEAN]

VARIABLES
  clock,       \* the period
  wallet,      \* aw:{owner}:{wallet}: "none", "active" or "archived"
  expired,     \* wallets whose grace window is over
  list,        \* aw:list:{owner}
  createLock,  \* aw:create-lock:{owner}
  lane,        \* aw:wc-lock:{Main}:{chain}
  spent,       \* aw:daily-spend-c:{owner}:{Main}:{day}
  claim,       \* aw:send:{fingerprint}: the request that wrote it
  settled,     \* aw:send:settled:{owner}:{Main}:idem:{key}
  rule,        \* aw:recurring:{owner}:{Main}:{rule}
  zset,        \* the rule's score in aw:recurring:next-action
  fireLock,    \* aw:recurring:fire-lock:{rule}:{slot}
  fired,       \* aw:recurring:fired:{rule}:{slot}
  sent,        \* settlements of an intent
  paid,        \* paid[s][i]: settlements of row i for slot s
  onDay,       \* settlements that were charged to a day
  slack,       \* refunds a day's counter took that no unspent charge of the day backs
  lapsed       \* slots and intents a settlement of which nobody recorded

sendVars == <<claim, settled, sent>>
ruleVars == <<rule, zset, fireLock, fired, paid>>
budgetVars == <<spent, slack>>
walletVars == <<wallet, expired, list, createLock>>
chainVars == <<sent, paid, onDay>>
storeVars == <<clock, walletVars, lane, budgetVars, sendVars, ruleVars, onDay, lapsed>>

WalletStoreTypeOK ==
  /\ clock \in Days
  /\ wallet \in [Wallets -> {"none", "active", "archived"}]
  /\ expired \in SUBSET Wallets /\ list \in SUBSET Wallets
  /\ createLock \in Handlers \cup {None} /\ lane \in Handlers \cup {None}
  /\ spent \in [Days -> Int] /\ slack \in [Days -> Nat] /\ onDay \in [Days -> Nat]
  /\ claim \in [Intents -> Handlers \cup {None}] /\ settled \in SUBSET Keyed
  /\ sent \in [Intents -> Nat]
  /\ rule \in Rule \cup {None} /\ zset \in Nat \cup {None}
  /\ fireLock \in [Slots -> Handlers \cup {None}] /\ fired \in SUBSET Slots
  /\ paid \in [Slots -> [1..Rows -> Nat]]
  /\ lapsed \in SUBSET (Slots \cup Intents)

\* computeNextActionAt: the alert comes a cancel window before the fire.
NextAction(r) == IF r.pending THEN r.next ELSE r.next - Window

\* Main exists, with a rule that was announced and is due.
StoreInit ==
  /\ clock = 1
  /\ wallet = [w \in Wallets |-> IF w = Main THEN "active" ELSE "none"]
  /\ expired = {} /\ list = {Main} /\ createLock = None
  /\ lane = None
  /\ spent = [d \in Days |-> 0] /\ slack = [d \in Days |-> 0] /\ onDay = [d \in Days |-> 0]
  /\ claim = [i \in Intents |-> None] /\ settled = {} /\ sent = [i \in Intents |-> 0]
  /\ rule = [status |-> "active", next |-> 1, pending |-> TRUE]
  /\ zset = NextAction(rule)
  /\ fireLock = [s \in Slots |-> None] /\ fired = {}
  /\ paid = [s \in Slots |-> [i \in 1..Rows |-> 0]]
  /\ lapsed = {}

CanFail(kind) == kind \in Faults

-----------------------------------------------------------------------------
(* Wallets *)

\* getActiveAgenticWallet: in the list, with a record that is not archived.
Usable(w) == w \in list /\ wallet[w] = "active"

\* acquireWalletChainLock and releaseWalletChainLock: the token of a lease is
\* the handler that took it.
TakeLane(h) == lane = None /\ lane' = h
\* Mutant: DEL without comparing the token.
DropLane(h) == lane' = None
ReleaseLane(h) == lane' = IF lane = h THEN None ELSE lane

-----------------------------------------------------------------------------
(* The daily counter.  A charge is taken back when it exceeds the limit; the  *)
(* INCRBY of a refund goes to the counter of the day it runs on.              *)

\* Mutant: the answer of the INCRBY is not looked at.
ChargePast(n) == spent' = [spent EXCEPT ![clock] = @ + n] /\ UNCHANGED slack
Charge(n) == /\ spent[clock] + n <= Limit
             /\ spent' = [spent EXCEPT ![clock] = @ + n] /\ UNCHANGED slack

\* Denied: over the limit, where the INCRBY back may fail, or unreachable.
RejectCharge(n) ==
  /\ \/ spent[clock] + n > Limit /\ UNCHANGED spent
     \/ /\ spent[clock] + n > Limit /\ CanFail("kv_write")
        /\ spent' = [spent EXCEPT ![clock] = @ + n]
     \/ CanFail("kv_write") /\ UNCHANGED spent
  /\ UNCHANGED slack

\* n units are given back of a charge of the day given, of which unpaid are
\* still with the owner.  Failing is ignored.
Refund(n, day, unpaid) ==
  \/ /\ spent' = [spent EXCEPT ![clock] = @ - n]
     /\ slack' = [slack EXCEPT ![clock] = @ + (IF day = clock THEN n - unpaid ELSE n)]
  \/ CanFail("kv_write") /\ UNCHANGED budgetVars
=============================================================================
