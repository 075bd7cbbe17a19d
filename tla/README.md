# Q402-Institutional: a TLA+ verification of the payment core

Q402 is a gasless stablecoin payment service. Users sign, a relayer hot wallet
broadcasts, and what the relayer spends is charged to a credit pool, a daily
budget or the user's *Gas Tank*. The server is a set of Next.js route handlers
and crons on a serverless platform; everything they remember is in one
Redis-like store (Vercel KV), and everything they do for real is a transaction on
a chain. No two handlers share memory. All the hard behaviour comes from handlers
interleaving at every `await`, from store and RPC calls that fail after they took
effect, from invocations killed at `maxDuration`, from whole-record
read-modify-writes without a lock, and from records with a TTL.

## 1. Inventory

Paths are under `src/app/`. The first column names the family of modules.

| | component | state it keeps | operations | hard behaviour |
|---|---|---|---|---|
| bridge | CCIP runner (`lib/ccip-bridge-runner.ts`) | idempotency record, lane lock, no-TTL settled marker | `runCCIPBridge` | retries of one intent, two intents on one lane, lost replies, crashes |
| bridge | bridge ledger (`lib/db.ts` 1490-2080) | debit claims, usage buckets, pending-fund slot, orphan, fee and clear rows, reconcile lease | claim-and-debit script, set/clear of each row | a debit reached by four writers, TTLs of different lengths |
| bridge | reconcile cron (`api/cron/ccip-pending-fund-reconcile`) | none of its own | four passes over the rows | overlapping ticks, races with requests, killed after 30 s |
| bridge | clear-delegation route | clear lock, clear rows | sponsored type-4 transaction, debit | tokenless lock, debit after broadcast |
| accounts | scoped credits, key rotation (`lib/db.ts` 205-420, 960-1200) | two credit pools and the pool before the split, key records, `sub:{addr}` | seed, add, decrement-or-reject, refund, rotate, provision, top-up | stale write-backs of the whole record, seeding races |
| accounts | relay route (`api/relay/route.ts`) | the credit taken, the settlement | admission, take, settle, refund, receipt, mirror | a failed settlement that mined, fire-and-forget writes |
| accounts | payment and trial activation | used markers, claims, grants, intents | verify, claim, grant, credit, commit, catch blocks | one payment presented again and again, partial failure |
| accounts | trust receipts (`lib/receipt.ts`, `lib/receipt-backfill.ts`) | claim by settlement, body, backfill queue and entries | create inline, queue, cron | three writers of one receipt |
| wallets | agentic send (`api/wallet/agentic/send`) | send record, settled marker, daily spend, wallet-chain lease | one payment | uncertain relay answers, roll-back of budgets |
| wallets | recurring payouts (`lib/agentic-wallet-recurring.ts`, its cron) | the rule, the queue of actions, fire locks, fired markers | tick, pause, resume, skip, cancel | firing twice, a stale copy of the rule written back |
| wallets | wallet lifecycle and its GC cron (`lib/agentic-wallet.ts`) | wallet records, list, create lock | create, limits, archive, restore, hard delete | list read-modify-writes, a key destroyed too early |
| commerce | payment requests (`lib/payment-request.ts`) | the request, settled marker, pay lock | pay in two modes, cancel, expire on read | two payers, payer against cancel |
| commerce | escrow (`lib/escrow.ts`, `api/escrow`) | the record, two markers, action lock | lock, dispute, release, refund, resolve | the record against the vault, readers that write back |
| commerce | gas deposits (`lib/db.ts` 500-600) | dedup set, deposit list in two forms | verify, scan | two writers crediting one deposit |
| - | OFT runner, RedStone triggers, yield, hooks, auth, ops crons, front end, contracts | | | section 6 |

The components interact through the store and the relay route:

    bridge route --> runCCIPBridge --+--> claim-and-debit <--+-- clear-delegation route
                        |            |                       |
                        v            v                       v
                pending-fund slot  orphan / fee rows     clear rows
                        ^            ^                       ^
                        +------------+--- reconcile cron ----+

    payment / trial activation --> grants --> credit pools --> relay --> receipt
    rotation, provisioning, top-up, relay --> sub:{addr}         |          ^
                                                                 v          |
                                                          backfill queue -> cron

    send route ----+--> daily spend, wallet-chain lease --> relay (external here)
    payout cron ---+         ^                  ^
    archive, restore, GC --> wallet record --> rule, queue <-- pause, skip, cancel

    pay route --> send route or relay --> settled marker <-- cancel
    escrow route --> vault (external) --> record, markers <-- any reader

What makes them correct: every outlay is charged, and once; nothing unconfirmed
is charged; one intent, slot or request is paid once; a payment is credited
once; one invocation owns a lane at a time; a record follows the chain it
mirrors and never puts funds out of reach; a key outlives its grace window; no
lock is held for good. `PROJECT.json` lists the hazards at their lines.

## 2. Modules

| module | models | code |
|---|---|---|
| `TankLedger` | the promise: a confirmed transaction is charged at most once, an unconfirmed one never | abstract |
| `BridgeStore` | the records of one lane, the operations on them, the observed chain, the fault kinds | `db.ts` |
| `CcipRunner` | one invocation of the runner | `ccip-bridge-runner.ts`, `ccip.ts` |
| `ClearDelegation` | one invocation of the clear route | `clear-delegation/route.ts`, `eip7702.ts` |
| `FundReconcile` | one instance of the cron, its four passes | the cron's `route.ts` |
| `CcipBridge` | all of them together, expiry, `Next`, fairness, properties, refinement | |
| `AccountStore` | the records of one account and the operations on them | `db.ts` |
| `RelayRoute` | one relay; the local state of every handler of the family | `relay/route.ts` |
| `Activation`, `TrialActivation` | the two activation routes | `payment/activate`, `trial/activate` |
| `KeyRoutes` | rotation, provisioning, top-up | `db.ts`, `keys/*` |
| `Receipts` | `createReceipt`, the backfill queue and its cron | `receipt.ts`, `receipt-backfill.ts` |
| `Accounts` | all of them together, expiry, properties | |
| `WalletStore` | the records of one owner's wallets, the clock | `agentic-wallet.ts` |
| `AgentSend` | one send of one recipient | `agentic/send/route.ts` |
| `RecurringRules`, `RecurringCron` | the rule and its writers; one tick | `agentic-wallet-recurring.ts`, `recurring-payouts/route.ts` |
| `WalletLifecycle` | create, limits, archive, restore, GC | `agentic-wallet.ts`, `agentic-wallet-gc` |
| `Wallets` | all of them together, expiry, midnight, properties | |
| `Storefront` | invocations, mixes of jobs, faults of the next three | |
| `PaymentRequests`, `Escrow`, `Deposits` | one component each | `payment-request.ts`, `escrow.ts`, `db.ts` and their routes |
| `Commerce` | the three over one set of invocations | |
| `MC*` | symmetry, and one state constraint, for TLC | |
| `CcipBridgeProofs`, `CcipRecordProofs` | theorems about the bridge family | |
| `AccountsProofs`, `AccountRecordProofs` | theorems about the accounts family | |
| `WalletsProofs`, `WalletRecordProofs` | theorems about the wallets | |
| `RequestProofs`, `CommerceProofs` | theorems about payment requests; about escrows and deposits | |

A step is what the code does between two awaits; `pc[h]` names the await an
invocation is about to return from, and the header of each module lists the
names. What an invocation read earlier is in `seen`, `got` or `item` until the
code no longer uses it, so that every stale read of the code is a stale read of
the model. Where the code retries a store call and gives up in the end, a step has one
outcome for success and one for the failure of all attempts. Awaits that run at
once (`Promise.all`) may arrive in either order, with a step in between.

*Bridge.* One lane is one (owner, source chain) pair. Intents are fingerprints:
two requests with one intent share the idempotency record and the settled
marker. A transaction is a hash out of a finite set, used once, so its key
stands for its amount, and `charged[t]` counts how often it was added to the
bucket. The rows of the three per-transaction kinds are one set `rows`.

*Accounts.* One wallet address. A subscription record keeps what the code
decides on: plan, the two key slots, whether a cash payment was made, whether a
sandbox key is there, and the paid periods. A grant is worth one credit; the pool of before the
split (`legacy`) is seeded into one scope on the first mutation of it, as
`seedFromLegacy` does. `credited` and `added` are history, counting what entered
the pools. Each handler runs one route once.

*Wallets.* One owner; all payments leave from the wallet `Main` and move one
unit. The clock counts periods of the recurring rule, which are days: it names
the day of the spend counter and the slot that is due. `slack`, `lapsed`, `onDay`
and `paid` are history.

*Commerce.* The three components share no record, so a behaviour draws one of
`Mixes` at its start and keeps to it. `unsure[x]` is history: what went wrong
around `x` that no record of the code tells of. `past[e]` holds the states the
vault was in. The `http` answer of another route is an answer that may be lost
(`answer`).

### Faults

`Faults` says what the environment does in a run:

| family | faults |
|---|---|
| bridge | `kv_read`, `kv_write` (a write throws, applied or not), `rpc` (a call throws although the chain did the work), `crash`, `row_ttl` (a one-hour row is swept unprocessed), `cron_outage` (an orphan row stays unprocessed for over a day) |
| accounts | `refused` (a write throws and is not applied), `kv_read`, `rpc` (a settlement is mined although it was reported as failed), `crash` |
| wallets | `kv_read`, `kv_write`, `marker` (the write of a settled or fired marker fails), `lost` (the relay call throws, whatever it did), `lied` (the relay reports an error although it settled), `crash` |
| commerce | `kv_read`, `kv_write` (applied or not), `answer`, `crash` |

### Time

Only the wallets have a clock. Elsewhere a TTL is compared with what the code
compares it with. A lock whose TTL is above the life of an invocation expires only
after its holder ended (the lane lock 90 s, the activation claim 5 min, the
wallet-chain lease, the fire lock); the trial claim and the rotation lock (30 s)
may expire under their holder, the reconcile lease (30 s) under a request but not
under a cron invocation (also 30 s); a `failed`
record (60 s) may expire at any moment; a debit claim (24 h) outlives invocations
and one-hour rows but not an orphan row (365 d), which is the fault
`cron_outage`. The pay lock and the escrow's action lock (120 s) outlive an
invocation (60 s). Midnight (`NextDay`) may fall into an invocation, once.

## 3. Runs

| run | instance | checks |
|---|---|---|
| `bridge_races` | 2 intents, 2 requests, 2 fund and 2 bridge hashes, `kv_write` | `LaneExclusive`, `SuccessIsReal`, `FundAccounted`, `FeeAccounted`, `NoRebridge`, `PendingKept` |
| `cron_races` | 1 intent, 2 requests, 1 cron, `kv_write`, `row_ttl`, `crash`, `rpc` | `TypeOK`, `DebitInv` (the invariant of the proofs), `NoDoubleDebit`, `DebitOnlyConfirmed`, `OrphanKept`, `ImplementsLedger` |
| `clear_rows` | 3 clear requests, 2 hashes, 1 cron, every fault but `cron_outage` | `ClearExclusive`, `NoDoubleDebit` |
| `rows_settle` | 1 request, 1 cron, `kv_write`, fairness | `RowsSettle`, `SlotSettles`, `LaneFrees` |
| `accounts` | 3 handlers over all seven routes, 1 payment, 4 keys, 2 settlements, accounts `new` and `paid`, every fault but `rpc` | `AccountsTypeOK`, `PoolsBacked`, `CreditedOnce`, `KeyInItsSlot`, `OneReceiptPerTx`, `EntryEndsInReceipt` |
| `payouts` | 3 handlers out of send, tick, skip, cancel, archive, restore; 3 days, `marker`, `lost`, `lied` | `WalletsTypeOK`, `SlotPaidOnce`, `KeyPaidOnce`, `CapHeld`, `LaneExclusive` |
| `wallet_keys` | 3 handlers out of create, archive, limits, GC, pause, resume, skip; cap 2, `kv_read`, `kv_write`, `crash` | `CapKept`, `KeyOutlivesGrace` |
| `commerce` | 2 invocations at a time, each one job after another; 1 request, 1 escrow, 2 transfers, every fault | `CommerceTypeOK`, `RequestPaidOnce`, `MirrorTrue`, `FundsReachable`, `SpendFollowsLock`, `RecordedIsFinal` |
| `lost_reply`, `slot_clobbered`, `cancel_undone`, `deposit_twice` | as small as they can be | one violated property each, section 5 |

`CHECK_DEADLOCK FALSE` everywhere: once every invocation is over and no lock is
left there is nothing to do.

**Why the bounds are enough.** Most races are between two invocations over a
record that is compared-and-set, so a third adds no new pair; where a third does
(the one a wrongly deleted lock lets in: rotation, the clear lock, create lock,
fire lock) the run has three. There are as many hashes as invocations can
broadcast in a run that needs the retry, one more key than three handlers can
mint, three days for a refund on another day than its charge and a cancel window
that spans midnight, and two wallets under a cap of two. `MaxAttempts = 2`
instead of 5 leaves one attempt that is retried and one that gives up.
`MaxMoved`, `DailyLocks`, `MaxCredits` and `MaxClock` are bounds in guards: one
more settlement, lock or entry than the properties allow.

**What a run leaves out, and why.** `FundAccounted` and `PendingKept` are checked
without the cron, with which they do not hold (`slot_clobbered`); `NoRebridge`
without failing reads, as the code treats the marker read as best effort;
`FundAccounted` and `FeeAccounted` without `crash`, since an invocation killed
between broadcast and row leaves nothing behind in the code either. `PoolsBacked`
is checked without `rpc`: the code refunds a settlement that is reported as
failed, mined or not. `payouts` is without the GC, which sweeps the lease and
the daily counter of a wallet together with its key. `wallet_keys` is without
restore: one that comes at the very end of the grace window is overtaken by the
GC. It takes four invocations and no fault: the restore has decided, the window
ends, the GC reads an archived wallet that is over, the restore writes it active,
a second archive stamps it anew, and the GC destroys its key. `commerce` does not explore what follows two events that excuse its properties
for good (the constraint `Excused`: a lock without effect that was reported as
mined, and a refund of the daily spend that failed).

### Fairness

Only the bridge family states liveness. Weak fairness of every invocation (Node
resumes it after each await), of the cron (the schedule starts it again and
again), of mining, and of the expiry of the two locks (the store keeps TTLs).
One strong fairness assumption: the cron's debit of a given transaction, if it
is tried for ever, gets through in the end - a script call that fails every time
for ever would defeat any retry. No fairness is assumed of crashes, of the
failure branches or of new requests. The other families have no loop of their
own to be live: their work is done by requests that come or do not, and by crons
over rows whose last attempt may fail.

## 4. Proofs

Every invariant and every action property of the passing runs is proved, for any
sets of invocations, hashes, payments, wallets, requests, escrows and transfers,
and any limits:

| theorem | statement | faults and other hypotheses |
|---|---|---|
| `TypeCorrect` | `Spec => []TypeOK` | all |
| `OnlyConfirmedCharged` | `Spec => []DebitOnlyConfirmed` | all |
| `ChargesRemembered` | `Spec => []DebitInv` | all but `cron_outage` |
| `NeverChargedTwice` | `Spec => []NoDoubleDebit` | all but `cron_outage` |
| `LaneImplementsLedger` | `Spec => ImplementsLedger` | all but `cron_outage` |
| `OneRequestInLane` | `Spec => []LaneExclusive` | all |
| `OneClearInFlight` | `Spec => []ClearExclusive` | all |
| `ToldOnlyOfSuccess` | `Spec => []SuccessIsReal` | all |
| `SettledStaysSettled` | `Spec => NoRebridge` | all but `kv_read` |
| `OrphansKept` | `Spec => OrphanKept` | all but `kv_read` |
| `FeesAccounted` | `Spec => []FeeAccounted` | `kv_write` only |
| `FundsAccounted` | `Spec => []FundAccounted` | `kv_write` only; no cron |
| `SlotKept` | `Spec => PendingKept` | `kv_write` only; no cron |
| `AccountsTypeCorrect` | `AccountsSpec => []AccountsTypeOK` | all |
| `OneReceipt` | `AccountsSpec => []OneReceiptPerTx` | all |
| `QueueRemembers` | `AccountsSpec => EntryEndsInReceipt` | all |
| `GrantsCreditedOnce` | `AccountsSpec => []CreditedOnce` | all; no account that is a trial from before the split |
| `SettlementsBacked` | `AccountsSpec => []PoolsBacked` | all but `rpc`; finitely many invocations |
| `KeysInTheirSlots` | `AccountsSpec => []KeyInItsSlot` | all |
| `WalletsTypeCorrect` | `WalletsSpec => []WalletsTypeOK` | all |
| `SlotsPaidOnce` | `WalletsSpec => []SlotPaidOnce` | all |
| `KeysPaidOnce` | `WalletsSpec => []KeyPaidOnce` | all |
| `OnePaymentInTheLane` | `WalletsSpec => []LaneExclusive` | all; `gc` not among the jobs |
| `SettledWithinLimit` | `WalletsSpec => []CapHeld` | all |
| `KeysOutliveGrace` | `WalletsSpec => KeyOutlivesGrace` | all; `restore` not among the jobs |
| `WalletsWithinCap` | `WalletsSpec => []CapKept` | all; `restore` not among the jobs |
| `CommerceTypes` | `CommerceSpec => []CommerceTypeOK` | all |
| `RequestsPaidOnce` | `CommerceSpec => []RequestPaidOnce` | all |
| `RecordFollowsVault` | `CommerceSpec => []MirrorTrue` | all |
| `FundsStayReachable` | `CommerceSpec => []FundsReachable` | all |
| `SpendsFollowLocks` | `CommerceSpec => []SpendFollowsLock` | all |
| `DepositsStayRecorded` | `CommerceSpec => []RecordedIsFinal` | all |

The assumptions are `StoreAssumption`, `AccountAssumption`, `ReceiptAssumption`,
`WalletAssumption` and `CommerceAssumption`: the sets the constants stand for are
disjoint where the code tells their members apart, `None` is in none of them,
numbers are in their ranges (`MaxCredits`, the bound on the entries of one
deposit, is at least 1). What a theorem needs beyond them is a hypothesis of its own,
as in the table. Every proof has one step per action; what the actions of one
argument leave alone is stated once, by a frame lemma.

### Bridge

`DebitOnlyConfirmed` is not inductive: a debit happens steps after the receipt
was read, and fee rows are debited with no receipt at all. `ConfirmedInv` adds
what each invocation knows of its transaction at each step (`RunnerKnows`,
`ClearerKnows`, `CronKnows`) and that a fee row exists only for a confirmed
bridge (`FeeRowsOwed`); a status, once final, never changes.

`NoDoubleDebit` needs `ChargeRemembered`: a charged transaction either still has
its claim, or nothing that could debit it again refers to it (`NoReference`: no
slot, row, live invocation or cron). The lemmas `*NoReference` show that no
step creates a reference to a confirmed transaction without one - slots and
rows are written only by invocations that hold the hash, and hashes are fresh
when they are broadcast. A debit then either finds the claim and does nothing,
or finds `charged[t] = 0`. `DebitInv` is the conjunction, checked by TLC in
`cron_races`. The same lemmas say that a step charges at most one transaction,
which is the step simulation of `LaneImplementsLedger`.

`LaneInv` and `ClearInv` (whoever is inside holds the lock) carry the two mutual
exclusions: the lane lock has a token and a TTL above `maxDuration`; the clear
lock has no token, yet only its holder ever reaches the delete.

`NoRebridge` needs `SettledInv`: from its claim to its last record an invocation
owns the idempotency record of its intent, which no other one overwrites, and
the intent is not settled until the step that marks it. The delicate case is the
invocation that read the marker before it was set and claims afterwards: it
meets a record that is in use or tells of success. `SuccessIsReal` needs
`BridgedInv`: every step past the receipt, the marker and every record that
tells of success belong to an intent with a confirmed bridge.

`OrphanKept` needs `RowInv`: a debit claim and a pending row delete each imply a
charge. A failed read is the only way to lose such a row, hence its hypothesis.
`FeeAccounted` needs `FeeInv`, which speaks of
pending bridges too: before a bridge is confirmed the invocation that waits for
it is the one that answers for its fee.

`FundAccounted` and `PendingKept` need `FundInv`, which is relative to the lane
lock: without the cron only the request inside the lane touches the slot. At the
steps of `SlotFree`, where the slot may be deleted or overwritten, the transfer
in it is charged or reverted (`SlotSafe`); at the steps of `Handling` it is
that, or the very transfer the request is dealing with (`Tidy`). A transfer that
is broadcast and neither charged nor named by a row, an alert or the slot is
held by a request that is about to write the row (`FundOwed`). The cron breaks
`Tidy`, as it deletes the slot without the lane (section 5), hence the hypothesis.

### Accounts

`Typed` says what each handler holds at each step (`Knows`), which the type
invariant alone leaves open for records that were read earlier.

`OneReceiptPerTx` needs `ReceiptInv`: the claim of a settlement is set once and
never changed, and whoever is about to write a body writes it under that claim.
`EntryEndsInReceipt` needs `QueueInv`: a handler that is about to remove an entry
has seen its receipt, or counted its last attempt.

`CreditedOnce` has two parts. `GrantInv`: a handler that is about to credit a
grant, or to give its marker back, is the only one, and the grant is marked and
not credited. `LegacyInv`: a new account has no old pool; on one that has paid,
every record a handler holds is a customer's, so the old pool goes to the paid
scope, and only while that has no counter. The
second part fails for a trial from before the split (section 5), which is why
the theorem excludes that shape of account. `PoolsBacked` needs `BackedInv`: what is
left in a pool, what was settled from it and the credits that running relays
hold never exceed what was added. The sum counts handlers and settlements, so the
theorem is about finitely many of them; a settlement
that was reported as failed (`rpc`) is refunded and breaks it.

`KeyInItsSlot` needs `SlotInv`: not only the stored record but every copy a
handler holds names keys minted for the slots they are in, since any of them may
be written back last. The one record with a trial key in the paid slot is a
trial of before the split (`OldStyle`); it is there only while the trial is used
and no trial activation is running (`TrialOver`).

### Wallets

`SlotPaidOnce` needs `SlotInv`. From the fire lock to its release a tick holds
the lock of its slot (`FireLocked`). A slot with a payment is `Over` - marked,
with no tick between lock and release on it, and its lock taken while some tick
that had read the marker too early is about to take it - or is being paid by the
one tick that holds it, which pays the rows in order (`PayingRow`), or is
`lapsed`. The delicate step is again the reader of an absent marker: the lock of
an hour outlives the minute an invocation has, so it meets the lock of the payer.
`KeyPaidOnce` has the same argument one level up (`KeyInv`), with the claim of
the send for the fire lock. `LaneExclusive` needs that whoever pays holds the
lease, which is lost with a wallet that is destroyed: the GC sweeps the lease
record with the key.

`CapHeld` needs `BudgetInv`. A unit that an invocation charged to a day and that
is neither settled nor given back is *open*. For each day, what was settled and
what is open is within the limit, and within the counter, both but for `slack`;
the second is what a charge needs, which compares the counter and not the
settlements with the limit. A charge opens as many units as it adds, a
settlement closes one. A refund takes from the counter of the day it falls on,
and what it takes beyond the units it closes there is `slack`. The open
units are a set, so this is an argument about cardinalities, for any number of
sends and ticks.

`KeyOutlivesGrace` needs `GraceInv`: a wallet the GC is about to destroy is
over its grace window and not active, and stays so until it is gone. The
proof is about everyone else: an archive writes only wallets that still count, a
limits write-back of an active record meets a wallet that counts, and a creation
has its address to itself (`Apart`). A restore is the one job that makes such a
wallet active again (section 3); the theorem excludes it. `CapKept` adds
`CapInv`: only the holder of the create lock creates; while it holds it, the
wallets that count (`Alive`) only become fewer - here `GraceInv` is used - and
the list it is about to extend has fewer than `Cap` of them. The list it read
covers the stored one, since meanwhile the list only loses entries.

### Payment requests, escrows and deposits

`RequestPaidOnce` needs `LockInv` (the pay lock is held by one invocation, by
its token) and `PaidInv`: a request that moved funds is written down as paid or
marked, or the lock's holder still has to do so, or one of the events the
property excuses happened; whoever is past the checks under the lock then knows
of no payment.

The three properties of the escrow have one invariant, `EscGood(e)` for each
escrow. `OneHolder`: one invocation is between the action lock and its release.
`Mirror`, for `MirrorTrue`: not only the record and its markers but everything an
invocation, or a reader with an old copy (`escLazy`), is about to write names
a state the vault was in. `Reach`, for `FundsReachable`: as long as nothing went
wrong that no record tells of, a lock that took effect is written down, or marked,
or the holder of the action lock is still on its way to do so, and no reader
holds a copy that would make it expired. `Spend`, for `SpendFollowsLock`: the daily
spend is reserved exactly for a lock that took effect or that the holder stands
behind. `Early` says that nobody has read an escrow as overdue before its
deadline. A step changes one escrow; the lemma `Frame` carries the invariant of
all others over it.

`RecordedIsFinal` needs `DepInv`: a transfer that was reported as recorded is in
the list unless something was lost, so a call that began later finds it there and
turns back before it appends (`Brings`). The three components share the
invocations and nothing else; `StepAbout` turns that into one lemma, and
`CommerceInv` is the conjunction of their invariants.

### Model-checked only

`RowsSettle`, `SlotSettles` and `LaneFrees`: liveness under fairness is beyond the
prover. The four properties of section 5 that do not hold are refuted by TLC.

## 5. Where code and comments disagree

Each of the first four is a run that ends in a violation.

- `lost_reply`: an RPC error while awaiting a live `bridgeFor` is recorded as a
  failure of 60 s (ccip-bridge-runner.ts:867-888); the next retry bridges again.
- `slot_clobbered`: the reconcile cron's delete after a debit (route.ts:194)
  removes whatever the slot holds by then, with no fault involved.
- `cancel_undone`: a tick of the payout cron that read the rule before the owner
  cancelled it writes its copy back (agentic-wallet-recurring.ts:987), and the
  rule is queued again. The route re-reads the rule before it pays
  (recurring-payouts/route.ts:412-416) for this very reason; the write follows later.
- `deposit_twice`: of two writers of one deposit the one that loses the SADD
  finds the list still without it, takes it for lost and appends it too
  (db.ts:536); the comment at db.ts:514 calls the dedup race-safe.

Met while modelling, without a run of their own:

- The relay's write-back (relay/route.ts:1185) of the record it read at admission
  may restore a key that a rotation has deactivated since: the account is then
  locked out of its paid scope, with no fault, although db.ts:411-412 orders the
  rotation so that this cannot happen.
- An activation on a trial account from before the split seeds the trial pool
  from the old one, then marks its grant, then credits it. If it dies before the
  credit, the next attempt skips the credit because of the marker and writes the
  customer's record; the first top-up after that finds no paid counter and seeds it
  from the old pool a second time (db.ts:1006). `GrantsCreditedOnce` excludes
  that shape of account.
- A backfill entry and its member are written at once; a cron pass between the
  two takes the member for an orphan and drops it (receipt-backfill.ts:94), which
  leaves an entry nobody lists again.
- The reconcile cron turns a failed read of an orphan row into a delete
  (route.ts:334-337), while the comment above says that these rows sit until
  credited. This is why `OrphansKept` excludes failing reads.
- An orphan row (365 d) outlives the debit claim (24 h) and is not deleted by the
  inline debit (db.ts:1661-1665, 1793-1794): after a day without the cron it is
  debited again. This is why `NeverChargedTwice` excludes `cron_outage`.
- The pay route does not read the request again under its lock: a request that is
  cancelled in between is still paid. A relay answer later than 60 s is reported
  as safe to retry although the funds moved; the properties excuse it.

## 6. What is not modelled

- The OFT runner follows the CCIP runner step by step; what it has of its own is the
  approval-gas transfer awaited without a row. RedStone triggers, yield and the
  send hooks are not modelled. Withdrawals from the Gas Tank, the
  scan of a chain for deposits and for payments, and the batch variants of
  relay and send are not either.
- In the modelled components: amounts (a payment is a unit, a balance check of
  the Gas Tank a nondeterministic outcome), split recipients, the Q token,
  sandbox keys beyond the question whether one is there, the creation of a rule (the initial
  state has one), webhooks and totals, the wallet-chain lease of an escrow lock
  (one escrow has one action in flight), an arbiter who never answers, the
  history lists and rate limits, alerts beyond the fact that one names the
  transaction (`paged`).
- Authentication, sessions, ops crons and alerts read state and send messages;
  the front end keeps no shared state; the contracts run on the chain, which is
  external here. These make up most of the lines of the repository, and the
  reason the map covers a small share of them.
