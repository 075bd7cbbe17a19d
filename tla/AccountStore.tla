---------------------------- MODULE AccountStore ----------------------------
(***************************************************************************)
(* The records the key-value store keeps of one account (one wallet        *)
(* address), and the operations db.ts offers on them.  The relay route,    *)
(* the activation routes and the key routes are written on top of it.      *)
(*                                                                         *)
(* There is no lock on the subscription record: every route reads it whole *)
(* at its start and writes it back whole at its end.  Time stands still    *)
(* but for the TTLs, so windows are counted in periods of 30 days.         *)
(***************************************************************************)
EXTENDS Naturals, FiniteSets

CONSTANTS
  Handlers,   \* requests and cron invocations
  Payments,   \* hashes of on-chain payments for a plan
  Keys,       \* API keys that may be generated
  Txs,        \* hashes of settlements the relayer may broadcast
  None,       \* an absent record or value
  Shapes,     \* what the account may look like at the start
  Jobs,       \* the routes requests may run
  Faults      \* what the environment may do, out of FaultKinds

(***************************************************************************)
(* refused  a write or script call throws and is not applied               *)
(* kv_read  a read of the store throws                                     *)
(* rpc      a settlement is mined although the RPC call reports a failure  *)
(* crash    the platform kills an invocation between two awaits            *)
(***************************************************************************)
FaultKinds == {"refused", "kv_read", "rpc", "crash"}

Scopes == {"paid", "trial"}
Sub == [plan : {"starter", "trial"}, apiKey : Keys \cup {None}, trialKey : Keys \cup {None},
        sandbox : BOOLEAN, cash : BOOLEAN, window : Nat]
KeyRecord == [plan : {"starter", "trial"}, active : BOOLEAN]
Grants == Payments \cup {"trial"}
Sources == Grants \cup {"legacy", "topup"}

ASSUME AccountAssumption ==
  /\ Keys # {}
  /\ Faults \subseteq FaultKinds
  /\ Shapes \subseteq {"new", "legacy_trial", "paid"}
  /\ None \notin Keys \cup Payments \cup Txs \cup Handlers \cup Scopes \cup Sub \cup KeyRecord \cup Nat
  /\ "trial" \notin Payments /\ "legacy" \notin Payments /\ "topup" \notin Payments

VARIABLES
  sub,         \* sub:{addr}
  keyRec,      \* apikey:{key}
  quota,       \* quota:{scope}:{addr}, the two credit pools
  legacy,      \* quota:{addr}, the pool before the split, never written again
  intents,     \* payments whose intent record is there
  used,        \* used_txhash:{tx}
  claim,       \* activation_claim:{tx}
  grant,       \* credit_grant:{tx} and credit_grant:trial:{addr}
  trialUsed,   \* trial_used:{addr}
  trialClaim,  \* trial_claim:{addr}
  rotLock,     \* rotation_pending:{scope}:{addr}
  credited,    \* how often the credit of a source was added to a pool
  added        \* all that was ever added to a pool

keyVars == <<keyRec, rotLock>>
poolVars == <<quota, legacy, credited, added>>
activationVars == <<intents, used, claim, grant, trialUsed, trialClaim>>
accountVars == <<sub, keyVars, poolVars, activationVars>>

AccountTypeOK ==
  /\ sub \in Sub \cup {None}
  /\ keyRec \in [Keys -> KeyRecord \cup {None}]
  /\ quota \in [Scopes -> Nat \cup {None}]
  /\ legacy \in Nat
  /\ intents \in SUBSET Payments
  /\ used \in SUBSET Payments
  /\ claim \in [Payments -> Handlers \cup {None}]
  /\ grant \in SUBSET Grants
  /\ trialUsed \in BOOLEAN
  /\ trialClaim \in Handlers \cup {None}
  /\ rotLock \in [Scopes -> Handlers \cup {None}]
  /\ credited \in [Sources -> Nat]
  /\ added \in [Scopes -> Nat]

\* A new wallet; an account of before the pools and the trial keys were
\* split, with one credit left; a customer with one paid period.
NoKeys == [k \in Keys |-> None]
InitShape ==
  \/ /\ "new" \in Shapes
     /\ sub = None /\ keyRec = NoKeys /\ legacy = 0
     /\ quota = [s \in Scopes |-> None] /\ trialUsed = FALSE
  \/ /\ "legacy_trial" \in Shapes
     /\ LET k == CHOOSE x \in Keys : TRUE IN
          /\ sub = [plan |-> "trial", apiKey |-> k, trialKey |-> None, sandbox |-> TRUE,
                    cash |-> FALSE, window |-> 1]
          /\ keyRec = [NoKeys EXCEPT ![k] = [plan |-> "trial", active |-> TRUE]]
     /\ legacy = 1 /\ quota = [s \in Scopes |-> None] /\ trialUsed = TRUE
  \/ /\ "paid" \in Shapes
     /\ LET k == CHOOSE x \in Keys : TRUE IN
          /\ sub = [plan |-> "starter", apiKey |-> k, trialKey |-> None, sandbox |-> TRUE,
                    cash |-> TRUE, window |-> 1]
          /\ keyRec = [NoKeys EXCEPT ![k] = [plan |-> "starter", active |-> TRUE]]
     /\ legacy = 1 /\ quota = [s \in Scopes |-> None] /\ trialUsed = FALSE

AccountInit ==
  /\ InitShape
  /\ intents = Payments
  /\ used = {} /\ claim = [p \in Payments |-> None] /\ grant = {}
  /\ trialClaim = None
  /\ rotLock = [s \in Scopes |-> None]
  /\ credited = [x \in Sources |-> 0]
  /\ added = [s \in Scopes |-> 0]

CanFail(kind) == kind \in Faults

-----------------------------------------------------------------------------
(* Predicates on a subscription record *)

LegacyTrialKey(r) == r.plan = "trial" /\ r.apiKey # None /\ r.trialKey = None
TrialSignal(r) == r.trialKey # None \/ LegacyTrialKey(r)
PaidSignal(r) == r.cash /\ r.plan # "trial"
\* hasMultichainScope: a key or a plan that is not the trial's.
MultichainScope(r) == r # None /\ r.plan # "trial" /\ r.apiKey # None

ScopeOf(k) == IF keyRec[k].plan = "trial" THEN "trial" ELSE "paid"

-----------------------------------------------------------------------------
(* Credit pools *)

\* seedFromLegacy: a pool that exists takes nothing; otherwise the legacy
\* amount goes to the one scope the record signals, to paid if it signals both.
LegacyShare(s) ==
  IF quota[s] # None \/ sub = None THEN 0
  ELSE IF PaidSignal(sub) THEN (IF s = "paid" THEN legacy ELSE 0)
  ELSE IF TrialSignal(sub) /\ s = "trial" THEN legacy ELSE 0

\* initScopedQuotaIfNeeded(seed): SET NX.  The pool after it, with n added.
Seeded(s) == IF quota[s] = None THEN LegacyShare(s) ELSE quota[s]

\* Every mutation seeds first and then adds n for a source.  Nothing but
\* another seed can come between that matters, so the two are one step; the
\* first may be carried out and the second refused.
SeedAnd(s, n, credits) ==
  /\ quota' = [quota EXCEPT ![s] = Seeded(s) + n]
  /\ added' = [added EXCEPT ![s] = @ + LegacyShare(s) + n]
  /\ credited' = [x \in Sources |->
                    credited[x] + (IF x = "legacy" THEN LegacyShare(s) ELSE 0)
                                + (IF x \in credits THEN n ELSE 0)]
  /\ UNCHANGED legacy

AddCredit(s, source) == SeedAnd(s, 1, {source})
AddCreditThrows(s) == CanFail("refused") /\ (SeedAnd(s, 0, {}) \/ UNCHANGED poolVars)

\* Mutant: DECRBY without the comparison.
TakeCreditUnchecked(s) ==
  /\ quota' = [quota EXCEPT ![s] = Seeded(s) - 1]
  /\ added' = [added EXCEPT ![s] = @ + LegacyShare(s)]
  /\ credited' = [credited EXCEPT !["legacy"] = @ + LegacyShare(s)]
  /\ UNCHANGED legacy

\* The EVAL of decrementScopedCredit takes a credit or rejects.
TakeCredit(s) ==
  /\ Seeded(s) > 0
  /\ quota' = [quota EXCEPT ![s] = Seeded(s) - 1]
  /\ added' = [added EXCEPT ![s] = @ + LegacyShare(s)]
  /\ credited' = [credited EXCEPT !["legacy"] = @ + LegacyShare(s)]
  /\ UNCHANGED legacy
RejectCredit(s) == Seeded(s) = 0 /\ SeedAnd(s, 0, {})

\* refundScopedCredit: INCRBY on the pool the credit came from.
RefundCredit(s) == /\ quota' = [quota EXCEPT ![s] = @ + 1]
                   /\ UNCHANGED <<legacy, credited, added>>

-----------------------------------------------------------------------------
(* API keys *)

\* 24 random bytes: a key nobody has seen.
NewKey(k, p) == /\ k = CHOOSE x \in Keys : keyRec[x] = None
                /\ keyRec[k] = None
                /\ keyRec' = [keyRec EXCEPT ![k] = [plan |-> p, active |-> TRUE]]

\* deactivateApiKey, best effort: the record is read and written back.
Deactivate(k) == \/ keyRec' = [keyRec EXCEPT ![k].active = FALSE]
                 \/ (CanFail("refused") \/ CanFail("kv_read")) /\ UNCHANGED keyRec

SetSub(r) == sub' = r
=============================================================================
