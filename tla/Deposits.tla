------------------------------ MODULE Deposits ------------------------------
(***************************************************************************)
(* Gas-Tank deposits: addGasDeposit and addLinkDeposit of db.ts, called by *)
(* the verify route and by the deposit-scan cron for the same transfers.   *)
(***************************************************************************)
EXTENDS Storefront

CONSTANTS Transfers,
          MaxCredits    \* bound on the entries of one transfer in the list

VARIABLES
  dedup,       \* gasdep_hashes:{addr}, the set of credited transactions
  ledger,      \* ledger[t]: the entries of t in gasdep:{addr}
  listShape,   \* "list", or "json": the whole array in one value
  recorded     \* transfers some call has reported as recorded or known

depVars == <<dedup, ledger, listShape, recorded>>

Ledgers == [Transfers -> 0 .. MaxCredits]

DepTypeOK ==
  /\ dedup \subseteq Transfers /\ recorded \subseteq Transfers
  /\ ledger \in Ledgers /\ listShape \in {"list", "json"}

DepInit ==
  /\ dedup = {} /\ recorded = {} /\ listShape = "list"
  /\ ledger = [t \in Transfers |-> 0]

\* A scan or a client presents a mined transfer.
DepositStart(h) ==
  /\ \E t \in Transfers :
       Begin(h, "deposit", "d_mark", t, [late |-> t \in recorded, list |-> None])
  /\ Sure /\ UNCHANGED depVars

\* SADD: whether it was new makes no difference to what follows.
DepositMark(h) ==
  /\ At(h, "d_mark")
  /\ \/ dedup' = dedup \cup {on[h]} /\ Goto(h, "d_list")
     \/ Fault("kv_write") /\ dedup' \in {dedup, dedup \cup {on[h]}} /\ Goto(h, "d_old")
  /\ Sure /\ UNCHANGED <<ledger, listShape, recorded>>

Nothing == [t \in Transfers |-> 0]

\* The list as getGasDeposits returns it: empty when LRANGE fails, since GET
\* does not read a list.
Reads(h, l) ==
  \/ l = ledger /\ Sure
  \/ Fault("kv_read") /\ ledger # Nothing /\ l = Nothing /\ Doubt(on[h], {"read"})

DepositKnown(h, l) ==
  l[on[h]] > 0 /\ recorded' = recorded \cup {on[h]} /\ Finish(h)

\* Mutant: the list is not looked through before the push.
ListUnread(h) == At(h, "d_list") /\ Goto(h, "d_push") /\ Sure /\ UNCHANGED depVars

DepositList(h) ==
  /\ At(h, "d_list")
  /\ \E l \in {ledger, Nothing} :
       /\ Reads(h, l)
       /\ \/ DepositKnown(h, l)
          \/ l[on[h]] = 0 /\ Goto(h, "d_push") /\ UNCHANGED recorded
  /\ UNCHANGED <<dedup, ledger, listShape>>

Appended(l, t) == [l EXCEPT ![t] = IF @ < MaxCredits THEN @ + 1 ELSE @]

\* RPUSH throws on the array, and may throw although it was applied.
DepositPush(h) ==
  /\ At(h, "d_push")
  /\ \/ /\ listShape = "list" /\ ledger' = Appended(ledger, on[h])
        /\ recorded' = recorded \cup {on[h]} /\ Finish(h)
     \/ listShape = "json" /\ Goto(h, "d_old") /\ UNCHANGED <<ledger, recorded>>
     \/ /\ Fault("kv_write") /\ listShape = "list"
        /\ ledger' \in {ledger, Appended(ledger, on[h])}
        /\ Goto(h, "d_old") /\ UNCHANGED recorded
  /\ Sure /\ UNCHANGED <<dedup, listShape>>

\* The older form: read the array, write it back with one more entry.
DepositOld(h) ==
  /\ At(h, "d_old")
  /\ \E l \in {ledger, Nothing} :
       /\ Reads(h, l)
       /\ \/ DepositKnown(h, l)
          \/ /\ l[on[h]] = 0 /\ Keep(h, "d_set", [got[h] EXCEPT !.list = l])
             /\ UNCHANGED recorded
  /\ UNCHANGED <<dedup, ledger, listShape>>

DepositSet(h) ==
  /\ At(h, "d_set") /\ Finish(h)
  /\ \/ /\ ledger' = Appended(got[h].list, on[h]) /\ listShape' = "json"
        /\ recorded' = recorded \cup {on[h]}
        /\ unsure' = [x \in DOMAIN unsure |->
             IF x \in Transfers /\ ledger'[x] < ledger[x] THEN unsure[x] \cup {"lost"} ELSE unsure[x]]
     \/ Fault("kv_write") /\ Sure /\ UNCHANGED <<ledger, listShape, recorded>>
  /\ UNCHANGED dedup

CrashDeposit(h) ==
  /\ Fault("crash") /\ on[h] \in Transfers /\ Finish(h) /\ Sure /\ UNCHANGED depVars

DepositStep == \E h \in Handlers :
  DepositStart(h) \/ DepositMark(h) \/ DepositList(h) \/ DepositPush(h) \/ DepositOld(h)
  \/ DepositSet(h) \/ CrashDeposit(h)

-----------------------------------------------------------------------------

\* Once a transfer is recorded, whoever presents it again adds nothing, unless
\* the list could not be read or a writer of the older form dropped the entry.
RecordedIsFinal == \A h \in Handlers :
  pc[h] \in {"d_push", "d_set"} /\ got[h].late => unsure[on[h]] # {}

\* A transfer is credited once, however many scans present it.
DepositOnce == \A t \in Transfers : ledger[t] <= 1
=============================================================================
