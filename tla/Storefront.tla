----------------------------- MODULE Storefront -----------------------------
(***************************************************************************)
(* What the payment-request, escrow and Gas-Tank deposit routes have in    *)
(* common: invocations that run one job after another, and the mix of jobs *)
(* and faults a behaviour sees.  The three share no record, so a behaviour *)
(* sees the traffic of one of them.                                        *)
(***************************************************************************)
EXTENDS Naturals, FiniteSets

CONSTANTS Handlers, None,
          Mixes,    \* the sets of jobs a behaviour may be made of
          Faults    \* the faults it may meet

Jobs == {"pay", "cancel", "escrow", "deposit"}

FaultKinds == {"kv_read", "kv_write", "answer", "crash"}

ASSUME StorefrontAssumption ==
  /\ \A m \in Mixes : m \subseteq Jobs
  /\ Faults \subseteq FaultKinds

VARIABLES
  mix,     \* the jobs of this behaviour
  pc,      \* pc[h]: the step the invocation is about to take
  on,      \* on[h]: the request, escrow or transaction it serves
  got,     \* got[h]: what it was called with or has read
  unsure   \* unsure[x]: what went wrong around x that no record tells of

jobVars == <<mix, pc, on, got, unsure>>

Fault(f) == f \in Faults

At(h, l) == pc[h] = l

Running(h) == pc[h] # "idle"

Begin(h, job, l, x, g) ==
  /\ job \in mix /\ At(h, "idle")
  /\ pc' = [pc EXCEPT ![h] = l] /\ on' = [on EXCEPT ![h] = x] /\ got' = [got EXCEPT ![h] = g]
  /\ UNCHANGED mix

Goto(h, l) == pc' = [pc EXCEPT ![h] = l] /\ UNCHANGED <<mix, on, got>>

\* Goes on with what it has just read.
Keep(h, l, g) == /\ pc' = [pc EXCEPT ![h] = l] /\ got' = [got EXCEPT ![h] = g]
                 /\ UNCHANGED <<mix, on>>

Finish(h) == /\ pc' = [pc EXCEPT ![h] = "idle"]
             /\ on' = [on EXCEPT ![h] = None] /\ got' = [got EXCEPT ![h] = None]
             /\ UNCHANGED mix

Doubt(x, why) == unsure' = [unsure EXCEPT ![x] = @ \cup why]
Sure == UNCHANGED unsure
=============================================================================
