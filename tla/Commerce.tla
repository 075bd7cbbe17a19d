------------------------------ MODULE Commerce ------------------------------
(***************************************************************************)
(* Payment requests, escrow and Gas-Tank deposits over one set of          *)
(* invocations.  A behaviour sees one of the mixes of jobs.                *)
(***************************************************************************)
EXTENDS PaymentRequests, Escrow, Deposits

ASSUME CommerceAssumption ==
  /\ Requests \cap Escrows = {} /\ Requests \cap Transfers = {} /\ Escrows \cap Transfers = {}
  /\ None \notin Requests \cup Escrows \cup Transfers \cup Payers
  /\ MaxMoved \in Nat /\ DailyLocks \in Nat /\ MaxCredits \in Nat \ {0}

commerceVars == <<jobVars, reqVars, escVars, depVars>>

CommerceInit ==
  /\ mix \in Mixes
  /\ pc = [h \in Handlers |-> "idle"]
  /\ on = [h \in Handlers |-> None] /\ got = [h \in Handlers |-> None]
  /\ unsure = [x \in Requests \cup Escrows \cup Transfers |-> {}]
  /\ ReqInit /\ EscInit /\ DepInit

CommerceNext ==
  \/ RequestStep /\ UNCHANGED <<escVars, depVars>>
  \/ EscrowStep  /\ UNCHANGED <<reqVars, depVars>>
  \/ DepositStep /\ UNCHANGED <<reqVars, escVars>>

CommerceSpec == CommerceInit /\ [][CommerceNext]_commerceVars

CommerceSteps ==
  {"idle", "p_mark", "p_lock", "p_settle", "p_note", "p_paid", "p_exit", "x_lock", "x_read", "x_write",
   "e_look", "e_prior", "e_lock", "e_exit", "l_prior", "l_chain", "l_heal", "l_charge", "l_send",
   "l_post", "l_note", "s_send", "s_note", "t_read", "t_write",
   "d_mark", "d_list", "d_push", "d_old", "d_set"}

CommerceTypeOK ==
  /\ mix \in Mixes /\ pc \in [Handlers -> CommerceSteps]
  /\ on \in [Handlers -> Requests \cup Escrows \cup Transfers \cup {None}]
  /\ ReqTypeOK /\ EscTypeOK /\ DepTypeOK
=============================================================================
