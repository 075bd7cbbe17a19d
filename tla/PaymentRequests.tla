-------------------------- MODULE PaymentRequests --------------------------
(***************************************************************************)
(* Payment requests: the record, the settled marker and the pay lock of    *)
(* payment-request.ts, and the pay and cancel routes over them.            *)
(***************************************************************************)
EXTENDS Storefront

CONSTANTS Requests, Agents,
          MaxMoved    \* bound on the settlements of one request

\* A payer is an agent wallet, through the send route, or an outside wallet
\* whose signed transfer goes to the relay.
Payers == Agents \cup {"witness"}

VARIABLES
  reqStatus,   \* the status of payreq:{id}, "none" before it is created
  reqDue,      \* requests past expiresAt
  reqMark,     \* payreq:settled:{id}
  reqLock,     \* the requests whose payreq:lock:{id} exists
  reqFlip,     \* requests a reader has found expired and is about to rewrite
  moved,       \* moved[r]: settlements of r on the chain
  sentBy       \* the agents the send route has already paid r from

reqVars == <<reqStatus, reqDue, reqMark, reqLock, reqFlip, moved, sentBy>>

ReqTypeOK ==
  /\ reqStatus \in [Requests -> {"none", "open", "paid", "expired", "cancelled"}]
  /\ reqDue \subseteq Requests /\ reqLock \subseteq Requests /\ reqFlip \subseteq Requests
  /\ reqMark \in [Requests -> Payers \cup {None}]
  /\ moved \in [Requests -> 0 .. MaxMoved]
  /\ sentBy \in [Requests -> SUBSET Agents]

ReqInit ==
  /\ reqStatus = [r \in Requests |-> "none"] /\ reqMark = [r \in Requests |-> None]
  /\ reqDue = {} /\ reqLock = {} /\ reqFlip = {}
  /\ moved = [r \in Requests |-> 0] /\ sentBy = [r \in Requests |-> {}]

ReadsOpen(r) == reqStatus[r] = "open" /\ r \notin reqDue

CreateRequest(r) ==
  /\ "pay" \in mix /\ reqStatus[r] = "none"
  /\ reqStatus' = [reqStatus EXCEPT ![r] = "open"]
  /\ UNCHANGED <<reqDue, reqMark, reqLock, reqFlip, moved, sentBy, jobVars>>

RequestDue(r) ==
  /\ reqStatus[r] # "none" /\ reqDue' = reqDue \cup {r} /\ r \notin reqDue
  /\ UNCHANGED <<reqStatus, reqMark, reqLock, reqFlip, moved, sentBy, jobVars>>

\* Any reader of a request that is past its expiry reads it once more and, if
\* it is still open, writes it back as expired, without waiting for the write.
FlipRead(r) ==
  /\ reqStatus[r] = "open" /\ r \in reqDue \ reqFlip
  /\ reqFlip' = reqFlip \cup {r}
  /\ UNCHANGED <<reqStatus, reqDue, reqMark, reqLock, moved, sentBy, jobVars>>

FlipWrite(r) ==
  /\ r \in reqFlip /\ reqFlip' = reqFlip \ {r}
  /\ \/ reqStatus' = [reqStatus EXCEPT ![r] = "expired"]
     \/ Fault("kv_write") /\ UNCHANGED reqStatus
  /\ UNCHANGED <<reqDue, reqMark, reqLock, moved, sentBy, jobVars>>

-----------------------------------------------------------------------------
(* POST /api/request/[id]/pay *)

PayStart(h) ==
  /\ \E r \in Requests, p \in Payers : ReadsOpen(r) /\ Begin(h, "pay", "p_mark", r, p)
  /\ Sure /\ UNCHANGED reqVars

\* Mutant: the settled marker is not read.
MarkerSkipped(h) == At(h, "p_mark") /\ Goto(h, "p_lock") /\ Sure /\ UNCHANGED reqVars

\* A marker that cannot be read is taken for none.
PayMarker(h) ==
  /\ At(h, "p_mark")
  /\ \/ reqMark[on[h]] # None /\ Finish(h) /\ Sure
     \/ reqMark[on[h]] = None /\ Goto(h, "p_lock") /\ Sure
     \/ /\ Fault("kv_read") /\ reqMark[on[h]] # None
        /\ Goto(h, "p_lock") /\ Doubt(on[h], {"read"})
  /\ UNCHANGED reqVars

\* SET NX.  The request is not read again once the lock is held.
TakePayLock(h, next) ==
  /\ \/ on[h] \in reqLock /\ Finish(h) /\ UNCHANGED reqLock
     \/ on[h] \notin reqLock /\ reqLock' = reqLock \cup {on[h]} /\ Goto(h, next)
     \/ Fault("kv_write") /\ reqLock' = reqLock \cup {on[h]} /\ Finish(h)
  /\ Sure /\ UNCHANGED <<reqStatus, reqDue, reqMark, reqFlip, moved, sentBy>>

PayLock(h) == At(h, "p_lock") /\ TakePayLock(h, "p_settle")

\* The relay moves the funds whenever it is asked; the send route answers a
\* second call of the same agent with the first result.
Move(r, p) ==
  IF p \in sentBy[r] THEN UNCHANGED <<moved, sentBy>>
  ELSE /\ moved[r] < MaxMoved
       /\ moved' = [moved EXCEPT ![r] = @ + 1]
       /\ sentBy' = [sentBy EXCEPT ![r] = @ \cup ({p} \cap Agents)]

\* Settled and told so; refused; or settled with the answer lost to the 60 s
\* timeout or a failed response, which the route takes for a failure.
PaySettle(h) ==
  /\ At(h, "p_settle")
  /\ \/ Move(on[h], got[h]) /\ Goto(h, "p_note") /\ Sure
     \/ UNCHANGED <<moved, sentBy>> /\ Goto(h, "p_exit") /\ Sure
     \/ /\ Fault("answer") /\ Move(on[h], got[h])
        /\ Goto(h, "p_exit") /\ Doubt(on[h], {"answer"})
  /\ UNCHANGED <<reqStatus, reqDue, reqMark, reqLock, reqFlip>>

\* The marker before the status, each with three attempts; the lock is left to
\* expire.
PayNote(h) ==
  /\ At(h, "p_note") /\ Goto(h, "p_paid")
  /\ \/ reqMark' = [reqMark EXCEPT ![on[h]] = got[h]] /\ Sure
     \/ Fault("kv_write") /\ UNCHANGED reqMark /\ Doubt(on[h], {"marker"})
  /\ UNCHANGED <<reqStatus, reqDue, reqLock, reqFlip, moved, sentBy>>

PayPaid(h) ==
  /\ At(h, "p_paid") /\ Finish(h)
  /\ \/ reqStatus' = [reqStatus EXCEPT ![on[h]] = "paid"] /\ Sure
     \/ Fault("kv_write") /\ UNCHANGED reqStatus /\ Doubt(on[h], {"status"})
  /\ UNCHANGED <<reqDue, reqMark, reqLock, reqFlip, moved, sentBy>>

\* DEL, without looking whose lock it is.
GiveBackPayLock(h) ==
  /\ At(h, "p_exit") /\ Finish(h)
  /\ reqLock' = reqLock \ {on[h]} \/ (Fault("kv_write") /\ UNCHANGED reqLock)
  /\ Sure /\ UNCHANGED <<reqStatus, reqDue, reqMark, reqFlip, moved, sentBy>>

-----------------------------------------------------------------------------
(* POST /api/request/[id]/cancel *)

CancelStart(h) ==
  /\ \E r \in Requests : ReadsOpen(r) /\ Begin(h, "cancel", "x_lock", r, None)
  /\ Sure /\ UNCHANGED reqVars

CancelLock(h) == At(h, "x_lock") /\ TakePayLock(h, "x_read")

CancelRead(h) ==
  /\ At(h, "x_read")
  /\ Goto(h, IF reqStatus[on[h]] = "open" THEN "x_write" ELSE "p_exit")
  /\ Sure /\ UNCHANGED reqVars

CancelWrite(h) ==
  /\ At(h, "x_write") /\ Goto(h, "p_exit")
  /\ \/ reqStatus' = [reqStatus EXCEPT ![on[h]] = "cancelled"]
     \/ Fault("kv_write") /\ UNCHANGED reqStatus
  /\ Sure /\ UNCHANGED <<reqDue, reqMark, reqLock, reqFlip, moved, sentBy>>

-----------------------------------------------------------------------------

LockSteps == {"p_settle", "p_note", "p_paid", "p_exit", "x_read", "x_write"}

\* The lock lasts 120 s.  A holder waits 60 s for its settlement at most, and
\* who read the request before it was settled asks for the lock well within
\* the rest.
ExpirePayLock(r) ==
  /\ r \in reqLock /\ reqLock' = reqLock \ {r}
  /\ \A h \in Handlers : on[h] = r => pc[h] \notin LockSteps \cup {"p_mark", "p_lock"}
  /\ UNCHANGED <<reqStatus, reqDue, reqMark, reqFlip, moved, sentBy, jobVars>>

\* Killed before the marker, or between the marker and the status.
CrashPay(h) ==
  /\ Fault("crash") /\ on[h] \in Requests /\ Finish(h)
  /\ CASE pc[h] = "p_note" -> Doubt(on[h], {"answer"})
       [] pc[h] = "p_paid" -> Doubt(on[h], {"status"})
       [] OTHER -> Sure
  /\ UNCHANGED reqVars

RequestStep ==
  \/ \E r \in Requests : CreateRequest(r) \/ RequestDue(r) \/ FlipRead(r) \/ FlipWrite(r)
                         \/ ExpirePayLock(r)
  \/ \E h \in Handlers :
       \/ PayStart(h) \/ PayMarker(h) \/ PayLock(h) \/ PaySettle(h) \/ PayNote(h) \/ PayPaid(h)
       \/ CancelStart(h) \/ CancelLock(h) \/ CancelRead(h) \/ CancelWrite(h)
       \/ GiveBackPayLock(h) \/ CrashPay(h)

-----------------------------------------------------------------------------

\* A request is settled a second time only after an answer of the first was
\* lost, or its status and, of its marker, either the write or the reading:
\* neither two payers, nor a payer and a cancel, nor any single failed write
\* pays it twice.
RequestPaidOnce ==
  \A r \in Requests : moved[r] > 1 =>
    \/ "answer" \in unsure[r]
    \/ "status" \in unsure[r] /\ unsure[r] \cap {"marker", "read"} # {}
=============================================================================
